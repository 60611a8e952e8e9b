-------------------------- MODULE UserSessionProofs --------------------------
(***************************************************************************)
(* Proofs about UserSession, for any number of requests and any lifetimes  *)
(* of the session and of its entries in Redis.                             *)
(***************************************************************************)
EXTENDS UserSession, TLAPS

Request == [pc : Step, op : Operation, v : 1..MaxVersion, g : 0..MaxGen,
            left : 0..TTL, late : BOOLEAN]

Row == [status : {"none", "active", "revoked"}, version : 1..MaxVersion,
        gen : 0..MaxGen, grace : BOOLEAN]

Entry == [status : {"active", "revoking", "revoked"}, version : 1..MaxVersion, ttl : 1..TTL]

\* What holds of a request w when the row is r, the session has l ticks left,
\* the entry in Redis is c, s is the time since the row changed, and p tells
\* whether a tombstone was written.

\* A snapshot with this deadline cannot be written, or a tombstone outlasts it.
Quiet(left, l, c) ==
  Least(left, l) = 0 \/ (c.status \in {"revoking", "revoked"} /\ Least(left, l) <= c.ttl)

GoodStep(w, r) ==
  /\ w.pc = "swap" => w.g < MaxGen
  /\ w.pc = "advance" => w.v < MaxVersion
  /\ w.pc = "tombstone" => r.status = "revoked"

\* A snapshot the row no longer agrees with was taken before it changed.
GoodSnapshot(w, r, s) ==
  w.pc \in {"write", "script", "swap"} /\ (r.status = "revoked" \/ r.version > w.v) =>
    w.left + s <= TTL

GoodDeadline(w, l, c, p) == p /\ w.pc \in {"write", "script"} => Quiet(w.left, l, c)

GoodStart(w, r, l) ==
  w.late => (r.status = "revoked" \/ l = 0) /\ w.pc \in {"read", "inactive"}

Good(w, r, l, c, s, p) ==
  GoodStep(w, r) /\ GoodSnapshot(w, r, s) /\ GoodDeadline(w, l, c, p) /\ GoodStart(w, r, l)

GoodThread(t) == Good(thread[t], row, life, cache, since, published)

\* What holds of the row, the entry and the clocks.
SharedType ==
  /\ row \in Row /\ life \in 0..Lifetime /\ cache \in Entry \cup {NoEntry}
  /\ others \in 0..MaxOthers /\ since \in 0..TTL /\ published \in BOOLEAN

Shared ==
  /\ SharedType
  /\ row.status = "none" => row.version = 1
  /\ published => row.status = "revoked" /\ cache.status # "active"
  /\ StaleEndsInTime

IInv == Shared /\ thread \in [Thread -> Request] /\ \A t \in Thread : GoodThread(t)

-----------------------------------------------------------------------------
(* Requests that do not move                                               *)

\* Arithmetic of the bounds the steps use.
LEMMA Bounds ==
  /\ 1 \in 1..MaxVersion /\ 0 \in 0..MaxGen /\ 0 \in 0..TTL /\ TTL \in 0..TTL
  /\ Lifetime \in 0..Lifetime /\ 0 \in 0..MaxOthers
  BY SessionAssumption

\* A tombstone or a fence outlasts every deadline.
LEMMA DenyIsQuiet ==
  ASSUME NEW l \in 0..Lifetime, NEW left \in 0..TTL, NEW c,
         c.status \in {"revoking", "revoked"},
         c.ttl = (IF l = 0 THEN 1 ELSE Least(l, TTL))
  PROVE  Quiet(left, l, c)
  BY SessionAssumption DEF Quiet, Least

\* A tick leaves every request at its step.
LEMMA TickIsQuiet ==
  ASSUME NEW l \in 0..Lifetime, NEW left \in 0..TTL, NEW c \in Entry \cup {NoEntry}, NEW d,
         Quiet(left, l, c), d = (IF c.ttl > 1 THEN [c EXCEPT !.ttl = @ - 1] ELSE NoEntry)
  PROVE  Quiet(Before(left), Before(l), d)
<1>1. CASE Least(left, l) = 0
  BY <1>1, SessionAssumption DEF Quiet, Least, Before
<1>2. CASE Least(left, l) # 0
  <2>1. c \in Entry /\ c.status \in {"revoking", "revoked"} /\ Least(left, l) <= c.ttl
    BY <1>2 DEF Quiet, NoEntry
  <2>2. c.ttl \in 1..TTL
    BY <2>1 DEF Entry
  <2>3. CASE c.ttl > 1
    <3>1. d.status = c.status /\ d.ttl = c.ttl - 1
      BY <2>1, <2>3 DEF Entry
    <3>2. Least(Before(left), Before(l)) <= c.ttl - 1
      BY <2>1, <2>2, <2>3, SessionAssumption DEF Least, Before
    <3> QED
      BY <2>1, <3>1, <3>2 DEF Quiet
  <2>4. CASE ~(c.ttl > 1)
    <3>1. Least(left, l) <= 1
      BY <2>1, <2>2, <2>4
    <3>2. Least(Before(left), Before(l)) = 0
      BY <3>1, SessionAssumption DEF Least, Before
    <3> QED
      BY <3>2 DEF Quiet
  <2> QED
    BY <2>3, <2>4
<1> QED
  BY <1>1, <1>2

\* Only one request moves and the rest stays.
LEMMA OnlyThread ==
  ASSUME IInv, UNCHANGED <<row, life, cache, others, since, published>>, NEW t \in Thread,
         thread' \in [Thread -> Request], \A u \in Thread \ {t} : thread'[u] = thread[u],
         GoodThread(t)'
  PROVE  IInv'
<1>1. Shared'
  BY DEF IInv, Shared, SharedType, StaleEndsInTime
<1>2. \A u \in Thread \ {t} : GoodThread(u)'
  BY DEF IInv, GoodThread
<1> QED
  BY <1>1, <1>2 DEF IInv

\* A request that ends is good.
LEMMA IdleGood ==
  /\ Idle \in Request
  /\ \A r, l, c, s, p : Good(Idle, r, l, c, s, p)
<1>1. Idle \in Request
  BY SessionAssumption DEF Idle, Request, Step, Operation
<1>2. Idle.pc = "idle" /\ ~Idle.late
  BY DEF Idle
<1> QED
  BY <1>1, <1>2 DEF Good, GoodStep, GoodSnapshot, GoodDeadline, GoodStart

\* The initial state satisfies the invariant.
LEMMA IInvInit == Init => IInv
<1> SUFFICES ASSUME Init PROVE IInv
  OBVIOUS
<1>1. SharedType
  BY Bounds, Zenon DEF Init, SharedType, Row
<1>2. row.status = "none" /\ row.version = 1 /\ cache.status = "none" /\ ~published
  BY DEF Init, NoEntry
<1>3. Shared
  BY <1>1, <1>2 DEF Shared, StaleEndsInTime
<1> QED
  BY <1>3, IdleGood DEF Init, IInv, GoodThread

\* Return and GoTo
LEMMA ReturnKeeps ==
  ASSUME IInv, UNCHANGED <<row, life, cache, others, since, published>>, NEW t \in Thread, Return(t)
  PROVE  IInv'
<1>1. thread' \in [Thread -> Request] /\ thread'[t] = Idle /\ \A u \in Thread \ {t} : thread'[u] = thread[u]
  BY IdleGood DEF Return, Become, IInv
<1>2. GoodThread(t)'
  BY <1>1, IdleGood DEF GoodThread
<1> QED
  BY <1>1, <1>2, OnlyThread

\* A request that moves on, the shared state unchanged.
LEMMA GoToKeeps ==
  ASSUME IInv, UNCHANGED <<row, life, cache, others, since, published>>,
         NEW t \in Thread, NEW pc \in Step, GoTo(t, pc),
         pc \notin {"swap", "advance", "tombstone", "write", "script"} \/ (pc = "script" /\ At(t, "write")),
         ~thread[t].late \/ pc \in {"read", "inactive"}
  PROVE  IInv'
<1>1. thread[t] \in Request /\ GoodThread(t)
  BY DEF IInv
<1>2. /\ [thread[t] EXCEPT !.pc = pc] \in Request
      /\ [thread[t] EXCEPT !.pc = pc].pc = pc
      /\ [thread[t] EXCEPT !.pc = pc].v = thread[t].v
      /\ [thread[t] EXCEPT !.pc = pc].left = thread[t].left
      /\ [thread[t] EXCEPT !.pc = pc].late = thread[t].late
  BY <1>1 DEF Request
<1>3. /\ thread' \in [Thread -> Request] /\ \A u \in Thread \ {t} : thread'[u] = thread[u]
      /\ thread'[t].pc = pc /\ thread'[t].v = thread[t].v
      /\ thread'[t].left = thread[t].left /\ thread'[t].late = thread[t].late
  BY <1>2 DEF GoTo, Become, IInv
<1>4. GoodThread(t)'
  BY <1>1, <1>3 DEF At, GoodThread, Good, GoodStep, GoodSnapshot, GoodDeadline, GoodStart
<1> QED
  BY <1>3, <1>4, OnlyThread

\* A request is served; it was not late.
LEMMA ServeKeeps ==
  ASSUME IInv, UNCHANGED <<row, life, cache, others, since, published>>,
         NEW t \in Thread, Serve(t), ~thread[t].late
  PROVE  IInv'
<1> DEFINE w == [thread[t] EXCEPT !.pc = "served", !.v = 1, !.left = 0]
<1>1. thread[t] \in Request
  BY DEF IInv
<1>2. w \in Request /\ w.pc = "served" /\ ~w.late
  BY <1>1, Bounds, Zenon DEF Request, Step
<1>3. /\ thread' \in [Thread -> Request] /\ \A u \in Thread \ {t} : thread'[u] = thread[u]
      /\ thread'[t].pc = "served" /\ ~thread'[t].late
  BY <1>2 DEF Serve, Become, IInv
<1>4. GoodThread(t)'
  BY <1>3 DEF GoodThread, Good, GoodStep, GoodSnapshot, GoodDeadline, GoodStart
<1> QED
  BY <1>3, <1>4, OnlyThread

-----------------------------------------------------------------------------
(* The requests that read                                                  *)

\* No request that begins when the session is over is served by Redis.
LEMMA GetCachedKeeps ==
  ASSUME IInv, NEW t \in Thread, NEW op \in {"validate", "refresh"}, NEW g \in 0..MaxGen,
         GetUserSessionCached(t, op, g)
  PROVE  IInv'
<1>0. UNCHANGED <<row, life, cache, others, since, published>>
  BY DEF GetUserSessionCached
<1>1. Over \in BOOLEAN
  BY DEF Over, IInv, Shared, SharedType
<1>2. ASSUME NEW pc \in {"served", "read"}, NEW left \in {0, TTL}, Become(t, Started(pc, op, g, left))
      PROVE  /\ thread' \in [Thread -> Request] /\ \A u \in Thread \ {t} : thread'[u] = thread[u]
             /\ thread'[t].pc = pc /\ thread'[t].late = Over
  <2>1. Started(pc, op, g, left) \in Request
    BY <1>1, Bounds, Zenon DEF Started, Request, Step, Operation
  <2>2. Started(pc, op, g, left).pc = pc /\ Started(pc, op, g, left).late = Over
    BY Zenon DEF Started
  <2> QED
    BY <1>2, <2>1, <2>2 DEF Become, IInv
<1>3. CASE cache.status = "active" /\ life > 0 /\ Become(t, Started("served", op, g, 0))
  <2>1. ~Over
    <3>1. cache.ttl \in Nat \ {0} /\ since \in 0..TTL /\ life \in Nat
      BY <1>3, SessionAssumption DEF IInv, Shared, SharedType, Entry, NoEntry
    <3>2. ~published
      BY <1>3 DEF IInv, Shared
    <3>3. ~(row.status = "revoked" /\ since = TTL)
      BY <1>3, <3>1, SessionAssumption DEF IInv, Shared, StaleEndsInTime
    <3> QED
      BY <1>3, <3>1, <3>2, <3>3 DEF Over
  <2>2. GoodThread(t)'
    BY <1>2, <1>3, <2>1 DEF GoodThread, Good, GoodStep, GoodSnapshot, GoodDeadline, GoodStart
  <2> QED
    BY <1>0, <1>2, <1>3, <2>2, OnlyThread
<1>4. CASE Become(t, Started("read", op, g, TTL))
  <2>1. Over => row.status = "revoked" \/ life = 0
    BY DEF Over, IInv, Shared
  <2>2. GoodThread(t)'
    BY <1>0, <1>2, <1>4, <2>1 DEF GoodThread, Good, GoodStep, GoodSnapshot, GoodDeadline, GoodStart
  <2> QED
    BY <1>0, <1>2, <1>4, <2>2, OnlyThread
<1> QED
  BY <1>3, <1>4 DEF GetUserSessionCached


\* A snapshot that was just read agrees with the row.
LEMMA ReadKeeps ==
  ASSUME IInv, NEW t \in Thread, GetUserSessionBySID(t)
  PROVE  IInv'
<1> DEFINE pc == IF Active THEN "write" ELSE "inactive"
           w == [thread[t] EXCEPT !.pc = pc, !.v = row.version]
<1>0. UNCHANGED <<row, life, cache, others, since, published>>
  BY DEF GetUserSessionBySID
<1>1. thread[t] \in Request /\ GoodThread(t) /\ row \in Row /\ life \in Nat
  BY DEF IInv, Shared, SharedType
<1>2. w \in Request /\ w.pc = pc /\ w.v = row.version /\ w.late = thread[t].late
  BY <1>1 DEF Request, Row, Step
<1>3. /\ thread' \in [Thread -> Request] /\ \A u \in Thread \ {t} : thread'[u] = thread[u]
      /\ thread'[t].pc = pc /\ thread'[t].v = row.version /\ thread'[t].late = thread[t].late
  BY <1>2 DEF GetUserSessionBySID, Become, IInv
<1>4. ~(row.version > row.version)
  BY <1>1 DEF Row
<1>5. published => ~Active
  BY DEF IInv, Shared, Active
<1>6. thread[t].late => ~Active
  BY <1>1 DEF GoodThread, Good, GoodStart, Active
<1>7. GoodThread(t)'
  BY <1>0, <1>1, <1>3, <1>4, <1>5, <1>6
     DEF Active, GoodThread, Good, GoodStep, GoodSnapshot, GoodDeadline, GoodStart
<1> QED
  BY <1>0, <1>3, <1>7, OnlyThread

\* Only "read" and "inactive" are steps of a late request.
LEMMA NotLate ==
  ASSUME IInv, NEW t \in Thread, thread[t].pc \notin {"read", "inactive"}
  PROVE  ~thread[t].late
  BY DEF IInv, GoodThread, Good, GoodStart

\* A request that turns to revoking the session.
LEMMA RevokingKeeps ==
  ASSUME IInv, UNCHANGED <<row, life, cache, others, since, published>>,
         NEW t \in Thread, NEW op \in {"revoke", "all"}, Become(t, Revoking(op))
  PROVE  IInv'
<1>0. row.version \in 1..MaxVersion
  BY DEF IInv, Shared, SharedType, Row
<1>1. Revoking(op) \in Request
  BY <1>0, Bounds, Zenon DEF Revoking, Request, Step, Operation
<1>2. Revoking(op).pc = "fence" /\ Revoking(op).late = FALSE
  BY Zenon DEF Revoking
<1>3. /\ thread' \in [Thread -> Request] /\ \A u \in Thread \ {t} : thread'[u] = thread[u]
      /\ thread'[t].pc = "fence" /\ ~thread'[t].late
  BY <1>1, <1>2 DEF Become, IInv
<1>4. GoodThread(t)'
  BY <1>3 DEF GoodThread, Good, GoodStep, GoodSnapshot, GoodDeadline, GoodStart
<1> QED
  BY <1>3, <1>4, OnlyThread

\* The steps that neither write Redis nor the row.
LEMMA LocalStepKeeps ==
  ASSUME IInv, NEW t \in Thread,
         \/ CheckDeadline(t) \/ CheckCompleted(t) \/ Confirm(t) \/ Answer(t)
         \/ CountActiveUserSessions(t) \/ DatabaseFails(t)
         \/ \E op \in {"revoke", "all"} : ReadCandidate(t, op)
  PROVE  IInv'
<1>0. UNCHANGED <<row, life, cache, others, since, published>>
  BY DEF CheckDeadline, CheckCompleted, Confirm, Answer, CountActiveUserSessions, DatabaseFails, ReadCandidate
<1>1. {"confirm", "script", "insert"} \subseteq Step
  BY DEF Step
<1>2. CASE CheckDeadline(t)
  <2>1. At(t, "write") /\ ~thread[t].late
    BY <1>2, NotLate DEF CheckDeadline, At
  <2>2. Return(t) \/ GoTo(t, "confirm") \/ GoTo(t, "script")
    BY <1>2 DEF CheckDeadline
  <2> QED
    BY <1>0, <1>1, <2>1, <2>2, ReturnKeeps, GoToKeeps
<1>3. CASE CheckCompleted(t)
  <2>1. ~thread[t].late
    BY <1>3, NotLate DEF CheckCompleted, At
  <2>2. Return(t) \/ GoTo(t, "confirm") \/ Serve(t)
    BY <1>3 DEF CheckCompleted
  <2> QED
    BY <1>0, <1>1, <2>1, <2>2, ReturnKeeps, GoToKeeps, ServeKeeps
<1>4. CASE Confirm(t)
  <2>1. ~thread[t].late
    BY <1>4, NotLate DEF Confirm, At
  <2>2. Return(t) \/ Serve(t)
    BY <1>4 DEF Confirm
  <2> QED
    BY <1>0, <2>1, <2>2, ReturnKeeps, ServeKeeps
<1>5. CASE Answer(t)
  BY <1>0, <1>5, ReturnKeeps DEF Answer
<1>6. CASE CountActiveUserSessions(t)
  <2>1. ~thread[t].late
    BY <1>6, NotLate DEF CountActiveUserSessions, At
  <2> QED
    BY <1>0, <1>1, <1>6, <2>1, GoToKeeps DEF CountActiveUserSessions
<1>7. CASE DatabaseFails(t)
  BY <1>0, <1>7, ReturnKeeps DEF DatabaseFails
<1>8. CASE \E op \in {"revoke", "all"} : ReadCandidate(t, op)
  BY <1>0, <1>8, RevokingKeeps DEF ReadCandidate
<1> QED
  BY <1>2, <1>3, <1>4, <1>5, <1>6, <1>7, <1>8

-----------------------------------------------------------------------------
(* The entry in Redis                                                      *)

\* A fence or a tombstone is written, and the request moves on to a step that
\* holds no snapshot.
LEMMA DenyKeeps ==
  ASSUME IInv, UNCHANGED <<row, life, others, since>>, NEW t \in Thread,
         NEW status \in {"revoking", "revoked"}, NEW v \in 1..MaxVersion, Put(status, v, DenyTTL),
         published' \in BOOLEAN, published' => row.status = "revoked",
         thread' \in [Thread -> Request], \A u \in Thread \ {t} : thread'[u] = thread[u],
         thread'[t].pc \in {"idle", "commit"}, ~thread'[t].late
  PROVE  IInv'
<1>0. life \in 0..Lifetime /\ DenyTTL \in 1..TTL
  BY SessionAssumption DEF IInv, Shared, SharedType, DenyTTL, Least
<1>1. cache' = [status |-> status, version |-> v, ttl |-> DenyTTL]
  BY <1>0 DEF Put
<1>2. cache' \in Entry /\ cache'.status = status /\ cache'.ttl = DenyTTL
  BY <1>0, <1>1 DEF Entry
<1>3. Shared'
  BY <1>2 DEF IInv, Shared, SharedType, StaleEndsInTime
<1>4. \A left \in 0..TTL : Quiet(left, life, cache')
  BY <1>0, <1>2, DenyIsQuiet DEF DenyTTL
<1>5. ASSUME NEW u \in Thread \ {t} PROVE GoodThread(u)'
  <2>1. GoodThread(u) /\ thread'[u] = thread[u] /\ thread[u].left \in 0..TTL
    BY DEF IInv, Request
  <2>2. GoodDeadline(thread[u], life, cache', published')
    BY <1>4, <2>1 DEF GoodDeadline
  <2> QED
    BY <2>1, <2>2 DEF GoodThread, Good
<1>6. GoodThread(t)'
  BY DEF GoodThread, Good, GoodStep, GoodSnapshot, GoodDeadline, GoodStart
<1> QED
  BY <1>3, <1>5, <1>6 DEF IInv

\* A snapshot is written by a request at "script", which moves on.
LEMMA SnapshotKeeps ==
  ASSUME IInv, UNCHANGED <<row, life, others, since, published>>, NEW t \in Thread, At(t, "script"),
         ~Refuses("active", thread[t].v), Put("active", thread[t].v, SnapshotTTL(thread[t].left)),
         thread' \in [Thread -> Request], \A u \in Thread \ {t} : thread'[u] = thread[u],
         thread'[t].pc \in {"idle", "check", "served"}, ~thread'[t].late
  PROVE  IInv'
<1> DEFINE v == thread[t].v
           left == thread[t].left
<1>0. /\ life \in 0..Lifetime /\ since \in 0..TTL /\ left \in 0..TTL /\ v \in 1..MaxVersion
      /\ GoodThread(t) /\ row.version \in Nat
  BY SessionAssumption DEF IInv, Shared, SharedType, Request, Row
<1>1. SnapshotTTL(left) \in 0..TTL /\ SnapshotTTL(left) <= left /\ SnapshotTTL(left) = Least(left, life)
  BY <1>0, SessionAssumption DEF SnapshotTTL, Least
<1>2. ~Denied
  BY DEF Refuses
<1>3. published => SnapshotTTL(left) = 0
  BY <1>0, <1>1, <1>2 DEF At, GoodThread, Good, GoodDeadline, Quiet, Denied
<1>4. \/ cache' = NoEntry
      \/ SnapshotTTL(left) > 0 /\ cache' = [status |-> "active", version |-> v, ttl |-> SnapshotTTL(left)]
  BY <1>1 DEF Put
<1>5. cache' \in Entry \cup {NoEntry}
  BY <1>0, <1>1, <1>4 DEF Entry
<1>6. published => cache' = NoEntry
  BY <1>1, <1>3, <1>4
<1>7. StaleEndsInTime'
  <2>1. CASE cache' = NoEntry
    BY <2>1 DEF StaleEndsInTime, NoEntry
  <2>2. CASE cache' = [status |-> "active", version |-> v, ttl |-> SnapshotTTL(left)]
    <3>1. row.status = "revoked" \/ row.version > v => left + since <= TTL
      BY <1>0 DEF At, GoodThread, Good, GoodSnapshot
    <3>2. row.status = "revoked" \/ row.version > v => SnapshotTTL(left) + since <= TTL
      BY <1>0, <1>1, <3>1, SessionAssumption
    <3>3. cache'.ttl = SnapshotTTL(left) /\ cache'.version = v
      BY <2>2
    <3> QED
      BY <3>2, <3>3 DEF StaleEndsInTime
  <2> QED
    BY <1>4, <2>1, <2>2
<1>8. Shared'
  BY <1>5, <1>6, <1>7 DEF IInv, Shared, SharedType, NoEntry
<1>9. ASSUME NEW u \in Thread \ {t} PROVE GoodThread(u)'
  <2>1. GoodThread(u) /\ thread'[u] = thread[u]
    BY DEF IInv
  <2>2. GoodDeadline(thread[u], life, cache', published)
    BY <1>2, <2>1 DEF GoodThread, Good, GoodDeadline, Quiet, Denied
  <2> QED
    BY <2>1, <2>2 DEF GoodThread, Good
<1>10. GoodThread(t)'
  BY DEF GoodThread, Good, GoodStep, GoodSnapshot, GoodDeadline, GoodStart
<1> QED
  BY <1>8, <1>9, <1>10 DEF IInv

\* Return and GoTo as changes of the threads alone.
LEMMA ReturnMoves ==
  ASSUME IInv, NEW t \in Thread, Return(t)
  PROVE  /\ thread' \in [Thread -> Request] /\ \A u \in Thread \ {t} : thread'[u] = thread[u]
         /\ thread'[t].pc = "idle" /\ ~thread'[t].late
<1>1. Idle \in Request /\ Idle.pc = "idle" /\ Idle.late = FALSE
  BY IdleGood DEF Idle
<1> QED
  BY <1>1 DEF Return, Become, IInv

\* What a request is after GoTo.
LEMMA GoToMoves ==
  ASSUME IInv, NEW t \in Thread, NEW pc \in Step, GoTo(t, pc)
  PROVE  /\ thread' \in [Thread -> Request] /\ \A u \in Thread \ {t} : thread'[u] = thread[u]
         /\ thread'[t].pc = pc /\ thread'[t].late = thread[t].late
<1>1. thread[t] \in Request
  BY DEF IInv
<1>2. /\ [thread[t] EXCEPT !.pc = pc] \in Request
      /\ [thread[t] EXCEPT !.pc = pc].pc = pc
      /\ [thread[t] EXCEPT !.pc = pc].late = thread[t].late
  BY <1>1 DEF Request
<1> QED
  BY <1>2 DEF GoTo, Become, IInv

\* What a request is after Serve.
LEMMA ServeMoves ==
  ASSUME IInv, NEW t \in Thread, Serve(t), ~thread[t].late
  PROVE  /\ thread' \in [Thread -> Request] /\ \A u \in Thread \ {t} : thread'[u] = thread[u]
         /\ thread'[t].pc = "served" /\ ~thread'[t].late
<1> DEFINE w == [thread[t] EXCEPT !.pc = "served", !.v = 1, !.left = 0]
<1>1. thread[t] \in Request
  BY DEF IInv
<1>2. w \in Request /\ w.pc = "served" /\ ~w.late
  BY <1>1, Bounds, Zenon DEF Request, Step
<1> QED
  BY <1>2 DEF Serve, Become, IInv

\* The steps that run a script of Redis.
LEMMA ScriptStepKeeps ==
  ASSUME IInv, NEW t \in Thread,
         CacheInactive(t) \/ WriteSnapshot(t) \/ WriteFence(t) \/ WriteTombstone(t)
  PROVE  IInv'
<1>0. thread[t].v \in 1..MaxVersion /\ GoodThread(t) /\ published \in BOOLEAN
      /\ (published => row.status = "revoked")
  BY DEF IInv, Request, Shared, SharedType
<1>1. CASE CacheInactive(t)
  <2>1. UNCHANGED <<row, life, others, since>> /\ Return(t)
    BY <1>1 DEF CacheInactive
  <2>2. \/ UNCHANGED cache /\ UNCHANGED published
        \/ /\ Put("revoked", thread[t].v, DenyTTL)
           /\ published' \in BOOLEAN /\ (published' => row.status = "revoked")
    BY <1>0, <1>1 DEF CacheInactive, PutFails
  <2> QED
    BY <1>0, <2>1, <2>2, ReturnKeeps, ReturnMoves, DenyKeeps
<1>2. CASE WriteSnapshot(t)
  <2>1. UNCHANGED <<row, life, others, since, published>> /\ At(t, "script") /\ ~thread[t].late
    BY <1>2, NotLate DEF WriteSnapshot, At
  <2>2. "check" \in Step
    BY DEF Step
  <2>3. Return(t) \/ GoTo(t, "check") \/ Serve(t)
    BY <1>2 DEF WriteSnapshot
  <2>4. \/ UNCHANGED cache
        \/ ~Refuses("active", thread[t].v) /\ Put("active", thread[t].v, SnapshotTTL(thread[t].left))
    BY <1>2 DEF WriteSnapshot, PutFails
  <2>5. CASE UNCHANGED cache
    BY <2>1, <2>2, <2>3, <2>5, ReturnKeeps, GoToKeeps, ServeKeeps
  <2>6. CASE ~Refuses("active", thread[t].v) /\ Put("active", thread[t].v, SnapshotTTL(thread[t].left))
    BY <2>1, <2>2, <2>3, <2>6, ReturnMoves, GoToMoves, ServeMoves, SnapshotKeeps
  <2> QED
    BY <2>4, <2>5, <2>6
<1>3. CASE WriteFence(t)
  <2>1. UNCHANGED <<row, life, others, since, published>> /\ ~thread[t].late
    BY <1>3, NotLate DEF WriteFence, At
  <2>2. "commit" \in Step
    BY DEF Step
  <2>3. \/ UNCHANGED cache /\ Return(t)
        \/ Put("revoking", thread[t].v, DenyTTL) /\ (Return(t) \/ GoTo(t, "commit"))
    BY <1>3 DEF WriteFence, PutFails
  <2>4. CASE UNCHANGED cache /\ Return(t)
    BY <2>1, <2>4, ReturnKeeps
  <2>5. CASE Put("revoking", thread[t].v, DenyTTL) /\ (Return(t) \/ GoTo(t, "commit"))
    BY <1>0, <2>1, <2>2, <2>5, ReturnMoves, GoToMoves, DenyKeeps
  <2> QED
    BY <2>3, <2>4, <2>5
<1>4. CASE WriteTombstone(t)
  <2>1. UNCHANGED <<row, life, others, since>> /\ Return(t) /\ row.status = "revoked"
    BY <1>0, <1>4 DEF WriteTombstone, At, GoodThread, Good, GoodStep
  <2>2. \/ UNCHANGED cache /\ UNCHANGED published
        \/ Put("revoked", thread[t].v, DenyTTL) /\ published' \in BOOLEAN
    BY <1>0, <1>4 DEF WriteTombstone, PutFails
  <2> QED
    BY <1>0, <2>1, <2>2, ReturnKeeps, ReturnMoves, DenyKeeps
<1> QED
  BY <1>1, <1>2, <1>3, <1>4

-----------------------------------------------------------------------------
(* The row                                                                 *)

\* The row is revoked or advanced: every snapshot and the entry in Redis have
\* at most TTL left.
LEMMA ChangeKeeps ==
  ASSUME IInv, UNCHANGED <<life, cache, published>>, Active, NEW t \in Thread,
         row' \in Row, row'.status \in {"active", "revoked"}, others' \in 0..MaxOthers, since' = 0,
         thread' \in [Thread -> Request], \A u \in Thread \ {t} : thread'[u] = thread[u],
         GoodStep(thread'[t], row'), ~thread'[t].late
  PROVE  IInv'
<1>1. ~published /\ row.status = "active" /\ life > 0 /\ life \in Nat
  BY DEF IInv, Shared, SharedType, Active
<1>2. cache \in Entry => cache.ttl <= TTL /\ cache.ttl \in Nat
  BY SessionAssumption DEF Entry
<1>3. cache.status = "active" => cache \in Entry
  BY DEF IInv, Shared, SharedType, NoEntry
<1>4. StaleEndsInTime'
  BY <1>2, <1>3, SessionAssumption DEF StaleEndsInTime
<1>5. since' \in 0..TTL
  BY SessionAssumption
<1>6. Shared'
  BY <1>1, <1>4, <1>5 DEF IInv, Shared, SharedType
<1>7. ASSUME NEW u \in Thread PROVE GoodSnapshot(thread'[u], row', since')
  <2>1. thread'[u].left \in 0..TTL
    BY DEF Request
  <2>2. thread'[u].left + since' <= TTL
    BY <2>1, SessionAssumption
  <2> QED
    BY <2>2 DEF GoodSnapshot
<1>8. ASSUME NEW u \in Thread \ {t} PROVE GoodThread(u)'
  <2>1. GoodThread(u) /\ thread'[u] = thread[u]
    BY DEF IInv
  <2>2. ~thread[u].late /\ thread[u].pc # "tombstone"
    BY <1>1, <2>1 DEF GoodThread, Good, GoodStart, GoodStep
  <2> QED
    BY <1>1, <1>7, <2>1, <2>2 DEF GoodThread, Good, GoodStep, GoodDeadline, GoodStart
<1>9. GoodThread(t)'
  BY <1>1, <1>7 DEF GoodThread, Good, GoodDeadline, GoodStart
<1> QED
  BY <1>6, <1>8, <1>9 DEF IInv

\* The revocation of the row.
LEMMA CommitKeeps ==
  ASSUME IInv, NEW t \in Thread, CommitRevocation(t)
  PROVE  IInv'
<1>1. CASE ~Active
  BY <1>1, ReturnKeeps DEF CommitRevocation
<1>2. CASE Active
  <2> DEFINE v == IF thread[t].op = "all" THEN row.version ELSE thread[t].v
             w == [thread[t] EXCEPT !.pc = "tombstone", !.v = v]
  <2>1. /\ UNCHANGED <<life, cache, published>> /\ row' = [row EXCEPT !.status = "revoked"] /\ since' = 0
        /\ Become(t, w)
        /\ others' \in {0, others} /\ At(t, "commit")
    BY <1>2 DEF CommitRevocation
  <2>2. thread[t] \in Request /\ row \in Row /\ others' \in 0..MaxOthers /\ ~thread[t].late
    BY <2>1, Bounds, NotLate DEF IInv, Shared, SharedType, At
  <2>3. row' \in Row /\ row'.status = "revoked"
    BY <2>1, <2>2 DEF Row
  <2>4. v \in 1..MaxVersion
    BY <2>2 DEF Request, Row
  <2> HIDE DEF v
  <2>5. w \in Request /\ w.pc = "tombstone" /\ w.late = thread[t].late
    BY <2>2, <2>4, Zenon DEF Request, Step
  <2>6. /\ thread' \in [Thread -> Request] /\ \A u \in Thread \ {t} : thread'[u] = thread[u]
        /\ thread'[t].pc = "tombstone" /\ ~thread'[t].late
    BY <2>1, <2>2, <2>5 DEF Become, IInv
  <2>7. GoodStep(thread'[t], row')
    BY <2>3, <2>6 DEF GoodStep
  <2> QED
    BY <1>2, <2>1, <2>2, <2>3, <2>6, <2>7, ChangeKeeps
<1> QED
  BY <1>1, <1>2

\* The advance of the row.
LEMMA AdvanceKeeps ==
  ASSUME IInv, NEW t \in Thread, AdvanceUserSessionAuthVersion(t)
  PROVE  IInv'
<1>1. CASE ~(Active /\ row.version = thread[t].v)
  BY <1>1, ReturnKeeps DEF AdvanceUserSessionAuthVersion
<1>2. CASE Active /\ row.version = thread[t].v
  <2> DEFINE w == [thread[t] EXCEPT !.pc = "write", !.v = thread[t].v + 1]
  <2>1. /\ UNCHANGED <<life, cache, others, published>> /\ row' = [row EXCEPT !.version = row.version + 1]
        /\ since' = 0 /\ Become(t, w) /\ At(t, "advance")
    BY <1>2 DEF AdvanceUserSessionAuthVersion
  <2>2. /\ thread[t] \in Request /\ row \in Row /\ others' \in 0..MaxOthers /\ ~thread[t].late
        /\ thread[t].v < MaxVersion /\ row.status = "active"
    BY <1>2, <2>1, NotLate DEF IInv, Shared, SharedType, At, GoodThread, Good, GoodStep, Active
  <2>3. thread[t].v + 1 \in 1..MaxVersion /\ row.version + 1 \in 1..MaxVersion
    BY <1>2, <2>2, SessionAssumption DEF Request, Row
  <2>4. row' \in Row /\ row'.status = "active"
    BY <2>1, <2>2, <2>3 DEF Row
  <2>5. w \in Request /\ w.pc = "write" /\ w.late = thread[t].late
    BY <2>2, <2>3, Zenon DEF Request, Step
  <2>6. /\ thread' \in [Thread -> Request] /\ \A u \in Thread \ {t} : thread'[u] = thread[u]
        /\ thread'[t].pc = "write" /\ ~thread'[t].late
    BY <2>1, <2>2, <2>5 DEF Become, IInv
  <2>7. GoodStep(thread'[t], row')
    BY <2>6 DEF GoodStep
  <2> QED
    BY <1>2, <2>1, <2>2, <2>4, <2>6, <2>7, ChangeKeeps
<1> QED
  BY <1>1, <1>2

\* A request that begins to advance the session.
LEMMA StartAdvanceKeeps ==
  ASSUME IInv, NEW t \in Thread, StartAdvance(t)
  PROVE  IInv'
<1> DEFINE w == [pc |-> "advance", op |-> "advance", v |-> row.version, g |-> 0, left |-> TTL, late |-> FALSE]
<1>1. UNCHANGED <<row, life, cache, others, since, published>> /\ row.version < MaxVersion /\ Become(t, w)
  BY DEF StartAdvance
<1>2. row.version \in 1..MaxVersion
  BY DEF IInv, Shared, SharedType, Row
<1>3. w \in Request
  BY <1>2, Bounds, Zenon DEF Request, Step, Operation
<1>4. /\ thread' \in [Thread -> Request] /\ \A u \in Thread \ {t} : thread'[u] = thread[u]
      /\ thread'[t].pc = "advance" /\ thread'[t].v = row.version /\ ~thread'[t].late
  BY <1>1, <1>3 DEF Become, IInv
<1>5. GoodThread(t)'
  BY <1>1, <1>4 DEF GoodThread, Good, GoodStep, GoodSnapshot, GoodDeadline, GoodStart
<1> QED
  BY <1>1, <1>4, <1>5, OnlyThread

\* The check of the user before a rotation.
LEMMA CheckUserKeeps ==
  ASSUME IInv, NEW t \in Thread, CheckUser(t)
  PROVE  IInv'
<1>1. UNCHANGED <<row, life, cache, others, since, published>> /\ ~thread[t].late
  BY NotLate DEF CheckUser, At
<1>2. CASE Become(t, [thread[t] EXCEPT !.pc = "rotate", !.left = TTL])
  <2> DEFINE w == [thread[t] EXCEPT !.pc = "rotate", !.left = TTL]
  <2>1. thread[t] \in Request
    BY DEF IInv
  <2>2. w \in Request /\ w.pc = "rotate" /\ w.late = thread[t].late
    BY <2>1, Bounds, Zenon DEF Request, Step
  <2>3. /\ thread' \in [Thread -> Request] /\ \A u \in Thread \ {t} : thread'[u] = thread[u]
        /\ thread'[t].pc = "rotate" /\ ~thread'[t].late
    BY <1>1, <1>2, <2>2 DEF Become, IInv
  <2>4. GoodThread(t)'
    BY <2>3 DEF GoodThread, Good, GoodStep, GoodSnapshot, GoodDeadline, GoodStart
  <2> QED
    BY <1>1, <2>3, <2>4, OnlyThread
<1>3. Become(t, [thread[t] EXCEPT !.pc = "rotate", !.left = TTL]) \/ Become(t, Revoking("revoke")) \/ Return(t)
  BY DEF CheckUser
<1> QED
  BY <1>1, <1>2, <1>3, RevokingKeeps, ReturnKeeps

\* The reading of the row before a rotation.
LEMMA ReadForRotationKeeps ==
  ASSUME IInv, NEW t \in Thread, ReadForRotation(t)
  PROVE  IInv'
<1>0. /\ UNCHANGED <<row, life, cache, others, since, published>> /\ ~thread[t].late
      /\ thread[t] \in Request /\ row \in Row
  BY NotLate DEF ReadForRotation, At, IInv, Shared, SharedType
<1>1. CASE /\ thread[t].g = row.gen /\ row.gen < MaxGen /\ Active
           /\ Become(t, [thread[t] EXCEPT !.pc = "swap", !.v = row.version])
  <2> DEFINE w == [thread[t] EXCEPT !.pc = "swap", !.v = row.version]
  <2>1. row.version \in 1..MaxVersion
    BY <1>0 DEF Row
  <2>2. /\ w \in Request /\ w.pc = "swap" /\ w.late = thread[t].late
        /\ w.v = row.version /\ w.g = thread[t].g
    BY <1>0, <2>1, Zenon DEF Request, Step
  <2>3. /\ thread' \in [Thread -> Request] /\ \A u \in Thread \ {t} : thread'[u] = thread[u]
        /\ thread'[t].pc = "swap" /\ ~thread'[t].late
        /\ thread'[t].v = row.version /\ thread'[t].g = thread[t].g
    BY <1>0, <1>1, <2>2 DEF Become, IInv
  <2>4. ~(row.version > row.version) /\ row.status # "revoked"
    BY <1>1, <2>1 DEF Active
  <2>5. GoodThread(t)'
    BY <1>0, <1>1, <2>3, <2>4 DEF GoodThread, Good, GoodStep, GoodSnapshot, GoodDeadline, GoodStart
  <2> QED
    BY <1>0, <2>3, <2>5, OnlyThread
<1>2. CASE Become(t, [thread[t] EXCEPT !.pc = "served", !.op = "rotated", !.v = 1, !.g = 0, !.left = 0])
  <2> DEFINE w == [thread[t] EXCEPT !.pc = "served", !.op = "rotated", !.v = 1, !.g = 0, !.left = 0]
  <2>1. w \in Request /\ w.pc = "served" /\ w.late = thread[t].late
    BY <1>0, Bounds, Zenon DEF Request, Step, Operation
  <2>2. /\ thread' \in [Thread -> Request] /\ \A u \in Thread \ {t} : thread'[u] = thread[u]
        /\ thread'[t].pc = "served" /\ ~thread'[t].late
    BY <1>0, <1>2, <2>1 DEF Become, IInv
  <2>3. GoodThread(t)'
    BY <2>2 DEF GoodThread, Good, GoodStep, GoodSnapshot, GoodDeadline, GoodStart
  <2> QED
    BY <1>0, <2>2, <2>3, OnlyThread
<1>3. CASE Return(t) \/ Become(t, Revoking("revoke"))
  BY <1>0, <1>3, ReturnKeeps, RevokingKeeps
<1> QED
  BY <1>1, <1>2, <1>3 DEF ReadForRotation

\* Neither the chain of secrets nor the other sessions matter to the rest.
LEMMA RowDetailKeeps ==
  ASSUME IInv, UNCHANGED <<life, cache, since, published>>, NEW t \in Thread,
         row' \in Row, row'.status = row.status, row'.version = row.version, others' \in 0..MaxOthers,
         thread' \in [Thread -> Request], \A u \in Thread \ {t} : thread'[u] = thread[u],
         GoodThread(t)'
  PROVE  IInv'
<1>1. Shared'
  BY DEF IInv, Shared, SharedType, StaleEndsInTime
<1>2. \A u \in Thread \ {t} : GoodThread(u)'
  BY DEF IInv, GoodThread, Good, GoodStep, GoodSnapshot, GoodDeadline, GoodStart
<1> QED
  BY <1>1, <1>2 DEF IInv

\* The rotation of the refresh secret.
LEMMA RotateKeeps ==
  ASSUME IInv, NEW t \in Thread, RotateUserSessionRefresh(t)
  PROVE  IInv'
<1>0. /\ UNCHANGED <<life, cache, others, since, published>> /\ ~thread[t].late /\ thread[t].pc = "swap"
      /\ thread[t] \in Request /\ row \in Row /\ others' \in 0..MaxOthers /\ GoodThread(t)
  BY NotLate DEF RotateUserSessionRefresh, At, IInv, Shared, SharedType
<1>1. CASE Active /\ row.gen = thread[t].g
  <2> DEFINE w == [thread[t] EXCEPT !.pc = "write", !.op = "rotated", !.g = 0]
  <2>1. row' = [row EXCEPT !.gen = row.gen + 1, !.grace = TRUE] /\ Become(t, w)
    BY <1>1 DEF RotateUserSessionRefresh
  <2>2. row.gen + 1 \in 0..MaxGen
    BY <1>0, <1>1, SessionAssumption DEF GoodThread, Good, GoodStep, Request
  <2>3. row' \in Row /\ row'.status = row.status /\ row'.version = row.version
    BY <1>0, <2>1, <2>2, Zenon DEF Row
  <2>4. w \in Request /\ w.pc = "write" /\ w.late = thread[t].late /\ w.v = thread[t].v /\ w.left = thread[t].left
    BY <1>0, Bounds, Zenon DEF Request, Step, Operation
  <2>5. /\ thread' \in [Thread -> Request] /\ \A u \in Thread \ {t} : thread'[u] = thread[u]
        /\ thread'[t].pc = "write" /\ ~thread'[t].late
        /\ thread'[t].v = thread[t].v /\ thread'[t].left = thread[t].left
    BY <1>0, <2>1, <2>4 DEF Become, IInv
  <2>6. ~published
    BY <1>1 DEF IInv, Shared, Active
  <2>7. GoodThread(t)'
    BY <1>0, <2>3, <2>5, <2>6 DEF GoodThread, Good, GoodStep, GoodSnapshot, GoodDeadline, GoodStart
  <2> QED
    BY <1>0, <2>3, <2>5, <2>7, RowDetailKeeps
<1>2. CASE ~(Active /\ row.gen = thread[t].g)
  <2> DEFINE w == [thread[t] EXCEPT !.pc = "rotate", !.left = TTL]
  <2>1. UNCHANGED row /\ Become(t, w)
    BY <1>2 DEF RotateUserSessionRefresh
  <2>2. w \in Request /\ w.pc = "rotate" /\ w.late = thread[t].late
    BY <1>0, Bounds, Zenon DEF Request, Step
  <2>3. /\ thread' \in [Thread -> Request] /\ \A u \in Thread \ {t} : thread'[u] = thread[u]
        /\ thread'[t].pc = "rotate" /\ ~thread'[t].late
    BY <1>0, <2>1, <2>2 DEF Become, IInv
  <2>4. GoodThread(t)'
    BY <2>3 DEF GoodThread, Good, GoodStep, GoodSnapshot, GoodDeadline, GoodStart
  <2> QED
    BY <1>0, <2>1, <2>3, <2>4, OnlyThread
<1> QED
  BY <1>1, <1>2

\* The insertion of a session.
LEMMA CreateKeeps ==
  ASSUME IInv, NEW t \in Thread, CreateUserSession(t)
  PROVE  IInv'
<1>0. UNCHANGED <<life, cache, since, published>> /\ row \in Row /\ others \in 0..MaxOthers
  BY DEF CreateUserSession, IInv, Shared, SharedType
<1>1. CASE others < MaxOthers /\ others' = others + 1 /\ Return(t) /\ UNCHANGED row
  <2>1. others' \in 0..MaxOthers
    BY <1>0, <1>1, SessionAssumption
  <2>2. GoodThread(t)'
    BY <1>1, ReturnMoves DEF GoodThread, Good, GoodStep, GoodSnapshot, GoodDeadline, GoodStart
  <2> QED
    BY <1>0, <1>1, <2>1, <2>2, ReturnMoves, RowDetailKeeps
<1>2. ASSUME NEW left \in 0..TTL, row.status = "none", row' = [row EXCEPT !.status = "active"], UNCHANGED others,
             Become(t, [Idle EXCEPT !.pc = "write", !.op = "login", !.left = left])
      PROVE  IInv'
  <2> DEFINE w == [Idle EXCEPT !.pc = "write", !.op = "login", !.left = left]
  <2>1. Idle \in Request /\ Idle.v = 1 /\ Idle.late = FALSE
    BY IdleGood DEF Idle
  <2>2. w \in Request /\ w.pc = "write" /\ w.v = Idle.v /\ w.late = Idle.late
    BY <2>1, Zenon DEF Request, Step, Operation
  <2>3. /\ thread' \in [Thread -> Request] /\ \A u \in Thread \ {t} : thread'[u] = thread[u]
        /\ thread'[t].pc = "write" /\ thread'[t].v = 1 /\ ~thread'[t].late
    BY <1>2, <2>1, <2>2 DEF Become, IInv
  <2>4. row' \in Row /\ row'.status = "active" /\ row'.version = row.version /\ row.version = 1 /\ ~published
    BY <1>0, <1>2 DEF Row, IInv, Shared
  <2>5. Shared'
    BY <1>0, <1>2, <2>4 DEF IInv, Shared, SharedType, StaleEndsInTime
  <2>6. ~(1 > 1)
    OBVIOUS
  <2>7. GoodThread(t)'
    BY <1>0, <2>3, <2>4, <2>6 DEF GoodThread, Good, GoodStep, GoodSnapshot, GoodDeadline, GoodStart
  <2>8. ASSUME NEW u \in Thread \ {t} PROVE GoodThread(u)'
    <3>1. GoodThread(u) /\ thread'[u] = thread[u]
      BY <2>3 DEF IInv
    <3> QED
      BY <1>0, <1>2, <2>4, <3>1 DEF GoodThread, Good, GoodStep, GoodSnapshot, GoodDeadline, GoodStart
  <2> QED
    BY <2>3, <2>5, <2>7, <2>8 DEF IInv
<1> QED
  BY <1>1, <1>2 DEF CreateUserSession

\* Time takes as much from the deadlines as it adds to the age of the change.
LEMMA TickKeeps ==
  ASSUME IInv, Tick
  PROVE  IInv'
<1>0. /\ row \in Row /\ life \in 0..Lifetime /\ cache \in Entry \cup {NoEntry} /\ since \in 0..TTL
      /\ UNCHANGED <<row, others, published>> /\ life' = Before(life)
      /\ since' = (IF since < TTL THEN since + 1 ELSE TTL)
      /\ cache' = IF cache.ttl > 1 THEN [cache EXCEPT !.ttl = @ - 1] ELSE NoEntry
  BY DEF IInv, Shared, SharedType, Tick
<1>1. life' \in 0..Lifetime /\ since' \in 0..TTL /\ (life = 0 => life' = 0)
  BY <1>0, SessionAssumption DEF Before
<1>2. \/ cache' = NoEntry
      \/ /\ cache \in Entry /\ cache' \in Entry /\ cache'.status = cache.status
         /\ cache'.version = cache.version /\ cache'.ttl = cache.ttl - 1
  BY <1>0, SessionAssumption DEF Entry, NoEntry
<1>3. StaleEndsInTime'
  <2>1. CASE cache' = NoEntry
    BY <2>1 DEF StaleEndsInTime, NoEntry
  <2>2. CASE cache \in Entry /\ cache'.status = cache.status /\ cache'.version = cache.version
             /\ cache'.ttl = cache.ttl - 1
    <3>1. cache.ttl \in 1..TTL
      BY <2>2 DEF Entry
    <3>2. cache.ttl + since <= TTL => cache.ttl - 1 + since' <= TTL
      BY <1>0, <3>1, SessionAssumption
    <3> QED
      BY <1>0, <2>2, <3>2 DEF StaleEndsInTime, IInv, Shared
  <2> QED
    BY <1>2, <2>1, <2>2
<1>4. Shared'
  BY <1>0, <1>1, <1>2, <1>3 DEF IInv, Shared, SharedType, NoEntry
<1>5. ASSUME NEW t \in Thread
      PROVE  /\ thread'[t] \in Request /\ thread'[t].pc = thread[t].pc /\ thread'[t].v = thread[t].v
             /\ thread'[t].g = thread[t].g /\ thread'[t].late = thread[t].late
             /\ thread'[t].left = Before(thread[t].left) /\ thread[t].left \in 0..TTL
  <2>1. thread[t] \in Request /\ thread[t].left \in 0..TTL
    BY DEF IInv, Request
  <2>2. Before(thread[t].left) \in 0..TTL
    BY <2>1, SessionAssumption DEF Before
  <2>3. thread'[t] = [thread[t] EXCEPT !.left = Before(thread[t].left)]
    BY DEF Tick
  <2> QED
    BY <2>1, <2>2, <2>3 DEF Request
<1>6. thread' \in [Thread -> Request]
  BY <1>5 DEF Tick
<1>7. ASSUME NEW t \in Thread PROVE GoodThread(t)'
  <2>1. GoodThread(t)
    BY DEF IInv
  <2>2. GoodSnapshot(thread'[t], row', since')
    <3>1. thread[t].left + since <= TTL => Before(thread[t].left) + since' <= TTL
      BY <1>0, <1>5, SessionAssumption DEF Before
    <3> QED
      BY <1>0, <1>5, <2>1, <3>1 DEF GoodThread, Good, GoodSnapshot
  <2>3. GoodDeadline(thread'[t], life', cache', published')
    <3>1. Quiet(thread[t].left, life, cache) => Quiet(Before(thread[t].left), Before(life), cache')
      BY <1>0, <1>5, TickIsQuiet
    <3> QED
      BY <1>0, <1>5, <2>1, <3>1 DEF GoodThread, Good, GoodDeadline
  <2>4. GoodStep(thread'[t], row') /\ GoodStart(thread'[t], row', life')
    BY <1>0, <1>1, <1>5, <2>1 DEF GoodThread, Good, GoodStep, GoodStart
  <2> QED
    BY <2>2, <2>3, <2>4 DEF GoodThread, Good
<1> QED
  BY <1>4, <1>6, <1>7 DEF IInv

-----------------------------------------------------------------------------
(* The invariant                                                           *)

\* Every step preserves the invariant.
LEMMA IInvNext == IInv /\ [Next]_vars => IInv'
<1> SUFFICES ASSUME IInv, [Next]_vars PROVE IInv'
  OBVIOUS
<1>1. ASSUME NEW t \in Thread, NEW op \in {"validate", "refresh"}, NEW g \in 0..MaxGen,
             GetUserSessionCached(t, op, g)
      PROVE  IInv'
  BY <1>1, GetCachedKeeps
<1>2. ASSUME NEW t \in Thread,
             \/ GetUserSessionBySID(t) \/ CheckUser(t) \/ ReadForRotation(t) \/ RotateUserSessionRefresh(t)
             \/ CommitRevocation(t) \/ CreateUserSession(t) \/ StartAdvance(t)
             \/ AdvanceUserSessionAuthVersion(t)
      PROVE  IInv'
  BY <1>2, ReadKeeps, CheckUserKeeps, ReadForRotationKeeps, RotateKeeps, CommitKeeps, CreateKeeps,
     StartAdvanceKeeps, AdvanceKeeps
<1>3. ASSUME NEW t \in Thread,
             \/ CheckDeadline(t) \/ CheckCompleted(t) \/ Confirm(t) \/ Answer(t)
             \/ CountActiveUserSessions(t) \/ DatabaseFails(t)
             \/ \E op \in {"revoke", "all"} : ReadCandidate(t, op)
      PROVE  IInv'
  BY <1>3, LocalStepKeeps
<1>4. ASSUME NEW t \in Thread, CacheInactive(t) \/ WriteSnapshot(t) \/ WriteFence(t) \/ WriteTombstone(t)
      PROVE  IInv'
  BY <1>4, ScriptStepKeeps
<1>5. ASSUME UNCHANGED <<life, cache, thread, since, published>>, row' \in Row, row'.status = row.status,
             row'.version = row.version, others' \in 0..MaxOthers
      PROVE  IInv'
  BY <1>5 DEF IInv, Shared, SharedType, StaleEndsInTime,
              GoodThread, Good, GoodStep, GoodSnapshot, GoodDeadline, GoodStart
<1>6. row \in Row /\ others \in 0..MaxOthers
  BY DEF IInv, Shared, SharedType
<1>7. CASE OtherEnds
  <2>1. others' \in 0..MaxOthers
    BY <1>6, <1>7, SessionAssumption DEF OtherEnds
  <2> QED
    BY <1>5, <1>6, <1>7, <2>1 DEF OtherEnds
<1>8. CASE GraceEnds
  <2>1. row' \in Row /\ row'.status = row.status /\ row'.version = row.version
    BY <1>6, <1>8 DEF GraceEnds, Row
  <2> QED
    BY <1>5, <1>6, <1>8, <2>1 DEF GraceEnds
<1>9. CASE Tick
  BY <1>9, TickKeeps
<1>10. CASE UNCHANGED vars
  BY <1>5, <1>6, <1>10 DEF vars
<1> QED
  BY <1>1, <1>2, <1>3, <1>4, <1>7, <1>8, <1>9, <1>10 DEF Next

\* The invariant holds of every reachable state.
LEMMA IInvHolds == Spec => []IInv
  BY IInvInit, IInvNext, PTL DEF Spec

-----------------------------------------------------------------------------
(* Theorems                                                                *)

\* The row, the entry in Redis and the requests keep their types.
THEOREM TypeCorrect == Spec => []TypeOK
<1>1. IInv => TypeOK
  BY DEF IInv, Shared, SharedType, TypeOK, Row, Entry, Request
<1> QED
  BY <1>1, IInvHolds, PTL

\* An entry that disagrees with the row is gone within TTL of the change.
THEOREM StaleEndsInTimeHolds == Spec => []StaleEndsInTime
<1>1. IInv => StaleEndsInTime
  BY DEF IInv, Shared
<1> QED
  BY <1>1, IInvHolds, PTL

\* Once a tombstone was written, the session is never active in Redis again.
THEOREM NotReactivatedHolds == Spec => []NotReactivated
<1>1. IInv => NotReactivated
  BY DEF IInv, Shared, NotReactivated
<1> QED
  BY <1>1, IInvHolds, PTL

\* No request that begins after the session is over is served.
THEOREM NotServedLateHolds == Spec => []NotServedLate
<1>1. IInv => NotServedLate
  BY DEF IInv, GoodThread, Good, GoodStart, NotServedLate, At
<1> QED
  BY <1>1, IInvHolds, PTL

\* No refresh, however delayed, takes the chain of secrets back.
THEOREM NewestSecretStaysHolds == Spec => NewestSecretStays
<1>1. IInv /\ [Next]_vars => [row'.gen >= row.gen]_row
  <2> SUFFICES ASSUME IInv, Next, row' # row PROVE row'.gen >= row.gen
    BY DEF vars
  <2>1. row \in Row /\ row.gen \in Nat
    BY SessionAssumption DEF IInv, Shared, SharedType, Row
  <2>2. ASSUME NEW status PROVE [row EXCEPT !.status = status].gen = row.gen
    BY <2>1 DEF Row
  <2>3. ASSUME NEW version PROVE [row EXCEPT !.version = version].gen = row.gen
    BY <2>1 DEF Row
  <2>4. [row EXCEPT !.grace = FALSE].gen = row.gen
    BY <2>1 DEF Row
  <2>5. [row EXCEPT !.gen = row.gen + 1, !.grace = TRUE].gen = row.gen + 1
    BY <2>1, Zenon DEF Row
  <2>6. ASSUME NEW t \in Thread, RotateUserSessionRefresh(t) PROVE row'.gen >= row.gen
    <3>1. row' = [row EXCEPT !.gen = row.gen + 1, !.grace = TRUE]
      BY <2>6 DEF RotateUserSessionRefresh
    <3> QED
      BY <3>1, <2>5, <2>1
  <2>7. ASSUME NEW t \in Thread, CommitRevocation(t) PROVE row'.gen >= row.gen
    <3>1. row' = [row EXCEPT !.status = "revoked"]
      BY <2>7 DEF CommitRevocation
    <3> QED
      BY <3>1, <2>2, <2>1
  <2>8. ASSUME NEW t \in Thread, CreateUserSession(t) PROVE row'.gen >= row.gen
    <3>1. row' = [row EXCEPT !.status = "active"]
      BY <2>8 DEF CreateUserSession
    <3> QED
      BY <3>1, <2>2, <2>1
  <2>9. ASSUME NEW t \in Thread, AdvanceUserSessionAuthVersion(t) PROVE row'.gen >= row.gen
    <3>1. row' = [row EXCEPT !.version = row.version + 1]
      BY <2>9 DEF AdvanceUserSessionAuthVersion
    <3> QED
      BY <3>1, <2>3, <2>1
  <2>10. ASSUME GraceEnds PROVE row'.gen >= row.gen
    <3>1. row' = [row EXCEPT !.grace = FALSE]
      BY <2>10 DEF GraceEnds
    <3> QED
      BY <3>1, <2>4, <2>1
  <2>11. ~OtherEnds /\ ~Tick
    BY DEF OtherEnds, Tick
  <2>12. ASSUME NEW t \in Thread
         PROVE  /\ \A op, g : ~GetUserSessionCached(t, op, g)
                /\ \A op : ~ReadCandidate(t, op)
                /\ ~GetUserSessionBySID(t) /\ ~CacheInactive(t) /\ ~CheckDeadline(t)
                /\ ~WriteSnapshot(t) /\ ~CheckCompleted(t) /\ ~Confirm(t) /\ ~Answer(t)
                /\ ~CheckUser(t) /\ ~ReadForRotation(t) /\ ~WriteFence(t) /\ ~WriteTombstone(t)
                /\ ~CountActiveUserSessions(t) /\ ~StartAdvance(t) /\ ~DatabaseFails(t)
    <3>1. \A op, g : ~GetUserSessionCached(t, op, g)
      BY DEF GetUserSessionCached
    <3>2. \A op : ~ReadCandidate(t, op)
      BY DEF ReadCandidate
    <3>3. ~GetUserSessionBySID(t) /\ ~CacheInactive(t) /\ ~CheckDeadline(t)
      BY DEF GetUserSessionBySID, CacheInactive, CheckDeadline
    <3>4. ~WriteSnapshot(t) /\ ~CheckCompleted(t) /\ ~Confirm(t) /\ ~Answer(t)
      BY DEF WriteSnapshot, CheckCompleted, Confirm, Answer
    <3>5. ~CheckUser(t) /\ ~ReadForRotation(t) /\ ~WriteFence(t) /\ ~WriteTombstone(t)
      BY DEF CheckUser, ReadForRotation, WriteFence, WriteTombstone
    <3>6. ~CountActiveUserSessions(t) /\ ~StartAdvance(t) /\ ~DatabaseFails(t)
      BY DEF CountActiveUserSessions, StartAdvance, DatabaseFails
    <3> QED
      BY <3>1, <3>2, <3>3, <3>4, <3>5, <3>6
  <2> QED
    BY <2>6, <2>7, <2>8, <2>9, <2>10, <2>11, <2>12 DEF Next
<1> QED
  BY <1>1, IInvHolds, PTL DEF Spec, NewestSecretStays
=============================================================================
