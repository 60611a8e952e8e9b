----------------------------- MODULE UserSession -----------------------------
(***************************************************************************)
(* One login session of a user: its row in the database, its entry in      *)
(* Redis, and the requests that read, rotate, advance and revoke it        *)
(* (model/user_session.go, service/auth_session.go).                       *)
(*                                                                         *)
(* An active entry of Redis ends at a deadline captured before the         *)
(* database was read; an entry that denies the session lasts for TTL from  *)
(* its publication.  A request may be delayed between any two of its       *)
(* steps, a Redis command may fail, before or after it took effect, and a  *)
(* database operation may fail.  Row locks are left out, as on SQLite.     *)
(*                                                                         *)
(* Times are kept as the number of ticks left.  Refresh secrets form one   *)
(* chain, each derived from the one before it, and are known by their      *)
(* place in it.                                                            *)
(***************************************************************************)
EXTENDS Integers, FiniteSets

CONSTANTS
  Thread,      \* requests in flight
  TTL,         \* userCacheTTLSeconds
  Lifetime,    \* LoginSessionTTL
  Limit,       \* UserSessionActiveLimit
  MaxVersion,  \* bound on the session's version
  MaxGen,      \* bound on the rotations of the refresh secret
  MaxOthers    \* bound on the other sessions of the user

ASSUME SessionAssumption ==
  /\ TTL \in Nat \ {0} /\ Lifetime \in Nat \ {0}
  /\ Limit \in Nat /\ MaxVersion \in Nat \ {0} /\ MaxGen \in Nat /\ MaxOthers \in Nat

VARIABLES
  row,        \* the session's row: status, version, place of RefreshHash in the
              \* chain, and whether the previous hash is within its grace window
  life,       \* ticks to ExpiresAt
  cache,      \* the session's entry in Redis
  thread,     \* per request: the step it is at, its snapshot and its deadline
  others,     \* active sessions of the user besides this one
  since,      \* history: ticks since the row was last advanced or revoked
  published   \* history: a tombstone was written and acknowledged

vars == <<row, life, cache, thread, others, since, published>>

NoEntry == [status |-> "none", version |-> 0, ttl |-> 0]
Idle == [pc |-> "idle", op |-> "none", v |-> 1, g |-> 0, left |-> 0, late |-> FALSE]

Step == {"idle", "read", "inactive", "write", "script", "check", "confirm", "served",
         "rotate", "swap", "fence", "commit", "tombstone", "insert", "advance"}
Operation == {"none", "validate", "refresh", "rotated", "login", "advance", "revoke", "all"}

TypeOK ==
  /\ row \in [status : {"none", "active", "revoked"}, version : 1..MaxVersion,
              gen : 0..MaxGen, grace : BOOLEAN]
  /\ life \in 0..Lifetime
  /\ cache \in [status : {"active", "revoking", "revoked"}, version : 1..MaxVersion, ttl : 1..TTL]
               \cup {NoEntry}
  /\ thread \in [Thread -> [pc : Step, op : Operation, v : 1..MaxVersion, g : 0..MaxGen,
                            left : 0..TTL, late : BOOLEAN]]
  /\ others \in 0..MaxOthers
  /\ since \in 0..TTL
  /\ published \in BOOLEAN

Init ==
  /\ row = [status |-> "none", version |-> 1, gen |-> 0, grace |-> FALSE]
  /\ life = Lifetime
  /\ cache = NoEntry
  /\ thread = [t \in Thread |-> Idle]
  /\ others = 0
  /\ since = 0
  /\ published = FALSE

-----------------------------------------------------------------------------
(* The entry in Redis                                                      *)

Least(m, n) == IF m < n THEN m ELSE n

Active == row.status = "active" /\ life > 0
Denied == cache.status \in {"revoking", "revoked"}

\* Mutant: a snapshot may replace a tombstone.
RefusesOnlyNewer(status, v) == cache.version > v

\* The script of writeUserSessionCache leaves the entry alone.
Refuses(status, v) == (status = "active" /\ Denied) \/ cache.version > v

\* The script writes the entry; a deadline in the past removes it.
Put(status, v, ttl) ==
  cache' = IF ttl > 0 THEN [status |-> status, version |-> v, ttl |-> ttl] ELSE NoEntry

\* A tombstone and a fence last until the session ends or for TTL, but at
\* least a second.
DenyTTL == IF life = 0 THEN 1 ELSE Least(life, TTL)

\* Mutant: a snapshot is given the full time from when it is written.
FreshTTL(left) == Least(TTL, life)

\* An active snapshot keeps what is left of its deadline.
SnapshotTTL(left) == Least(left, life)

\* A Redis command that reports an error may have been executed.
PutFails(status, v, ttl) ==
  UNCHANGED cache \/ (~Refuses(status, v) /\ Put(status, v, ttl))

At(t, pc) == thread[t].pc = pc
Become(t, w) == thread' = [thread EXCEPT ![t] = w]
GoTo(t, pc) == Become(t, [thread[t] EXCEPT !.pc = pc])
Return(t) == Become(t, Idle)
Serve(t) == Become(t, [thread[t] EXCEPT !.pc = "served", !.v = 1, !.left = 0])

\* The request turns to revoking the session it has just read.
Revoking(op) == [pc |-> "fence", op |-> op, v |-> row.version, g |-> 0, left |-> 0, late |-> FALSE]

-----------------------------------------------------------------------------
(* GetUserSessionCached                                                    *)

\* The session is over for good when this request begins.
Over == published \/ (row.status = "revoked" /\ since = TTL) \/ life = 0

Started(pc, op, g, left) == [pc |-> pc, op |-> op, v |-> 1, g |-> g, left |-> left, late |-> Over]

\* A request reads the entry of Redis: an active one serves it, one that
\* denies ends it (and changes nothing), and without one, or without Redis,
\* it turns to the database.  The token of a refresh is any one ever issued.
GetUserSessionCached(t, op, g) ==
  /\ At(t, "idle") /\ row.status # "none"
  /\ op \in {"validate", "refresh"} /\ g <= row.gen
  /\ \/ cache.status = "active" /\ life > 0 /\ Become(t, Started("served", op, g, 0))
     \/ Become(t, Started("read", op, g, TTL))
  /\ UNCHANGED <<row, life, cache, others, since, published>>

\* Mutant: the status of the row is not looked at.
GetAnySessionBySID(t) ==
  /\ At(t, "read")
  /\ Become(t, [thread[t] EXCEPT !.pc = IF life > 0 THEN "write" ELSE "inactive", !.v = row.version])
  /\ UNCHANGED <<row, life, cache, others, since, published>>

GetUserSessionBySID(t) ==
  /\ At(t, "read")
  /\ Become(t, [thread[t] EXCEPT !.pc = IF Active THEN "write" ELSE "inactive", !.v = row.version])
  /\ UNCHANGED <<row, life, cache, others, since, published>>

\* A row that is revoked or expired leaves a tombstone, Redis permitting.
CacheInactive(t) ==
  /\ At(t, "inactive")
  /\ \/ Refuses("revoked", thread[t].v) /\ UNCHANGED <<cache, published>>
     \/ PutFails("revoked", thread[t].v, DenyTTL) /\ UNCHANGED published
     \/ /\ ~Refuses("revoked", thread[t].v) /\ Put("revoked", thread[t].v, DenyTTL)
        /\ published' = (published \/ row.status = "revoked")
  /\ Return(t)
  /\ UNCHANGED <<row, life, others, since>>

\* writeUserSessionCache checks the deadline, runs the script, and checks the
\* deadline again.
CheckDeadline(t) ==
  /\ At(t, "write")
  /\ IF thread[t].left = 0 THEN GoTo(t, "confirm")
     ELSE IF life = 0 THEN Return(t) ELSE GoTo(t, "script")
  /\ UNCHANGED <<row, life, cache, others, since, published>>

WriteSnapshot(t) ==
  LET v == thread[t].v
      ttl == SnapshotTTL(thread[t].left)
  IN  /\ At(t, "script")
      /\ \/ Refuses("active", v) /\ Return(t) /\ UNCHANGED cache
         \/ ~Refuses("active", v) /\ Put("active", v, ttl) /\ GoTo(t, "check")
         \/ /\ PutFails("active", v, ttl)
            /\ IF thread[t].op = "advance" THEN Return(t) ELSE Serve(t)
      /\ UNCHANGED <<row, life, others, since, published>>

CheckCompleted(t) ==
  /\ At(t, "check")
  /\ IF thread[t].left = 0 THEN GoTo(t, "confirm")
     ELSE IF life = 0 THEN Return(t) ELSE Serve(t)
  /\ UNCHANGED <<row, life, cache, others, since, published>>

\* confirmUserSessionActiveSnapshot: a snapshot too old to be cached is
\* compared with the row.
Confirm(t) ==
  /\ At(t, "confirm")
  /\ IF Active /\ row.version = thread[t].v THEN Serve(t) ELSE Return(t)
  /\ UNCHANGED <<row, life, cache, others, since, published>>

\* ValidateLoginSession answers, or another operation ends well.
Answer(t) ==
  /\ At(t, "served") /\ thread[t].op # "refresh"
  /\ Return(t)
  /\ UNCHANGED <<row, life, cache, others, since, published>>

-----------------------------------------------------------------------------
(* RefreshLoginSession and RotateUserSessionRefresh                        *)

\* The user is looked up: a user who was disabled, or whose AuthVersion has
\* changed, loses the session.
CheckUser(t) ==
  /\ At(t, "served") /\ thread[t].op = "refresh"
  /\ \/ Become(t, [thread[t] EXCEPT !.pc = "rotate", !.left = TTL])
     \/ IF Active THEN Become(t, Revoking("revoke")) ELSE Return(t)
  /\ UNCHANGED <<row, life, cache, others, since, published>>

\* The presented secret is the current one, the one before it (in its grace
\* window a race, later a reuse; the clock was read before the row), or an
\* older one.
ReadForRotation(t) ==
  LET g == thread[t].g
  IN  /\ At(t, "rotate")
      /\ \/ ~Active /\ Return(t)
         \/ /\ Active /\ g = row.gen /\ row.gen < MaxGen
            /\ Become(t, [thread[t] EXCEPT !.pc = "swap", !.v = row.version])
         \/ /\ Active /\ g = row.gen - 1
            /\ Become(t, [thread[t] EXCEPT !.pc = "served", !.op = "rotated", !.v = 1, !.g = 0, !.left = 0])
         \/ /\ Active /\ g = row.gen - 1 /\ ~row.grace
            /\ Become(t, Revoking("revoke"))
         \/ Active /\ g < row.gen - 1 /\ Return(t)
      /\ UNCHANGED <<row, life, cache, others, since, published>>

\* Mutant: the update does not compare the hash.
RotateAnyhow(t) ==
  /\ At(t, "swap") /\ Active
  /\ row' = [row EXCEPT !.gen = thread[t].g + 1, !.grace = TRUE]
  /\ Become(t, [thread[t] EXCEPT !.pc = "write", !.op = "rotated", !.g = 0])
  /\ UNCHANGED <<life, cache, others, since, published>>

\* The update of RotateUserSessionRefresh compares the hash; when it changes
\* nothing the row is read again.
RotateUserSessionRefresh(t) ==
  /\ At(t, "swap")
  /\ IF Active /\ row.gen = thread[t].g
       THEN /\ row' = [row EXCEPT !.gen = @ + 1, !.grace = TRUE]
            /\ Become(t, [thread[t] EXCEPT !.pc = "write", !.op = "rotated", !.g = 0])
       ELSE /\ Become(t, [thread[t] EXCEPT !.pc = "rotate", !.left = TTL])
            /\ UNCHANGED row
  /\ UNCHANGED <<life, cache, others, since, published>>

-----------------------------------------------------------------------------
(* RevokeUserSession, RevokeUserSessionByRefreshHash, revokeUserSessions,  *)
(* and the reuse of a refresh secret                                       *)

\* The candidate is read.  Logging out by the refresh cookie also compares
\* the hash; revokeUserSessions ("all") also takes the user's other sessions.
ReadCandidate(t, op) ==
  /\ At(t, "idle") /\ Active
  /\ op \in {"revoke", "all"}
  /\ Become(t, Revoking(op))
  /\ UNCHANGED <<row, life, cache, others, since, published>>

\* writeUserSessionDenyFence: a fence that cannot be put up ends the attempt.
WriteFence(t) ==
  LET v == thread[t].v
  IN  /\ At(t, "fence")
      /\ \/ ~Refuses("revoking", v) /\ Put("revoking", v, DenyTTL) /\ GoTo(t, "commit")
         \/ Refuses("revoking", v) /\ UNCHANGED cache /\ Return(t)
         \/ PutFails("revoking", v, DenyTTL) /\ Return(t)
      /\ UNCHANGED <<row, life, others, since, published>>

\* The row is revoked if it still is active.  revokeUserSessions reads it again.
CommitRevocation(t) ==
  /\ At(t, "commit")
  /\ IF Active
       THEN /\ row' = [row EXCEPT !.status = "revoked"]
            /\ since' = 0
            /\ Become(t, [thread[t] EXCEPT !.pc = "tombstone",
                                          !.v = IF thread[t].op = "all" THEN row.version ELSE @])
            /\ IF thread[t].op = "all" THEN others' = 0 ELSE UNCHANGED others
       ELSE Return(t) /\ UNCHANGED <<row, since, others>>
  /\ UNCHANGED <<life, cache, published>>

\* The tombstone is written; a failure is only logged.
WriteTombstone(t) ==
  LET v == thread[t].v
  IN  /\ At(t, "tombstone")
      /\ \/ ~Refuses("revoked", v) /\ Put("revoked", v, DenyTTL) /\ published' = TRUE
         \/ Refuses("revoked", v) /\ UNCHANGED <<cache, published>>
         \/ PutFails("revoked", v, DenyTTL) /\ UNCHANGED published
      /\ Return(t)
      /\ UNCHANGED <<row, life, others, since>>

-----------------------------------------------------------------------------
(* createLoginSession and AdvanceUserSessionAuthVersion                    *)

ActiveSessions == others + (IF Active THEN 1 ELSE 0)

\* createLoginSession counts the active sessions of the user.
CountActiveUserSessions(t) ==
  /\ At(t, "idle")
  /\ ActiveSessions < Limit
  /\ GoTo(t, "insert")
  /\ UNCHANGED <<row, life, cache, others, since, published>>

\* CreateUserSession inserts the row of this session, which may take any time
\* from the deadline captured before it, or that of another one.
CreateUserSession(t) ==
  /\ At(t, "insert")
  /\ \/ /\ row.status = "none"
        /\ row' = [row EXCEPT !.status = "active"]
        /\ \E left \in 0..TTL :
             Become(t, [Idle EXCEPT !.pc = "write", !.op = "login", !.left = left])
        /\ UNCHANGED others
     \/ /\ others < MaxOthers
        /\ others' = others + 1
        /\ Return(t) /\ UNCHANGED row
  /\ UNCHANGED <<life, cache, since, published>>

\* Another session of the user expires or is revoked.
OtherEnds ==
  /\ others > 0 /\ others' = others - 1
  /\ UNCHANGED <<row, life, cache, thread, since, published>>

\* AdvanceUserSessionAuthVersion captures its deadline, then updates the row
\* if it still has the version the request was admitted with.
StartAdvance(t) ==
  /\ At(t, "idle") /\ Active /\ row.version < MaxVersion
  /\ Become(t, [pc |-> "advance", op |-> "advance", v |-> row.version,
                g |-> 0, left |-> TTL, late |-> FALSE])
  /\ UNCHANGED <<row, life, cache, others, since, published>>

AdvanceUserSessionAuthVersion(t) ==
  /\ At(t, "advance")
  /\ IF Active /\ row.version = thread[t].v
       THEN /\ row' = [row EXCEPT !.version = @ + 1]
            /\ since' = 0
            /\ Become(t, [thread[t] EXCEPT !.pc = "write", !.v = @ + 1])
       ELSE Return(t) /\ UNCHANGED <<row, since>>
  /\ UNCHANGED <<life, cache, others, published>>

\* A database operation fails and the request gives up.
DatabaseFails(t) ==
  /\ thread[t].pc \in {"read", "confirm", "rotate", "swap", "commit", "insert", "advance"}
  /\ Return(t)
  /\ UNCHANGED <<row, life, cache, others, since, published>>

\* The previous refresh secret leaves its grace window.
GraceEnds ==
  /\ row.grace /\ row' = [row EXCEPT !.grace = FALSE]
  /\ UNCHANGED <<life, cache, thread, others, since, published>>

Before(n) == IF n > 0 THEN n - 1 ELSE 0

Tick ==
  /\ row.status # "none"
  /\ life' = Before(life)
  /\ cache' = IF cache.ttl > 1 THEN [cache EXCEPT !.ttl = @ - 1] ELSE NoEntry
  /\ thread' = [t \in Thread |-> [thread[t] EXCEPT !.left = Before(@)]]
  /\ since' = IF since < TTL THEN since + 1 ELSE TTL
  /\ UNCHANGED <<row, others, published>>

Next ==
  \/ \E t \in Thread :
       \/ \E op \in {"validate", "refresh"}, g \in 0..MaxGen : GetUserSessionCached(t, op, g)
       \/ GetUserSessionBySID(t) \/ CacheInactive(t)
       \/ CheckDeadline(t) \/ WriteSnapshot(t) \/ CheckCompleted(t) \/ Confirm(t) \/ Answer(t)
       \/ CheckUser(t) \/ ReadForRotation(t) \/ RotateUserSessionRefresh(t)
       \/ \E op \in {"revoke", "all"} : ReadCandidate(t, op)
       \/ WriteFence(t) \/ CommitRevocation(t) \/ WriteTombstone(t)
       \/ CountActiveUserSessions(t) \/ CreateUserSession(t)
       \/ StartAdvance(t) \/ AdvanceUserSessionAuthVersion(t)
       \/ DatabaseFails(t)
  \/ OtherEnds \/ GraceEnds \/ Tick

Spec == Init /\ [][Next]_vars

-----------------------------------------------------------------------------
(* Properties                                                              *)

\* An entry of Redis that disagrees with the row, because the session was
\* revoked or advanced meanwhile, is gone within TTL of that change, however
\* long the request that wrote it was delayed.
StaleEndsInTime ==
  cache.status = "active" /\ (row.status = "revoked" \/ row.version > cache.version) =>
    cache.ttl + since <= TTL

\* Once a tombstone was written, no delayed request makes the session active
\* again in Redis, not even after the tombstone has expired.
NotReactivated == published => cache.status # "active"

\* No request that begins after the tombstone was written, TTL after the
\* revocation (with or without Redis), or after the session expired, is served.
NotServedLate == \A t \in Thread : At(t, "served") => ~thread[t].late

\* The chain of refresh secrets never goes back: a browser with the newest
\* one is not locked out by a delayed refresh with an older one.
NewestSecretStays == [][row'.gen >= row.gen]_row
=============================================================================
