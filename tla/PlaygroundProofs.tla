-------------------------- MODULE PlaygroundProofs --------------------------
(***************************************************************************)
(* Theorems about Playground, for any number of requests and chunks, any   *)
(* text, and any order of user events, network events and renders.         *)
(*                                                                         *)
(* The messages that matter are not only those on the screen: updates wait *)
(* in a queue, and a stop renders it in the next generation.  The          *)
(* invariants are therefore stated of what the queue will make of the      *)
(* messages, in the current generation and in the next one.                *)
(***************************************************************************)
EXTENDS Playground, FiniteSetTheorems, WellFoundedInduction, SequenceTheorems, TLAPS

-----------------------------------------------------------------------------
(* Queues of updates                                                       *)

\* f is the fold of the updates q over ms, as ApplyAll computes it: f[T] applies
\* those at the indices in T.
FoldsOver(f, q, ms, g, S) ==
  f = [T \in SUBSET S |-> IF T = {} THEN ms ELSE Apply(q[Max(T)], f[T \ {Max(T)}], g)]

LEMMA FoldLink ==
  ASSUME NEW q, NEW ms, NEW g
  PROVE  ApplyAll(q, ms, g) = (CHOOSE f : FoldsOver(f, q, ms, g, DOMAIN q))[DOMAIN q]
BY Zenon DEF ApplyAll, FoldLeft, MapThenFoldSet, FoldsOver

LEMMA Smallest ==
  ASSUME NEW S, IsFiniteSet(S), NEW B, B \subseteq SUBSET S, B # {}
  PROVE  \E T \in B : \A U \in B : ~(U \subseteq T /\ U # T)
<1>1. IsWellFoundedOn(StrictSubsetOrdering(S), SUBSET S)
  BY FS_StrictSubsetOrderingWellFounded, FS_FiniteSubsetsOfFinite
<1>2. PICK T \in B : \A U \in B : ~(<<U, T>> \in StrictSubsetOrdering(S))
  BY <1>1, WFMin, Zenon
<1>3. \A U \in B : ~(U \subseteq T /\ U # T)
  BY <1>2 DEF StrictSubsetOrdering
<1> QED BY <1>3

\* A nonempty set of indices has a greatest element.
LEMMA MaxIsGreatest ==
  ASSUME NEW n \in Nat, NEW T \in SUBSET (1..n), T # {}
  PROVE  Max(T) \in T /\ \A k \in T : k <= Max(T)
<1>1. PICK m \in 0..n : (\A k \in T : k <= m) /\ (\A j \in 0..n : (\A k \in T : k <= j) => m <= j)
  <2> DEFINE B == {j \in 0..n : \A k \in T : k <= j}
  <2>1. n \in B /\ B \subseteq Nat
    OBVIOUS
  <2>2. PICK m \in B : \A j \in B : ~(<<j, m>> \in OpToRel(<, Nat))
    <3> HIDE DEF B
    <3> QED BY <2>1, NatLessThanWellFounded, WFMin, Zenon
  <2>3. \A j \in B : m <= j
    <3> TAKE j \in B
    <3>1. ~(<<j, m>> \in OpToRel(<, Nat))
      BY <2>2
    <3>2. ~(j < m)
      BY <3>1, <2>1, Zenon DEF OpToRel
    <3>3. j \in Nat /\ m \in Nat
      BY <2>1
    <3> QED BY <3>2, <3>3
  <2> QED BY <2>3
<1>2. m \in T
  <2> SUFFICES ASSUME m \notin T PROVE FALSE
    OBVIOUS
  <2>1. PICK k \in T : TRUE
    OBVIOUS
  <2>2. m - 1 \in 0..n /\ \A j \in T : j <= m - 1
    BY <1>1, <2>1
  <2> QED BY <1>1, <2>2
<1>3. \A k \in T : m >= k
  BY <1>1
<1>4. Max(T) \in T /\ \A k \in T : Max(T) >= k
  BY <1>2, <1>3, Zenon DEF Max
<1> QED BY <1>4

\* What the fold needs of a set of indices.
Indices(I) == IsFiniteSet(I) /\ \A T \in SUBSET I : T # {} => Max(T) \in T

LEMMA IntervalIndices == ASSUME NEW n \in Nat PROVE Indices(1..n)
<1>1. IsFiniteSet(1..n)
  BY FS_Interval
<1>2. \A T \in SUBSET (1..n) : T # {} => Max(T) \in T
  BY MaxIsGreatest
<1> QED BY <1>1, <1>2 DEF Indices

\* One step of the fold.
Unfolds(f, q, ms, g, S, T) ==
  /\ T = {} => f[T] = ms
  /\ T # {} => /\ Max(T) \in T
               /\ T \ {Max(T)} \in SUBSET S
               /\ T \ {Max(T)} # T
               /\ f[T] = Apply(q[Max(T)], f[T \ {Max(T)}], g)

LEMMA FoldUnfolds ==
  ASSUME NEW S, Indices(S), NEW f, NEW q, NEW ms, NEW g,
         FoldsOver(f, q, ms, g, S), NEW T \in SUBSET S
  PROVE  Unfolds(f, q, ms, g, S, T)
<1>1. T # {} => Max(T) \in T
  BY DEF Indices
<1> QED BY <1>1 DEF FoldsOver, Unfolds

\* The fold depends only on the updates at the indices it takes.
LEMMA FoldAgree ==
  ASSUME NEW I, Indices(I), NEW A \in SUBSET I, NEW D \in SUBSET I,
         NEW f, NEW h, NEW p, NEW q, NEW ms, NEW g,
         FoldsOver(f, q, ms, g, A), FoldsOver(h, p, ms, g, D), \A k \in A \cap D : q[k] = p[k]
  PROVE  \A T \in SUBSET (A \cap D) : f[T] = h[T]
<1> DEFINE Bad == {T \in SUBSET (A \cap D) : f[T] # h[T]}
<1> SUFFICES ASSUME Bad # {} PROVE FALSE
  OBVIOUS
<1>1. PICK T \in Bad : \A U \in Bad : ~(U \subseteq T /\ U # T)
  <2>1. Bad \subseteq SUBSET I /\ IsFiniteSet(I)
    BY DEF Indices
  <2> HIDE DEF Bad
  <2> QED BY <2>1, Smallest
<1>2. T \in SUBSET A /\ T \in SUBSET D /\ f[T] # h[T]
  OBVIOUS
<1> HIDE DEF Bad
<1>3. T # {} /\ Unfolds(f, q, ms, g, A, T) /\ Unfolds(h, p, ms, g, D, T)
  <2>1. Indices(A) /\ Indices(D)
    BY FS_Subset DEF Indices
  <2>2. Unfolds(f, q, ms, g, A, T)
    BY <1>2, <2>1, FoldUnfolds
  <2>3. Unfolds(h, p, ms, g, D, T)
    BY <1>2, <2>1, FoldUnfolds
  <2> QED BY <1>2, <2>2, <2>3 DEF Unfolds
<1> DEFINE U == T \ {Max(T)}
<1>4. f[T] = Apply(q[Max(T)], f[U], g) /\ Max(T) \in T /\ U \subseteq T /\ U # T
  BY <1>3 DEF Unfolds
<1>5. h[T] = Apply(p[Max(T)], h[U], g)
  BY <1>3 DEF Unfolds
<1>6. q[Max(T)] = p[Max(T)]
  BY <1>2, <1>4
<1>7. f[U] # h[U]
  BY <1>2, <1>4, <1>5, <1>6
<1>8. U \in Bad
  BY <1>2, <1>4, <1>7 DEF Bad
<1> QED BY <1>1, <1>4, <1>8

LEMMA FoldExists ==
  ASSUME NEW I, Indices(I), NEW q, NEW ms, NEW g
  PROVE  \E f : FoldsOver(f, q, ms, g, I)
<1> DEFINE Bad == {T \in SUBSET I : ~\E f : FoldsOver(f, q, ms, g, T)}
<1> SUFFICES ASSUME Bad # {} PROVE FALSE
  OBVIOUS
<1>1. PICK T \in Bad : \A U \in Bad : ~(U \subseteq T /\ U # T)
  <2>1. Bad \subseteq SUBSET I /\ IsFiniteSet(I)
    BY DEF Indices
  <2> HIDE DEF Bad
  <2> QED BY <2>1, Smallest
<1> DEFINE h(U) == CHOOSE f : FoldsOver(f, q, ms, g, U)
<1>2. ASSUME NEW U \in SUBSET T, U # T PROVE FoldsOver(h(U), q, ms, g, U)
  <2>1. U \in SUBSET I /\ U \notin Bad
    BY <1>1, <1>2
  <2>2. \E f : FoldsOver(f, q, ms, g, U)
    BY <2>1
  <2> QED BY <2>2
<1> DEFINE F == [U \in SUBSET T |-> IF U = {} THEN ms
                                   ELSE Apply(q[Max(U)], h(U \ {Max(U)})[U \ {Max(U)}], g)]
<1> HIDE DEF h
<1>a. \A U \in SUBSET T : U # T => FoldsOver(h(U), q, ms, g, U)
  BY <1>2
<1>3. ASSUME NEW V \in SUBSET T, V # T PROVE F[V] = h(V)[V]
  <2>1. FoldsOver(h(V), q, ms, g, V) /\ V \in SUBSET I /\ Indices(V)
    BY <1>2, <1>3, FS_Subset DEF Indices
  <2>2. CASE V = {}
    <3>1. h(V)[V] = ms
      BY <2>1, <2>2, FoldUnfolds DEF Unfolds
    <3> QED BY <2>2, <3>1
  <2>3. CASE V # {}
    <3> DEFINE W == V \ {Max(V)}
    <3>1. h(V)[V] = Apply(q[Max(V)], h(V)[W], g) /\ W \in SUBSET V /\ W # V
      BY <2>1, <2>3, FoldUnfolds DEF Unfolds
    <3>2. FoldsOver(h(W), q, ms, g, W)
      <4>1. W \in SUBSET T /\ W # T
        BY <1>3, <3>1
      <4> HIDE DEF W, F
      <4> QED BY ONLY <1>a, <4>1, Zenon
    <3>3. h(V)[W] = h(W)[W]
      <4>1. V \in SUBSET I /\ W \in SUBSET I /\ W \in SUBSET (V \cap W)
        BY <3>1
      <4> HIDE DEF W, F, Bad
      <4>2. \A k \in V \cap W : q[k] = q[k]
        OBVIOUS
      <4>3. \A U \in SUBSET (V \cap W) : h(V)[U] = h(W)[U]
        BY <2>1, <3>2, <4>1, <4>2, FoldAgree
      <4> QED BY <4>1, <4>3
    <3>4. F[V] = Apply(q[Max(V)], h(W)[W], g)
      BY <2>3
    <3> QED BY <3>1, <3>3, <3>4
  <2> QED BY <2>2, <2>3
<1>4. ASSUME NEW U \in SUBSET T
      PROVE  F[U] = (IF U = {} THEN ms ELSE Apply(q[Max(U)], F[U \ {Max(U)}], g))
  <2>1. CASE U = {}
    BY <2>1
  <2>2. CASE U # {}
    <3> DEFINE V == U \ {Max(U)}
    <3>1. Max(U) \in U
      BY <2>2 DEF Indices
    <3>2. V \in SUBSET T /\ V # T
      BY <3>1
    <3>3. F[V] = h(V)[V]
      BY <1>3, <3>2
    <3>4. F[U] = Apply(q[Max(U)], h(V)[V], g)
      BY <2>2
    <3> QED BY <2>2, <3>3, <3>4
  <2> QED BY <2>1, <2>2
<1>5. F = [U \in SUBSET T |-> F[U]]
  OBVIOUS
<1> HIDE DEF F
<1>6. FoldsOver(F, q, ms, g, T)
  BY <1>4, <1>5 DEF FoldsOver
<1> QED BY <1>6

LEMMA FoldFound ==
  ASSUME NEW I, Indices(I), NEW q, DOMAIN q = I, NEW ms, NEW g
  PROVE  \E f : FoldsOver(f, q, ms, g, I) /\ ApplyAll(q, ms, g) = f[I]
<1>1. FoldsOver(CHOOSE f : FoldsOver(f, q, ms, g, I), q, ms, g, I)
  BY FoldExists, Zenon
<1> QED BY <1>1, FoldLink, Zenon

\* No updates change nothing.
LEMMA ApplyNone ==
  ASSUME NEW ms, NEW g
  PROVE  ApplyAll(<<>>, ms, g) = ms
<1>1. PICK f : FoldsOver(f, <<>>, ms, g, 1..0) /\ ApplyAll(<<>>, ms, g) = f[1..0]
  <2>1. DOMAIN <<>> = 1..0
    OBVIOUS
  <2> QED BY <2>1, FoldFound, IntervalIndices
<1>2. {} \in SUBSET (1..0) /\ 1..0 = {}
  OBVIOUS
<1> QED BY <1>1, <1>2, FoldUnfolds, IntervalIndices DEF Unfolds

\* The last update is applied last.
LEMMA ApplyAppend ==
  ASSUME NEW X, NEW q \in Seq(X), NEW u, NEW ms, NEW g
  PROVE  ApplyAll(Append(q, u), ms, g) = Apply(u, ApplyAll(q, ms, g), g)
<1> DEFINE n == Len(q)
           p == Append(q, u)
<1>1. /\ n \in Nat /\ DOMAIN q = 1..n /\ DOMAIN p = 1..(n + 1) /\ p[n + 1] = u
      /\ \A k \in 1..n : p[k] = q[k]
  <2>1. q \in Seq(X \cup {u}) /\ u \in X \cup {u}
    OBVIOUS
  <2> QED BY <2>1
<1> DEFINE I == 1..n
           J == 1..(n + 1)
<1>2. /\ n + 1 \in J /\ J # {} /\ J \ {n + 1} = I /\ I \in SUBSET J /\ J \in SUBSET J
      /\ I \cap J = I
  <2>1. n \in Nat
    BY <1>1
  <2> HIDE DEF n
  <2>2. \A k : k \in J <=> k \in I \/ k = n + 1
    BY <2>1
  <2>3. n + 1 \notin I
    BY <2>1
  <2> HIDE DEF I, J
  <2> QED BY <2>2, <2>3
<1>3. Indices(I) /\ Indices(J)
  BY <1>1, IntervalIndices
<1>4. Max(J) = n + 1
  <2>1. Max(J) \in J /\ \A k \in J : k <= Max(J)
    <3>1. n + 1 \in Nat /\ J = 1..(n + 1)
      BY <1>1
    <3> HIDE DEF n, J
    <3> QED BY <1>2, <3>1, MaxIsGreatest, Zenon
  <2> QED BY <1>1, <1>2, <2>1
<1>5. DOMAIN q = I /\ DOMAIN p = J /\ p[Max(J)] = u /\ \A k \in I : p[k] = q[k]
  BY <1>1, <1>4
<1> HIDE DEF n, p, I, J
<1>6. PICK f : FoldsOver(f, q, ms, g, I) /\ ApplyAll(q, ms, g) = f[I]
  BY <1>3, <1>5, FoldFound
<1>7. PICK h : FoldsOver(h, p, ms, g, J) /\ ApplyAll(p, ms, g) = h[J]
  BY <1>3, <1>5, FoldFound
<1>8. h[J] = Apply(u, h[I], g)
  <2>1. h[J] = Apply(p[Max(J)], h[J \ {Max(J)}], g)
    BY <1>2, <1>3, <1>7, FoldUnfolds DEF Unfolds
  <2> QED BY <1>2, <1>4, <1>5, <2>1
<1>9. f[I] = h[I]
  <2>1. \A k \in I \cap J : q[k] = p[k]
    BY <1>2, <1>5
  <2>2. \A T \in SUBSET (I \cap J) : f[T] = h[T]
    BY <1>2, <1>3, <1>6, <1>7, <2>1, FoldAgree
  <2> QED BY <1>2, <2>2
<1> QED BY <1>6, <1>7, <1>8, <1>9 DEF p

-----------------------------------------------------------------------------
(* Single updates                                                          *)

\* ms with its last message replaced by m.
ReplaceLast(ms, m) == [ms EXCEPT ![Len(ms)] = m]

FromAssistant(ms) == ms # <<>> /\ ms[Len(ms)].from = "assistant"

LEMMA ApplySet == ASSUME NEW x, NEW ms, NEW g PROVE Apply(Set(x), ms, g) = x
BY DEF Apply, Set

LEMMA ApplyStale ==
  ASSUME NEW u, NEW ms, NEW g, u.op \in {"flush", "complete", "error", "response", "stop"}, u.gen # g
  PROVE  Apply(u, ms, g) = ms
BY DEF Apply

LEMMA ApplyFlush ==
  ASSUME NEW u, NEW ms, NEW g, u.op = "flush", u.gen = g, FromAssistant(ms)
  PROVE  Apply(u, ms, g) = ReplaceLast(ms, applyStreamingChunk(ms[Len(ms)], u.chunks))
BY DEF Apply, updateLastAssistantMessage, Last, FromAssistant, ReplaceLast

LEMMA ApplyComplete ==
  ASSUME NEW u, NEW ms, NEW g, u.op = "complete", u.gen = g, FromAssistant(ms)
  PROVE  Apply(u, ms, g) =
           ReplaceLast(ms, IF ms[Len(ms)].status \in {"complete", "error"} THEN ms[Len(ms)]
                           ELSE Completed(ms[Len(ms)]))
BY DEF Apply, updateLastAssistantMessage, Last, FromAssistant, ReplaceLast

LEMMA ApplyError ==
  ASSUME NEW u, NEW ms, NEW g, u.op = "error", u.gen = g, FromAssistant(ms)
  PROVE  Apply(u, ms, g) = ReplaceLast(ms, [ms[Len(ms)] EXCEPT !.status = "error", !.content = <<>>])
BY DEF Apply, updateLastAssistantMessage, Last, FromAssistant, ReplaceLast

LEMMA ApplyResponse ==
  ASSUME NEW u, NEW ms, NEW g, u.op = "response", u.gen = g, FromAssistant(ms)
  PROVE  Apply(u, ms, g) = ReplaceLast(ms, Completed([ms[Len(ms)] EXCEPT !.content = <<[of |-> u.r, c |-> "answer"]>>]))
BY DEF Apply, updateLastAssistantMessage, Last, FromAssistant, ReplaceLast

LEMMA ApplyVideo ==
  ASSUME NEW u, NEW ms, NEW g, u.op = "video", FromAssistant(ms)
  PROVE  Apply(u, ms, g) =
           ReplaceLast(ms, Completed([ms[Len(ms)] EXCEPT !.content = Append(@, [of |-> u.r, c |-> "video"])]))
BY DEF Apply, updateLastAssistantMessage, Last, FromAssistant, ReplaceLast

LEMMA ApplyStop ==
  ASSUME NEW u, NEW ms, NEW g, u.op = "stop", u.gen = g
  PROVE  /\ ~FromAssistant(ms) => Apply(u, ms, g) = ms
         /\ FromAssistant(ms) =>
              Apply(u, ms, g) = ReplaceLast(ms, IF Pending(ms[Len(ms)]) THEN Completed(ms[Len(ms)])
                                                ELSE ms[Len(ms)])
BY DEF Apply, updateLastAssistantMessage, Last, FromAssistant, ReplaceLast

-----------------------------------------------------------------------------
(* What updates keep of the messages                                       *)

\* A message shows only chunks of its own request and text of the editor.
ContentOK(m) == \A j \in 1..Len(m.content) : m.content[j].of \in {0, m.req}
Edits(m) == \E j \in 1..Len(m.content) : m.content[j].of = 0

\* n stands for the number of requests started.
Good(ms, n) == ms \in Seq(Message) /\ \A i \in 1..Len(ms) : ContentOK(ms[i]) /\ ms[i].req <= n

\* The last message, and no other, is the answer to request n.
Target(ms, n) ==
  /\ ms # <<>>
  /\ ms[Len(ms)].from = "assistant" /\ ms[Len(ms)].req = n
  /\ \A i \in 1..Len(ms) : ms[i].from = "assistant" /\ ms[i].req = n => i = Len(ms)

OnlyLast(ms) == \A i \in 1..Len(ms) : Pending(ms[i]) => i = Len(ms) /\ ms[i].from = "assistant"
Settled(ms) == \A i \in 1..Len(ms) : ~Pending(ms[i])

\* m2 is m with another status and other content of its own.
Kept(m, m2) == m2 \in Message /\ ContentOK(m2) /\ m2.from = m.from /\ m2.req = m.req

\* R is ms with m in the place of the last message.
Replaced(R, ms, m) ==
  /\ R \in Seq(Message) /\ Len(R) = Len(ms)
  /\ Len(ms) \in Nat /\ Len(ms) > 0 /\ R[Len(ms)] = m
  /\ \A i \in 1..Len(ms) : i # Len(ms) => R[i] = ms[i]

LEMMA Replaces ==
  ASSUME NEW ms \in Seq(Message), ms # <<>>, NEW m \in Message, NEW R, R = ReplaceLast(ms, m)
  PROVE  Replaced(R, ms, m)
BY DEF ReplaceLast, Replaced

LEMMA UpdateKeeps ==
  ASSUME NEW n \in Nat, NEW ms, Good(ms, n), Target(ms, n), NEW m, Kept(ms[Len(ms)], m),
         NEW R, R = ReplaceLast(ms, m)
  PROVE  /\ Good(R, n) /\ Target(R, n) /\ Len(R) = Len(ms) /\ R[Len(R)] = m
         /\ OnlyLast(ms) => OnlyLast(R)
         /\ OnlyLast(ms) /\ ~Pending(m) => Settled(R)
<1>1. ms \in Seq(Message) /\ ms # <<>> /\ m \in Message
  BY DEF Good, Target, Kept
<1>2. /\ R \in Seq(Message) /\ Len(R) = Len(ms) /\ Len(ms) \in Nat /\ Len(ms) > 0 /\ R[Len(ms)] = m
      /\ \A i \in 1..Len(ms) : i # Len(ms) => R[i] = ms[i]
  <2>1. Replaced(R, ms, m)
    BY <1>1, Replaces
  <2> QED BY <2>1 DEF Replaced
<1>3. Good(R, n)
  BY <1>2 DEF Good, Kept, Target
<1>4. Target(R, n)
  BY <1>2 DEF Target, Kept
<1>5. OnlyLast(ms) => OnlyLast(R)
  BY <1>2 DEF OnlyLast, Target, Kept
<1>6. OnlyLast(ms) /\ ~Pending(m) => Settled(R)
  BY <1>2 DEF OnlyLast, Settled
<1> QED BY <1>2, <1>3, <1>4, <1>5, <1>6

\* What a flush adds to a message is part of the chunks.
LEMMA AppendableDrawn ==
  ASSUME NEW c \in Seq(Glyph), NEW cs \in Seq(Glyph), NEW a, a = getAppendableChunk(c, cs)
  PROVE  a \in Seq(Glyph) /\ \A j \in 1..Len(a) : \E i \in 1..Len(cs) : a[j] = cs[i]
<1>1. CASE StartsWith(cs, c)
  <2>1. a = SubSeq(cs, Len(c) + 1, Len(cs)) /\ Len(c) <= Len(cs) /\ Len(c) \in Nat /\ Len(cs) \in Nat
    BY <1>1 DEF getAppendableChunk, StartsWith
  <2>2. \A i \in (Len(c) + 1)..Len(cs) : cs[i] \in Glyph
    BY <2>1
  <2>3. /\ a \in Seq(Glyph) /\ Len(a) = Len(cs) - Len(c)
        /\ \A j \in 1..(Len(cs) - Len(c)) : a[j] = cs[Len(c) + j]
    BY <2>1, <2>2, SubSeqProperties
  <2>4. \A j \in 1..Len(a) : Len(c) + j \in 1..Len(cs)
    BY <2>1, <2>3
  <2> QED BY <2>3, <2>4
<1>2. CASE ~StartsWith(cs, c)
  <2>1. a = cs
    BY <1>2 DEF getAppendableChunk
  <2> QED BY <2>1
<1> QED BY <1>1, <1>2

\* The updater functions on a message of request r.
LEMMA FlushKeeps ==
  ASSUME NEW m \in Message, ContentOK(m), NEW cs \in Seq(Glyph), \A j \in 1..Len(cs) : cs[j].of = m.req,
         NEW m2, m2 = applyStreamingChunk(m, cs)
  PROVE  /\ Kept(m, m2)
         /\ Pending(m) => Pending(m2) /\ m2.content = m.content \o getAppendableChunk(m.content, cs)
         /\ Pending(m) /\ ~Edits(m2) => ~Edits(m)
<1> DEFINE a == getAppendableChunk(m.content, cs)
<1>1. m.content \in Seq(Glyph)
  BY DEF Message
<1>a. a \in Seq(Glyph) /\ \A j \in 1..Len(a) : a[j].of = m.req
  <2>1. a \in Seq(Glyph) /\ \A j \in 1..Len(a) : \E i \in 1..Len(cs) : a[j] = cs[i]
    BY <1>1, AppendableDrawn
  <2> QED BY <2>1
<1>2. CASE m.status = "error"
  BY <1>2 DEF applyStreamingChunk, Kept, Pending
<1>3. CASE m.status # "error"
  <2> DEFINE c == m.content \o a
  <2>0. m2 = [m EXCEPT !.status = "streaming", !.content = c]
    BY <1>3 DEF applyStreamingChunk
  <2> HIDE DEF a
  <2>1. /\ c \in Seq(Glyph) /\ Len(c) = Len(m.content) + Len(a)
        /\ \A j \in 1..Len(c) : c[j] = IF j <= Len(m.content) THEN m.content[j] ELSE a[j - Len(m.content)]
    BY <1>1, <1>a
  <2> HIDE DEF c
  <2>3. m2 \in Message /\ m2.from = m.from /\ m2.req = m.req /\ m2.content = c /\ m2.status = "streaming"
    BY <2>0, <2>1 DEF Message
  <2>4. \A j \in 1..Len(c) : c[j].of \in {0, m.req}
    <3> TAKE j \in 1..Len(c)
    <3>1. j <= Len(m.content) => j \in 1..Len(m.content)
      BY <1>1, <2>1
    <3>2. ~(j <= Len(m.content)) => j - Len(m.content) \in 1..Len(a)
      BY <1>1, <1>a, <2>1
    <3> QED BY <1>a, <2>1, <3>1, <3>2 DEF ContentOK
  <2>5. Edits(m) => Edits(m2)
    <3> SUFFICES ASSUME NEW j \in 1..Len(m.content), m.content[j].of = 0 PROVE Edits(m2)
      BY DEF Edits
    <3>1. j \in 1..Len(c) /\ c[j] = m.content[j]
      BY <1>1, <1>a, <2>1
    <3> QED BY <2>3, <3>1 DEF Edits
  <2> QED BY <2>3, <2>4, <2>5 DEF Kept, ContentOK, Pending, c, a
<1> QED BY <1>2, <1>3

LEMMA CompleteKeeps ==
  ASSUME NEW m \in Message, ContentOK(m),
         NEW m2, m2 = (IF m.status \in {"complete", "error"} THEN m ELSE Completed(m))
  PROVE  /\ Kept(m, m2) /\ ~Pending(m2)
         /\ Pending(m) => m2.status = "complete" /\ m2.content = m.content
BY DEF Completed, Message, Kept, ContentOK, Pending

LEMMA ErrorKeeps ==
  ASSUME NEW m \in Message, NEW m2, m2 = [m EXCEPT !.status = "error", !.content = <<>>]
  PROVE  Kept(m, m2) /\ ~Pending(m2)
<1> DEFINE c == <<>>
<1>1. c \in Seq(Glyph) /\ 1..Len(c) = {}
  OBVIOUS
<1> HIDE DEF c
<1> QED BY <1>1 DEF c, Message, Kept, ContentOK, Pending

LEMMA ResponseKeeps ==
  ASSUME NEW m \in Message, NEW m2, m2 = Completed([m EXCEPT !.content = <<[of |-> m.req, c |-> "answer"]>>])
  PROVE  Kept(m, m2) /\ ~Pending(m2)
<1> DEFINE y == [of |-> m.req, c |-> "answer"]
<1>1. y \in Glyph /\ y.of = m.req
  BY DEF Message, Req, Glyph
<1>2. m2 = Completed([m EXCEPT !.content = <<y>>])
  OBVIOUS
<1> HIDE DEF y
<1> DEFINE c == <<y>>
<1>3. c \in Seq(Glyph) /\ \A j \in 1..Len(c) : c[j].of = m.req
  BY <1>1
<1> HIDE DEF c
<1> QED BY <1>2, <1>3 DEF c, Completed, Message, Kept, ContentOK, Pending

LEMMA VideoKeeps ==
  ASSUME NEW m \in Message, ContentOK(m),
         NEW m2, m2 = Completed([m EXCEPT !.content = Append(@, [of |-> m.req, c |-> "video"])])
  PROVE  Kept(m, m2) /\ ~Pending(m2)
<1> DEFINE y == [of |-> m.req, c |-> "video"]
<1>1. m.content \in Seq(Glyph) /\ y \in Glyph /\ y.of = m.req
  BY DEF Message, Req, Glyph
<1>2. m2 = Completed([m EXCEPT !.content = Append(@, y)])
  OBVIOUS
<1> HIDE DEF y
<1> DEFINE c == Append(m.content, y)
<1>3. c \in Seq(Glyph) /\ \A j \in 1..Len(c) : c[j].of \in {0, m.req}
  <2>1. /\ c \in Seq(Glyph) /\ Len(c) = Len(m.content) + 1 /\ c[Len(m.content) + 1] = y
        /\ \A j \in 1..Len(m.content) : c[j] = m.content[j]
    BY <1>1
  <2> HIDE DEF c
  <2>2. \A j \in 1..Len(c) : j \in 1..Len(m.content) \/ j = Len(m.content) + 1
    BY <1>1, <2>1
  <2> QED BY <1>1, <2>1, <2>2 DEF ContentOK
<1> HIDE DEF c
<1> QED BY <1>2, <1>3 DEF c, Completed, Message, Kept, ContentOK, Pending

LEMMA StopKeeps ==
  ASSUME NEW m \in Message, ContentOK(m), NEW m2, m2 = (IF Pending(m) THEN Completed(m) ELSE m)
  PROVE  Kept(m, m2) /\ ~Pending(m2)
BY DEF Completed, Message, Kept, ContentOK, Pending

\* The messages of request r, with a stream of kind k, read as its text t and are
\* complete, unless edited or the text repeats itself.
AllShown(ms, r, k, t) ==
  k = "snapshots" \/ NothingRepeats(t) =>
    \A i \in 1..Len(ms) :
      ms[i].from = "assistant" /\ ms[i].req = r /\ ~Edits(ms[i]) =>
        ms[i].status = "complete" /\ Spells(ms[i].content, t)

\* R consists of messages of ms.
Drawn(R, ms) == R \in Seq(Message) /\ \A i \in 1..Len(R) : \E j \in 1..Len(ms) : R[i] = ms[j]

LEMMA DrawnKeeps ==
  ASSUME NEW ms, NEW R, Drawn(R, ms)
  PROVE  /\ \A n \in Nat : Good(ms, n) => Good(R, n)
         /\ Settled(ms) => Settled(R)
         /\ \A r, k, t : AllShown(ms, r, k, t) => AllShown(R, r, k, t)
<1>1. \A n \in Nat : Good(ms, n) => Good(R, n)
  BY DEF Drawn, Good
<1>2. Settled(ms) => Settled(R)
  BY DEF Drawn, Settled
<1>3. \A r, k, t : AllShown(ms, r, k, t) => AllShown(R, r, k, t)
  BY DEF Drawn, AllShown
<1> QED BY <1>1, <1>2, <1>3

LEMMA PrefixDrawn ==
  ASSUME NEW ms \in Seq(Message), NEW k \in 0..Len(ms), NEW R, R = SubSeq(ms, 1, k)
  PROVE  /\ Drawn(R, ms) /\ Len(R) = k /\ \A i \in 1..k : R[i] = ms[i]
         /\ OnlyLast(ms) /\ (k = Len(ms) => ~FromAssistant(ms)) => Settled(R)
<1>1. R \in Seq(Message) /\ Len(R) = k /\ \A i \in 1..k : R[i] = ms[i]
  BY SubSeqProperties
<1>2. Drawn(R, ms)
  BY <1>1 DEF Drawn
<1>3. OnlyLast(ms) /\ (k = Len(ms) => ~FromAssistant(ms)) => Settled(R)
  BY <1>1 DEF OnlyLast, Settled, FromAssistant
<1> QED BY <1>1, <1>2, <1>3

LEMMA RemoveDrawn ==
  ASSUME NEW ms \in Seq(Message), NEW u, u.op = "remove", NEW g, NEW R, R = Apply(u, ms, g)
  PROVE  Drawn(R, ms)
<1> DEFINE key == u.key
<1>0. R = RemoveFirstMatch(ms, LAMBDA m : Key(m) = key)
  BY DEF Apply
<1> HIDE DEF key
<1>1. CASE ~\E i \in 1..Len(ms) : Key(ms[i]) = key
  <2>1. R = ms
    BY <1>0, <1>1 DEF RemoveFirstMatch
  <2> QED BY <2>1 DEF Drawn
<1>2. CASE \E i \in 1..Len(ms) : Key(ms[i]) = key
  <2> DEFINE I == {i \in 1..Len(ms) : Key(ms[i]) = key}
             i == Min(I)
             front == SubSeq(ms, 1, i - 1)
             back == SubSeq(ms, i + 1, Len(ms))
  <2>1. i \in 1..Len(ms)
    <3>1. I \subseteq 1..Len(ms) /\ I # {}
      BY <1>2
    <3> HIDE DEF I
    <3>2. Min(I) \in I
      <4>1. I \subseteq Nat
        BY <3>1
      <4>2. PICK m \in I : \A j \in I : ~(<<j, m>> \in OpToRel(<, Nat))
        BY <3>1, <4>1, NatLessThanWellFounded, WFMin, Zenon
      <4>3. \A j \in I : m <= j
        <5> TAKE j \in I
        <5>1. ~(<<j, m>> \in OpToRel(<, Nat))
          BY <4>2
        <5>2. ~(j < m)
          BY <4>1, <5>1, Zenon DEF OpToRel
        <5> QED BY <4>1, <5>2
      <4> QED BY <4>3 DEF Min
    <3> QED BY <3>1, <3>2
  <2>2. R = front \o back
    <3>1. SelectInSeq(ms, LAMBDA m : Key(m) = key) = i
      BY <1>2 DEF SelectInSeq
    <3> HIDE DEF i
    <3> QED BY <1>0, <1>2, <3>1, Zenon DEF RemoveFirstMatch, RemoveAt
  <2> HIDE DEF i
  <2>3. Len(ms) \in Nat /\ \A j \in 1..Len(ms) : ms[j] \in Message
    OBVIOUS
  <2>4. front \in Seq(Message) /\ Len(front) = i - 1 /\ \A j \in 1..i - 1 : front[j] = ms[j]
    BY <2>1, <2>3, SubSeqProperties
  <2>5. /\ back \in Seq(Message) /\ Len(back) = Len(ms) - i
        /\ \A j \in 1..Len(ms) - i : back[j] = ms[i + j]
    BY <2>1, <2>3, SubSeqProperties
  <2> HIDE DEF front, back
  <2>6. /\ R \in Seq(Message) /\ Len(R) = Len(ms) - 1
        /\ \A j \in 1..Len(R) : R[j] = IF j <= Len(front) THEN front[j] ELSE back[j - Len(front)]
    <3>1. /\ R \in Seq(Message) /\ Len(R) = Len(front) + Len(back)
          /\ \A j \in 1..Len(front) + Len(back) :
               R[j] = IF j <= Len(front) THEN front[j] ELSE back[j - Len(front)]
      <4>1. front \in Seq(Message) /\ back \in Seq(Message)
        BY <2>4, <2>5
      <4>2. /\ front \o back \in Seq(Message) /\ Len(front \o back) = Len(front) + Len(back)
            /\ \A j \in 1..Len(front) + Len(back) :
                 (front \o back)[j] = IF j <= Len(front) THEN front[j] ELSE back[j - Len(front)]
        BY ONLY <4>1, ConcatProperties
      <4> QED BY ONLY <2>2, <4>2
    <3>2. Len(front) + Len(back) = Len(ms) - 1
      BY <2>1, <2>3, <2>4, <2>5
    <3> QED BY <3>1, <3>2
  <2>7. \A j \in 1..Len(R) : R[j] = IF j < i THEN ms[j] ELSE ms[j + 1]
    <3> TAKE j \in 1..Len(R)
    <3>1. CASE j < i
      <4>1. j <= Len(front) /\ j \in 1..i - 1
        BY <2>1, <2>3, <2>4, <2>6, <3>1
      <4>2. R[j] = front[j]
        BY <2>6, <4>1
      <4>3. front[j] = ms[j]
        BY <2>4, <4>1
      <4> QED BY <3>1, <4>2, <4>3
    <3>2. CASE ~(j < i)
      <4>1. /\ ~(j <= Len(front)) /\ j - Len(front) \in 1..Len(ms) - i
            /\ i + (j - Len(front)) = j + 1
        BY <2>1, <2>3, <2>4, <2>6, <3>2
      <4>2. R[j] = back[j - Len(front)]
        BY <2>6, <4>1
      <4>3. back[j - Len(front)] = ms[j + 1]
        BY <2>5, <4>1
      <4> QED BY <3>2, <4>2, <4>3
    <3> QED BY <3>1, <3>2
  <2>8. \A j \in 1..Len(R) : j \in 1..Len(ms) /\ j + 1 \in 1..Len(ms)
    BY <2>3, <2>6
  <2> QED BY <2>6, <2>7, <2>8 DEF Drawn
<1> QED BY <1>1, <1>2

\* A new request: the answer to come is appended to messages of earlier ones.
LEMMA LoadingAppended ==
  ASSUME NEW n \in Req, NEW p, Good(p, n),
         \A i \in 1..Len(p) : ~(p[i].from = "assistant" /\ p[i].req = n),
         NEW x, x = Append(p, Loading(n))
  PROVE  /\ Good(x, n) /\ Target(x, n) /\ x[Len(x)] = Loading(n)
         /\ Settled(p) => OnlyLast(x)
<1>1. p \in Seq(Message) /\ n \in Nat
  BY DEF Good, Req
<1>2. /\ Loading(n) \in Message /\ Loading(n).from = "assistant" /\ Loading(n).req = n
      /\ ContentOK(Loading(n))
  BY DEF Loading, Message, ContentOK
<1>3. /\ x \in Seq(Message) /\ Len(x) = Len(p) + 1 /\ x[Len(x)] = Loading(n) /\ Len(p) \in Nat
      /\ \A i \in 1..Len(x) : i # Len(x) => i \in 1..Len(p) /\ x[i] = p[i]
  BY <1>1, <1>2
<1>4. Good(x, n)
  BY <1>1, <1>2, <1>3 DEF Good
<1>5. Target(x, n)
  BY <1>2, <1>3 DEF Target
<1>6. Settled(p) => OnlyLast(x)
  BY <1>2, <1>3 DEF Settled, OnlyLast
<1> QED BY <1>3, <1>4, <1>5, <1>6

USE PlaygroundAssumption

-----------------------------------------------------------------------------
(* Event sources                                                           *)

Phases == {"none", "headers", "open", "silent", "await", "sleep", "complete", "ended"}
Request == [kind : Kind \cup {"none"}, gen : Nat, sgen : Nat, text : Seq(Char), phase : Phases]

\* The part of TypeOK that is about requests.
RequestsOK ==
  /\ req \in [Req -> Request]
  /\ count \in 0..MaxSends /\ gen \in Nat /\ sgen \in Nat
  /\ source \in 0..MaxSends /\ abort \in 0..MaxSends

\* A request that waits for its headers was sent at or before the controller's
\* current generation; at it, no source is open, the request is the newest one
\* and no other request waits with it.
HeadersOK(r) ==
  req[r].phase = "headers" =>
    /\ req[r].sgen <= sgen
    /\ req[r].sgen = sgen =>
         /\ req[r].gen = gen /\ source = 0
         /\ \A q \in Req : req[q].phase = "headers" /\ req[q].sgen = sgen => q = r

StreamInv ==
  /\ StreamsAreWanted
  /\ \A r \in Req : HeadersOK(r)
  /\ \A r \in Req : r > count => req[r].phase = "none"
  /\ source <= count /\ abort <= count

LEMMA PhaseMoved ==
  ASSUME RequestsOK, NEW r \in Req, NEW ph \in Phases, Moves(r, ph)
  PROVE  /\ req' \in [Req -> Request]
         /\ req'[r].phase = ph /\ req'[r].gen = req[r].gen /\ req'[r].sgen = req[r].sgen
         /\ \A q \in Req \ {r} : req'[q] = req[q]
<1>1. req' = [req EXCEPT ![r] = [req[r] EXCEPT !.phase = ph]]
  BY DEF Moves
<1>2. req[r] \in Request
  BY DEF RequestsOK
<1>3. [req[r] EXCEPT !.phase = ph] \in Request
  BY <1>2 DEF Request
<1> QED BY <1>1, <1>2, <1>3 DEF RequestsOK, Request

LEMMA Abandoned ==
  ASSUME RequestsOK, NEW rs
  PROVE  /\ Abandon(rs) \in [Req -> Request]
         /\ \A q \in Req : Abandon(rs)[q] = IF q \in rs THEN Ended ELSE req[q]
         /\ Ended \in Request /\ Ended.phase = "ended"
<1>1. Ended \in Request /\ Ended.phase = "ended"
  <2>1. <<>> \in Seq(Char)
    OBVIOUS
  <2> QED BY <2>1 DEF Ended, NoRequest, Request, Phases
<1> QED BY <1>1 DEF Abandon, RequestsOK

\* A step that ends a request, or moves it between phases without a source,
\* while the source stays or closes with it.
LEMMA OtherPhase ==
  ASSUME RequestsOK, StreamInv, NEW r \in Req, UNCHANGED <<count, gen, sgen>>,
         req[r].phase # "none",
         \A q \in Req \ {r} : req'[q] = req[q],
         req'[r].phase \notin {"headers", "open", "silent"},
         source' = source \/ (source = r /\ source' = 0), abort' \in {0, abort}
  PROVE  StreamInv'
<1>1. StreamsAreWanted'
  BY DEF StreamInv, StreamsAreWanted, RequestsOK
<1>2. \A q \in Req : HeadersOK(q)'
  BY DEF StreamInv, HeadersOK, RequestsOK
<1>3. \A q \in Req : q > count' => req'[q].phase = "none"
  BY DEF StreamInv, RequestsOK
<1> QED BY <1>1, <1>2, <1>3 DEF StreamInv, RequestsOK

\* A prompt, whatever was running.
LEMMA SendStep ==
  ASSUME RequestsOK, StreamInv, NEW kind \in Kind, count < MaxSends, count' = count + 1,
         sendChat(count', kind)
  PROVE  RequestsOK' /\ StreamInv'
<1> DEFINE r == count + 1
           new == [kind |-> kind, gen |-> gen', sgen |-> sgen', text |-> <<>>,
                   phase |-> IF kind \in Streams THEN "headers" ELSE "await"]
           old == Abandon({source, abort} \ {0})
<1>1. /\ r \in Req /\ count' = r /\ req[r].phase = "none"
      /\ gen' = gen + 1 /\ sgen' = sgen + 1 /\ source' = 0 /\ abort' \in {0, r}
      /\ req' = [old EXCEPT ![r] = new]
  BY DEF sendChat, RequestsOK, Req, StreamInv
<1>2. /\ new \in Request /\ new.gen = gen' /\ new.sgen = sgen'
      /\ new.phase \in {"headers", "await"}
  BY <1>1 DEF Request, Phases, RequestsOK
<1>3. /\ old \in [Req -> Request] /\ \A q \in Req : old[q].phase = "ended" \/ old[q] = req[q]
      /\ \A q \in Req : q = source => old[q].phase = "ended"
      /\ \A q \in Req : q \notin {source, abort} => old[q] = req[q]
  BY Abandoned DEF RequestsOK, Req
<1> HIDE DEF new, old
<1>4. req' \in [Req -> Request] /\ req'[r] = new /\ \A q \in Req \ {r} : req'[q] = old[q]
  BY <1>1, <1>2, <1>3
<1>5. RequestsOK'
  BY <1>1, <1>4 DEF RequestsOK, Req
<1>6. StreamsAreWanted'
  BY <1>1, <1>2, <1>3, <1>4 DEF StreamInv, StreamsAreWanted
<1>7. \A q \in Req : HeadersOK(q)'
  <2>1. \A q \in Req \ {r} : req'[q].phase = "headers" => req'[q].sgen < sgen'
    <3> TAKE q \in Req \ {r}
    <3>1. req[q].sgen \in Nat /\ sgen \in Nat
      BY DEF RequestsOK, Request
    <3> QED BY <1>1, <1>3, <1>4, <3>1 DEF StreamInv, HeadersOK
  <2>2. sgen' \in Nat /\ \A q \in Req : req'[q].sgen \in Nat
    BY <1>4, <1>5 DEF RequestsOK, Request
  <2> QED BY <1>1, <1>2, <1>4, <2>1, <2>2 DEF HeadersOK
<1>8. \A q \in Req : q > count' => req'[q].phase = "none"
  <2> SUFFICES ASSUME NEW q \in Req, q > count' PROVE req'[q].phase = "none"
    OBVIOUS
  <2>1. q # r /\ q > count /\ q \notin {source, abort}
    BY <1>1 DEF Req, RequestsOK, StreamInv
  <2> QED BY <1>3, <1>4, <2>1 DEF StreamInv
<1> QED BY <1>1, <1>5, <1>6, <1>7, <1>8 DEF StreamInv, RequestsOK

\* The stop button, and the page left or closed and opened again.
LEMMA StopStep ==
  ASSUME RequestsOK, StreamInv, StopGeneration \/ Leave \/ Close
  PROVE  RequestsOK' /\ StreamInv'
<1>1. CASE StopGeneration
  <2>1. count' = count /\ gen' = gen + 1 /\ sgen' = sgen + 1 /\ source' = 0 /\ abort' = 0
    BY <1>1 DEF StopGeneration
  <2> DEFINE left == Abandon({source, abort} \ {0})
  <2>0. /\ left \in [Req -> Request] /\ \A q \in Req : left[q].phase = "ended" \/ left[q] = req[q]
        /\ \A q \in Req : q = source => left[q].phase = "ended"
        /\ \A q \in Req : q \notin {source, abort} => left[q] = req[q]
    BY Abandoned DEF RequestsOK, Req
  <2> HIDE DEF left
  <2>2. /\ req' \in [Req -> Request] /\ \A q \in Req : req'[q].phase = "ended" \/ req'[q] = req[q]
        /\ \A q \in Req : q = source => req'[q].phase = "ended"
        /\ \A q \in Req : q \notin {source, abort} => req'[q] = req[q]
    BY <1>1, <2>0 DEF left, StopGeneration
  <2>3. RequestsOK'
    BY <2>1, <2>2 DEF RequestsOK
  <2>4. StreamsAreWanted'
    BY <2>1, <2>2 DEF StreamInv, StreamsAreWanted
  <2>5. \A q \in Req : HeadersOK(q)'
    <3> TAKE q \in Req
    <3>1. req[q].sgen \in Nat /\ sgen \in Nat
      BY DEF RequestsOK, Request
    <3> QED BY <2>1, <2>2, <3>1 DEF StreamInv, HeadersOK
  <2>6. \A q \in Req : q > count' => req'[q].phase = "none"
    BY <2>1, <2>2 DEF StreamInv, RequestsOK, Req
  <2> QED BY <2>1, <2>3, <2>4, <2>5, <2>6 DEF StreamInv, RequestsOK
<1>2. CASE Leave \/ Close
  <2>1. count' = count /\ gen' = 0 /\ sgen' = 0 /\ source' = 0 /\ abort' = 0
    BY <1>2 DEF Leave, Close, Reopen
  <2>2. /\ req' \in [Req -> Request]
        /\ \A q \in Req : req'[q].phase = "ended" \/ (req'[q] = req[q] /\ req[q].phase = "none")
        /\ \A q \in Req : req[q].phase = "none" => req'[q] = req[q]
    <3> DEFINE rs == {r \in Req : req[r].phase # "none"}
    <3>1. \A q \in Req : q \in rs <=> req[q].phase # "none"
      OBVIOUS
    <3> HIDE DEF rs
    <3>2. /\ Abandon(rs) \in [Req -> Request]
          /\ \A q \in Req : Abandon(rs)[q] = IF q \in rs THEN Ended ELSE req[q]
          /\ Ended.phase = "ended"
      BY Abandoned
    <3>3. req' = Abandon(rs)
      BY <1>2 DEF rs, Leave, Close, Reopen
    <3> QED BY <3>1, <3>2, <3>3
  <2>3. RequestsOK'
    BY <2>1, <2>2 DEF RequestsOK
  <2>4. StreamsAreWanted' /\ \A q \in Req : HeadersOK(q)'
    BY <2>2 DEF StreamsAreWanted, HeadersOK
  <2>5. \A q \in Req : q > count' => req'[q].phase = "none"
    BY <2>1, <2>2 DEF StreamInv
  <2> QED BY <2>1, <2>3, <2>4, <2>5 DEF StreamInv, RequestsOK
<1> QED BY <1>1, <1>2

\* The headers of a stream arrive: only the newest request opens a source.
LEMMA HeadersStep ==
  ASSUME RequestsOK, StreamInv, NEW r \in Req, Headers(r)
  PROVE  RequestsOK' /\ StreamInv'
<1>0. req[r].phase = "headers" /\ UNCHANGED <<count, gen, sgen, abort>>
  BY DEF Headers
<1>1. CASE req[r].sgen # sgen
  <2>1. req' = Abandon({r}) /\ source' = source
    BY <1>1 DEF Headers, Ends
  <2>2. /\ req' \in [Req -> Request] /\ req'[r].phase = "ended"
        /\ \A q \in Req \ {r} : req'[q] = req[q]
    BY <2>1, Abandoned
  <2>3. StreamInv'
    BY <1>0, <2>1, <2>2, OtherPhase
  <2> QED BY <1>0, <2>1, <2>2, <2>3 DEF RequestsOK
<1>2. CASE req[r].sgen = sgen
  <2>1. Moves(r, "open") /\ source' = r
    BY <1>2 DEF Headers
  <2>2. /\ req' \in [Req -> Request]
        /\ req'[r].phase = "open" /\ req'[r].gen = req[r].gen /\ req'[r].sgen = req[r].sgen
        /\ \A q \in Req \ {r} : req'[q] = req[q]
    BY <2>1, PhaseMoved DEF Phases
  <2>3. /\ req[r].gen = gen /\ source = 0 /\ 0 \notin Req
        /\ \A q \in Req : req[q].phase = "headers" /\ req[q].sgen = sgen => q = r
    BY <1>0, <1>2 DEF StreamInv, HeadersOK, Req
  <2>4. StreamsAreWanted'
    BY <1>0, <2>1, <2>2, <2>3 DEF StreamInv, StreamsAreWanted
  <2>5. \A q \in Req : HeadersOK(q)'
    BY <1>0, <2>1, <2>2, <2>3 DEF StreamInv, HeadersOK
  <2>6. r <= count /\ \A q \in Req : q > count' => req'[q].phase = "none"
    BY <1>0, <2>2 DEF StreamInv, RequestsOK, Req
  <2> QED BY <1>0, <2>1, <2>2, <2>4, <2>5, <2>6 DEF StreamInv, RequestsOK, Req
<1> QED BY <1>1, <1>2

\* The other answers end a request or leave it where it was.
LEMMA AnswerStep ==
  ASSUME RequestsOK, StreamInv, NEW r \in Req,
         \/ HeadersFail(r) \/ StreamDone(r) \/ StreamError(r) \/ StreamSilent(r)
         \/ Answer(r) \/ AnswerFails(r) \/ VideoPending(r) \/ PollVideo(r)
         \/ \E c \in Char : StreamChunk(r, c)
  PROVE  RequestsOK' /\ StreamInv'
<1>1. ASSUME Ends(r), req[r].phase # "none", UNCHANGED <<count, gen, sgen>>,
             source' = source \/ (source = r /\ source' = 0), abort' \in {0, abort}
      PROVE  RequestsOK' /\ StreamInv'
  <2>1. /\ req' \in [Req -> Request] /\ req'[r].phase = "ended"
        /\ \A q \in Req \ {r} : req'[q] = req[q]
    BY <1>1, Abandoned DEF Ends
  <2>2. StreamInv'
    BY <1>1, <2>1, OtherPhase
  <2> QED BY <1>1, <2>1, <2>2 DEF RequestsOK
<1>2. CASE HeadersFail(r)
  BY <1>1, <1>2 DEF HeadersFail, chat
<1>3. CASE StreamError(r)
  BY <1>1, <1>3 DEF StreamError, StreamEnds
<1>4. CASE StreamDone(r)
  <2>1. /\ Moves(r, "complete") /\ source = r /\ source' = 0 /\ req[r].phase = "open"
        /\ UNCHANGED <<count, gen, sgen, abort>>
    BY <1>4 DEF StreamDone, StreamEnds
  <2>2. /\ req' \in [Req -> Request] /\ req'[r].phase = "complete"
        /\ \A q \in Req \ {r} : req'[q] = req[q]
    BY <2>1, PhaseMoved DEF Phases
  <2>3. StreamInv'
    BY <2>1, <2>2, OtherPhase
  <2> QED BY <2>1, <2>2, <2>3 DEF RequestsOK
<1>5. CASE Answer(r)
  BY <1>1, <1>5 DEF Answer, Finally
<1>6. CASE AnswerFails(r)
  BY <1>1, <1>6 DEF AnswerFails, Finally
<1>7. CASE StreamSilent(r)
  <2>1. /\ Moves(r, "silent") /\ req[r].phase = "open"
        /\ UNCHANGED <<count, gen, sgen, source, abort>>
    BY <1>7 DEF StreamSilent, chat
  <2>2. /\ req' \in [Req -> Request] /\ req'[r].phase = "silent" /\ req'[r].gen = req[r].gen
        /\ \A q \in Req \ {r} : req'[q] = req[q]
    BY <2>1, PhaseMoved DEF Phases
  <2> QED BY <2>1, <2>2 DEF RequestsOK, StreamInv, StreamsAreWanted, HeadersOK
<1>8. ASSUME NEW c \in Char, StreamChunk(r, c) PROVE RequestsOK' /\ StreamInv'
  <2> DEFINE new == [req[r] EXCEPT !.text = Append(@, c)]
  <2>1. req' = [req EXCEPT ![r] = new] /\ UNCHANGED <<count, gen, sgen, source, abort>>
    BY <1>8 DEF StreamChunk
  <2>2. req[r] \in Request
    BY DEF RequestsOK
  <2>3. new \in Request /\ new.phase = req[r].phase /\ new.gen = req[r].gen /\ new.sgen = req[r].sgen
    <3>1. Append(req[r].text, c) \in Seq(Char)
      BY <2>2 DEF Request
    <3> QED BY <2>2, <3>1 DEF Request
  <2> HIDE DEF new
  <2>4. /\ req' \in [Req -> Request]
        /\ \A q \in Req : /\ req'[q].phase = req[q].phase /\ req'[q].gen = req[q].gen
                          /\ req'[q].sgen = req[q].sgen
    BY <2>1, <2>3 DEF RequestsOK
  <2> QED BY <2>1, <2>4 DEF RequestsOK, StreamInv, StreamsAreWanted, HeadersOK
<1>9. CASE VideoPending(r) \/ PollVideo(r)
  <2>1. UNCHANGED <<count, gen, sgen, source, abort>> /\ req[r].phase \in {"await", "sleep"}
    BY <1>9 DEF VideoPending, PollVideo, chat
  <2>2. PICK ph \in {"await", "sleep"} : Moves(r, ph)
    BY <1>9 DEF VideoPending, PollVideo
  <2>3. /\ req' \in [Req -> Request] /\ req'[r].phase \in {"await", "sleep"}
        /\ \A q \in Req \ {r} : req'[q] = req[q]
    BY <2>2, PhaseMoved DEF Phases
  <2>4. StreamInv'
    BY <2>1, <2>3, OtherPhase
  <2> QED BY <2>1, <2>3, <2>4 DEF RequestsOK
<1> QED BY <1>2, <1>3, <1>4, <1>5, <1>6, <1>7, <1>8, <1>9

LEMMA StreamStep == RequestsOK /\ StreamInv /\ [Next]_vars => RequestsOK' /\ StreamInv'
<1> SUFFICES ASSUME RequestsOK, StreamInv, [Next]_vars PROVE RequestsOK' /\ StreamInv'
  OBVIOUS
<1>1. ASSUME UNCHANGED <<req, count, gen, sgen, source, abort>> PROVE RequestsOK' /\ StreamInv'
  BY <1>1 DEF RequestsOK, StreamInv, StreamsAreWanted, HeadersOK
<1>2. CASE Render \/ Save \/ FlushTimer \/ CancelEdit \/ ClearMessages \/ UNCHANGED vars
  BY <1>1, <1>2 DEF Render, Save, FlushTimer, CancelEdit, ClearMessages, vars, chat
<1>3. ASSUME NEW i \in DOMAIN messages, EditMessage(i) \/ SaveEdit(i) \/ DeleteMessage(i)
      PROVE  RequestsOK' /\ StreamInv'
  BY <1>1, <1>3 DEF EditMessage, SaveEdit, DeleteMessage, chat
<1>4. ASSUME NEW kind \in Kind,
             SendMessage(kind) \/ \E i \in DOMAIN messages : RegenerateMessage(i, kind) \/ SubmitEdit(i, kind)
      PROVE  RequestsOK' /\ StreamInv'
  <2>1. count < MaxSends /\ count' = count + 1 /\ sendChat(count', kind)
    BY <1>4 DEF SendMessage, RegenerateMessage, SubmitEdit, Start
  <2> QED BY <2>1, SendStep
<1>5. ASSUME NEW r \in Req,
             Answers(r) \/ VideoPending(r) \/ PollVideo(r) \/ \E c \in Char : StreamChunk(r, c)
      PROVE  RequestsOK' /\ StreamInv'
  BY <1>5, HeadersStep, AnswerStep DEF Answers
<1>6. CASE StopGeneration \/ Leave \/ Close
  BY <1>6, StopStep
<1> QED BY <1>2, <1>3, <1>4, <1>5, <1>6 DEF Next

\* However prompts, stops, edits, changes of page and late headers interleave,
\* an open event source is the one of the newest request: none is left running
\* behind the user's back.
THEOREM StreamsAreWantedHolds == Spec => []StreamsAreWanted
<1>1. Init => RequestsOK /\ StreamInv
  <2>1. NoRequest \in Request /\ NoRequest.phase = "none"
    BY DEF NoRequest, Request, Phases
  <2> QED BY <2>1 DEF Init, RequestsOK, StreamInv, StreamsAreWanted, HeadersOK, Req
<1>2. StreamInv => StreamsAreWanted
  BY DEF StreamInv
<1> QED BY <1>1, <1>2, StreamStep, PTL DEF Spec

-----------------------------------------------------------------------------
(* What runs, and what is pending                                          *)

Waiting == [streaming |-> FALSE, requesting |-> TRUE]

\* The part of TypeOK that is about flags, timers and pending chunks.
FlagsOK ==
  /\ flags \in [streaming : BOOLEAN, requesting : BOOLEAN] /\ shown \in BOOLEAN
  /\ pend \in [gen : Nat, chunks : Seq(Glyph)] /\ timer \in {0, gen}
  /\ saving \in BOOLEAN /\ overwritten \in BOOLEAN

Running(r) ==
  \/ req[r].phase \in {"open", "silent", "await", "sleep"}
  \/ req[r].phase = "headers" /\ req[r].sgen = sgen

\* Pending chunks are those of the newest request, while it streams.
PendInv ==
  /\ pend.gen = gen
  /\ \A j \in 1..Len(pend.chunks) : pend.chunks[j].of = count
  /\ pend.chunks # <<>> => flags.streaming

\* Only the newest request runs, and the flags show it.
RunInv(r) ==
  Running(r) =>
    /\ req[r].gen = gen /\ r = count
    /\ req[r].phase \in {"headers", "await", "sleep"} => flags = Waiting
    /\ req[r].phase \in {"open", "silent"} => flags.streaming
    /\ req[r].phase \in {"await", "sleep"} => abort = r

\* A stream that is done stays of the current generation until the next request.
DoneInv(r) ==
  req[r].phase = "complete" =>
    req[r].gen <= gen /\ (req[r].gen = gen => r = count /\ flags = Idle)

ShownInv == ~shown => flags = Idle /\ queue = <<>>

ControlInv == PendInv /\ (\A r \in Req : RunInv(r) /\ DoneInv(r)) /\ ShownInv

LEMMA FlagValues ==
  /\ Idle \in [streaming : BOOLEAN, requesting : BOOLEAN]
  /\ Waiting \in [streaming : BOOLEAN, requesting : BOOLEAN]
  /\ Idle.streaming = FALSE /\ Waiting.streaming = FALSE /\ Waiting # Idle
BY DEF Idle, Waiting

\* A request that runs keeps the interface generating.
LEMMA RunningIsShown ==
  ASSUME FlagsOK, ControlInv, NEW r \in Req, Running(r)
  PROVE  flags # Idle /\ shown = TRUE
<1>1. req[r].phase \in {"headers", "await", "sleep"} \/ req[r].phase \in {"open", "silent"}
  BY DEF Running
<1>2. flags # Idle
  BY <1>1, FlagValues DEF ControlInv, RunInv
<1>3. shown
  BY <1>2 DEF ControlInv, ShownInv
<1> QED BY <1>2, <1>3 DEF FlagsOK

LEMMA CommitShown ==
  ASSUME NEW q, NEW g, Commit(q, g), flags' \in [streaming : BOOLEAN, requesting : BOOLEAN]
  PROVE  ShownInv' /\ shown' \in BOOLEAN
<1>1. queue' = <<>> /\ shown' = (flags'.streaming \/ flags'.requesting)
  BY DEF Commit
<1>2. ~(flags'.streaming \/ flags'.requesting) => flags' = Idle
  BY DEF Idle
<1> QED BY <1>1, <1>2 DEF ShownInv

LEMMA CommitSaving ==
  ASSUME NEW q, NEW g, Commit(q, g), saving \in BOOLEAN
  PROVE  saving' \in BOOLEAN
BY DEF Commit

\* Nothing of the requests moves.
LEMMA QuietControl ==
  ASSUME RequestsOK, FlagsOK, ControlInv,
         UNCHANGED <<req, count, flags, gen, sgen, abort, pend, timer>>,
         ShownInv', shown' \in BOOLEAN, saving' \in BOOLEAN, overwritten' \in BOOLEAN
  PROVE  FlagsOK' /\ ControlInv'
BY DEF FlagsOK, ControlInv, PendInv, RunInv, DoneInv, Running

LEMMA NothingRuns ==
  ASSUME FlagsOK', \A r \in Req : ~Running(r)', pend' = [gen |-> gen', chunks |-> <<>>],
         \A r \in Req : DoneInv(r)', ShownInv'
  PROVE  ControlInv'
<1>1. PendInv'
  BY DEF PendInv
<1> QED BY <1>1 DEF ControlInv, RunInv

LEMMA NoChunks == ASSUME NEW g \in Nat PROVE [gen |-> g, chunks |-> <<>>] \in [gen : Nat, chunks : Seq(Glyph)]
OBVIOUS

LEMMA StopControl ==
  ASSUME RequestsOK, StreamInv, FlagsOK, ControlInv, StopGeneration
  PROVE  FlagsOK' /\ ControlInv'
<1>1. /\ count' = count /\ gen' = gen + 1 /\ sgen' = sgen + 1 /\ abort' = 0 /\ flags' = Idle
      /\ pend' = [gen |-> gen', chunks |-> <<>>] /\ timer' = 0 /\ overwritten' = overwritten
      /\ gen' \in Nat
  BY DEF StopGeneration, discardPendingStreamUpdates, RequestsOK
<1>2. \E q : Commit(q, gen')
  BY DEF StopGeneration
<1>3. ShownInv' /\ shown' \in BOOLEAN /\ saving' \in BOOLEAN
  BY <1>1, <1>2, CommitShown, CommitSaving, FlagValues DEF FlagsOK
<1>4. FlagsOK'
  BY <1>1, <1>3, FlagValues, NoChunks DEF FlagsOK
<1> DEFINE left == Abandon({source, abort} \ {0})
<1>5. /\ \A q \in Req : left[q].phase = "ended" \/ left[q] = req[q]
      /\ \A q \in Req : q \in {source, abort} => left[q].phase = "ended"
  BY Abandoned DEF RequestsOK, Req
<1> HIDE DEF left
<1>6. req' = left
  BY DEF StopGeneration, left
<1>7. \A r \in Req : ~Running(r)'
  <2> TAKE r \in Req
  <2>0. req[r].sgen \in Nat /\ sgen \in Nat
    BY DEF RequestsOK, Request
  <2>1. CASE r \in {source, abort}
    BY <1>5, <1>6, <2>1 DEF Running
  <2>2. CASE r \notin {source, abort}
    <3>1. req[r].phase \notin {"open", "silent", "await", "sleep"}
      BY <2>2 DEF StreamInv, StreamsAreWanted, ControlInv, RunInv, Running
    <3>2. req[r].phase = "headers" => req[r].sgen < sgen'
      BY <1>1, <2>0 DEF StreamInv, HeadersOK
    <3> QED BY <1>1, <1>5, <1>6, <2>0, <3>1, <3>2 DEF Running
  <2> QED BY <2>1, <2>2
<1>8. \A r \in Req : DoneInv(r)'
  <2> TAKE r \in Req
  <2>0. req[r].gen \in Nat /\ gen \in Nat
    BY DEF RequestsOK, Request
  <2> QED BY <1>1, <1>5, <1>6, <2>0 DEF ControlInv, DoneInv
<1>9. ControlInv'
  BY <1>1, <1>3, <1>4, <1>7, <1>8, NothingRuns
<1> QED BY <1>4, <1>9

LEMMA ReopenControl ==
  ASSUME RequestsOK, FlagsOK, NEW ms, Reopen(ms)
  PROVE  FlagsOK' /\ ControlInv'
<1>1. /\ count' = count /\ gen' = 0 /\ sgen' = 0 /\ abort' = 0 /\ flags' = Idle /\ shown' = FALSE
      /\ pend' = [gen |-> gen', chunks |-> <<>>] /\ timer' = 0 /\ overwritten' = overwritten
      /\ saving' = FALSE /\ queue' = <<>>
  BY DEF Reopen
<1>4. FlagsOK'
  BY <1>1, FlagValues, NoChunks DEF FlagsOK
<1>5. \A q \in Req : req'[q].phase \in {"ended", "none"}
  <2> DEFINE rs == {r \in Req : req[r].phase # "none"}
  <2>1. \A q \in Req : q \in rs <=> req[q].phase # "none"
    OBVIOUS
  <2> HIDE DEF rs
  <2>2. req' = Abandon(rs)
    BY DEF rs, Reopen
  <2>3. (\A q \in Req : Abandon(rs)[q] = IF q \in rs THEN Ended ELSE req[q]) /\ Ended.phase = "ended"
    BY Abandoned
  <2> QED BY <2>1, <2>2, <2>3
<1>6. \A r \in Req : ~Running(r)' /\ DoneInv(r)'
  BY <1>5 DEF Running, DoneInv
<1>7. ShownInv'
  BY <1>1 DEF ShownInv
<1>9. ControlInv'
  BY <1>1, <1>4, <1>6, <1>7, NothingRuns
<1> QED BY <1>4, <1>9

LEMMA SendControl ==
  ASSUME RequestsOK, StreamInv, FlagsOK, ControlInv, NEW kind \in Kind, NEW q, count < MaxSends,
         count' = count + 1, sendChat(count', kind), Commit(q, gen'), UNCHANGED overwritten
  PROVE  FlagsOK' /\ ControlInv'
<1> DEFINE r == count + 1
           new == [kind |-> kind, gen |-> gen', sgen |-> sgen', text |-> <<>>,
                   phase |-> IF kind \in Streams THEN "headers" ELSE "await"]
           old == Abandon({source, abort} \ {0})
<1>1. /\ r \in Req /\ count' = r /\ gen' = gen + 1 /\ sgen' = sgen + 1 /\ flags' = Waiting
      /\ pend' = [gen |-> gen', chunks |-> <<>>] /\ timer' = 0 /\ gen' \in Nat
      /\ abort' = IF kind \in Streams THEN 0 ELSE r
      /\ req' = [old EXCEPT ![r] = new]
  BY DEF sendChat, discardPendingStreamUpdates, RequestsOK, Req, Waiting
<1>2. /\ new.gen = gen' /\ new.phase = IF kind \in Streams THEN "headers" ELSE "await"
  OBVIOUS
<1>3. /\ old \in [Req -> Request]
      /\ \A p \in Req : old[p].phase = "ended" \/ old[p] = req[p]
      /\ \A p \in Req : p \in {source, abort} => old[p].phase = "ended"
  BY Abandoned DEF RequestsOK, Req
<1> HIDE DEF new, old
<1>4. req'[r] = new /\ \A p \in Req \ {r} : req'[p] = old[p]
  BY <1>1, <1>3
<1>5. ShownInv' /\ shown' \in BOOLEAN /\ saving' \in BOOLEAN
  BY <1>1, CommitShown, CommitSaving, FlagValues DEF FlagsOK
<1>6. FlagsOK'
  BY <1>1, <1>5, FlagValues, NoChunks DEF FlagsOK
<1>7. PendInv'
  BY <1>1 DEF PendInv
<1>8. \A p \in Req \ {r} : ~Running(p)'
  <2> TAKE p \in Req \ {r}
  <2>0. req[p].sgen \in Nat /\ sgen \in Nat
    BY DEF RequestsOK, Request
  <2>1. CASE p \in {source, abort}
    BY <1>3, <1>4, <2>1 DEF Running
  <2>2. CASE p \notin {source, abort}
    <3>1. req[p].phase \notin {"open", "silent", "await", "sleep"}
      BY <2>2 DEF StreamInv, StreamsAreWanted, ControlInv, RunInv, Running
    <3>2. req[p].phase = "headers" => req[p].sgen < sgen'
      BY <1>1, <2>0 DEF StreamInv, HeadersOK
    <3> QED BY <1>1, <1>3, <1>4, <2>0, <3>1, <3>2 DEF Running
  <2> QED BY <2>1, <2>2
<1>9. \A p \in Req : p = r => RunInv(p)' /\ DoneInv(p)'
  BY <1>1, <1>2, <1>4 DEF RunInv, DoneInv
<1>10. \A p \in Req \ {r} : DoneInv(p)'
  <2> TAKE p \in Req \ {r}
  <2>0. req[p].gen \in Nat /\ gen \in Nat
    BY DEF RequestsOK, Request
  <2> QED BY <1>1, <1>3, <1>4, <2>0 DEF ControlInv, DoneInv
<1> QED BY <1>5, <1>6, <1>7, <1>8, <1>9, <1>10 DEF ControlInv, RunInv

\* The request that runs is the only one.
LEMMA OneRuns ==
  ASSUME ControlInv, NEW r \in Req, Running(r)
  PROVE  \A q \in Req : Running(q) => q = r
BY DEF ControlInv, RunInv

\* A request that ran ends or is done; the flags fall.
LEMMA SettledControl ==
  ASSUME RequestsOK, FlagsOK, ControlInv, NEW r \in Req, Running(r),
         UNCHANGED <<count, gen, sgen, shown, overwritten>>, saving' \in BOOLEAN,
         pend' = [gen |-> gen', chunks |-> <<>>], timer' \in {0, timer}, flags' = Idle,
         \A q \in Req \ {r} : req'[q] = req[q],
         req'[r].phase = "ended" \/ (req'[r].phase = "complete" /\ req'[r].gen = req[r].gen)
  PROVE  FlagsOK' /\ ControlInv'
<1>1. FlagsOK'
  BY FlagValues, NoChunks DEF FlagsOK, RequestsOK
<1>2. \A q \in Req : ~Running(q)'
  <2>1. \A q \in Req \ {r} : ~Running(q)
    BY OneRuns
  <2> QED BY <2>1 DEF Running
<1>3. \A q \in Req : DoneInv(q)'
  <2>1. req[r].gen = gen /\ r = count /\ gen \in Nat
    BY DEF ControlInv, RunInv, RequestsOK
  <2> QED BY <2>1 DEF ControlInv, DoneInv
<1>4. ShownInv'
  BY RunningIsShown DEF ShownInv
<1> QED BY <1>1, <1>2, <1>3, <1>4, NothingRuns

LEMMA HeadersControl ==
  ASSUME RequestsOK, StreamInv, FlagsOK, ControlInv, NEW r \in Req, Headers(r)
  PROVE  FlagsOK' /\ ControlInv'
<1>0. /\ req[r].phase = "headers"
      /\ UNCHANGED <<queue, saving, shown, count, gen, sgen, abort, pend, timer, overwritten>>
  BY DEF Headers, view
<1>1. CASE req[r].sgen # sgen
  <2>1. Ends(r) /\ flags' = flags
    BY <1>1 DEF Headers
  <2>2. req'[r].phase = "ended" /\ \A q \in Req \ {r} : req'[q] = req[q]
    BY <2>1, Abandoned DEF Ends
  <2>3. FlagsOK'
    BY <1>0, <2>1 DEF FlagsOK
  <2>4. PendInv' /\ ShownInv'
    BY <1>0, <2>1 DEF ControlInv, PendInv, ShownInv
  <2>5. \A q \in Req : RunInv(q)' /\ DoneInv(q)'
    BY <1>0, <2>1, <2>2 DEF ControlInv, RunInv, DoneInv, Running
  <2> QED BY <2>3, <2>4, <2>5 DEF ControlInv
<1>2. CASE req[r].sgen = sgen
  <2>1. Moves(r, "open") /\ flags' = [flags EXCEPT !.streaming = TRUE]
    BY <1>2 DEF Headers
  <2>2. /\ req'[r].phase = "open" /\ req'[r].gen = req[r].gen
        /\ \A q \in Req \ {r} : req'[q] = req[q]
    BY <2>1, PhaseMoved DEF Phases
  <2>3. Running(r)
    BY <1>0, <1>2 DEF Running
  <2>4. flags' \in [streaming : BOOLEAN, requesting : BOOLEAN] /\ flags'.streaming
    BY <2>1 DEF FlagsOK
  <2>5. FlagsOK'
    BY <1>0, <2>4 DEF FlagsOK
  <2>6. PendInv' /\ ShownInv'
    BY <1>0, <2>3, <2>4, RunningIsShown DEF ControlInv, PendInv, ShownInv
  <2>7. \A q \in Req : RunInv(q)'
    <3>1. req[r].gen = gen /\ r = count
      BY <2>3 DEF ControlInv, RunInv
    <3>2. \A q \in Req \ {r} : ~Running(q)'
      BY <1>0, <2>2, <2>3, OneRuns DEF Running
    <3> QED BY <1>0, <2>2, <2>4, <3>1, <3>2 DEF RunInv
  <2>8. \A q \in Req : DoneInv(q)'
    <3>1. r = count /\ flags # Idle
      BY <2>3, RunningIsShown DEF ControlInv, RunInv
    <3> QED BY <1>0, <2>2, <3>1 DEF ControlInv, DoneInv
  <2> QED BY <2>5, <2>6, <2>7, <2>8 DEF ControlInv
<1> QED BY <1>1, <1>2

\* What Settle does with the chunks of the current generation.
LEMMA SettlePends ==
  ASSUME FlagsOK, ControlInv, NEW g, g = gen, NEW us, Settle(g, us)
  PROVE  /\ pend' = [gen |-> gen, chunks |-> <<>>] /\ timer' = 0
         /\ Enqueue(FlushUpdate(g) \o us) /\ messages' = messages
<1>1. /\ pend' = [pend EXCEPT !.chunks = IF pend.gen = g THEN <<>> ELSE @] /\ timer' = 0
      /\ Enqueue(FlushUpdate(g) \o us) /\ messages' = messages
  BY DEF Settle
<1>2. pend.gen = gen /\ pend \in [gen : Nat, chunks : Seq(Glyph)]
  BY DEF ControlInv, PendInv, FlagsOK
<1>3. pend' = [pend EXCEPT !.chunks = <<>>]
  BY <1>1, <1>2
<1>4. pend' = [gen |-> gen, chunks |-> <<>>]
  BY <1>2, <1>3
<1> QED BY <1>1, <1>4

LEMMA EnqueueSaves == ASSUME NEW us, Enqueue(us), saving \in BOOLEAN PROVE saving' \in BOOLEAN
BY DEF Enqueue

\* The last update of request r: an answer of the current generation.
Final(u, r) ==
  \/ u \in [op : {"complete", "error"}, gen : {gen}]
  \/ u \in [op : {"response", "video"}, gen : {gen}, r : {r}]

\* The text of request r stays as it is.
SameText(r) == req'[r].kind = req[r].kind /\ req'[r].text = req[r].text

\* Request r, which runs, settles with the update u.
Settles(r, u) ==
  /\ Running(r) /\ Final(u, r)
  /\ UNCHANGED <<messages, count, gen, sgen, shown, saved, overwritten>>
  /\ flags' = Idle /\ pend' = [gen |-> gen, chunks |-> <<>>] /\ timer' \in {0, timer}
  /\ Enqueue(FlushUpdate(gen) \o <<u>>)
  /\ \A q \in Req \ {r} : req'[q] = req[q]
  /\ \/ req'[r].phase = "ended"
     \/ /\ req'[r].phase = "complete" /\ req'[r].gen = req[r].gen /\ SameText(r)
        /\ u.op = "complete" /\ req[r].phase = "open"

LEMMA FlagsFall ==
  ASSUME FlagsOK, flags = Waiting, flags' = [flags EXCEPT !.requesting = FALSE]
  PROVE  flags' = Idle
BY DEF Waiting, Idle

LEMMA MovesText == ASSUME RequestsOK, NEW r \in Req, NEW ph, Moves(r, ph) PROVE SameText(r)
BY DEF Moves, RequestsOK, Request, SameText

LEMMA EndsPhase ==
  ASSUME RequestsOK, NEW r \in Req, Ends(r)
  PROVE  req'[r].phase = "ended" /\ \A q \in Req \ {r} : req'[q] = req[q]
BY Abandoned DEF Ends

\* Every answer that is not of a stream stopped before its headers came.
LEMMA AnswersSettle ==
  ASSUME RequestsOK, StreamInv, FlagsOK, ControlInv, NEW r \in Req,
         \/ HeadersFail(r) /\ req[r].sgen = sgen
         \/ StreamDone(r) \/ StreamError(r) \/ Answer(r) \/ AnswerFails(r)
  PROVE  \E u : Settles(r, u)
<1>1. CASE HeadersFail(r) /\ req[r].sgen = sgen
  <2>1. /\ req[r].phase = "headers" /\ Ends(r)
        /\ Settle(req[r].gen, <<[op |-> "error", gen |-> req[r].gen]>>)
        /\ flags' = [flags EXCEPT !.requesting = Requested(req[r].gen)]
        /\ UNCHANGED <<gen, sgen, shown, count, saved, overwritten>>
    BY <1>1 DEF HeadersFail
  <2>2. Running(r)
    BY <1>1, <2>1 DEF Running
  <2>3. req[r].gen = gen /\ flags = Waiting
    BY <2>1, <2>2 DEF ControlInv, RunInv
  <2>4. flags' = Idle
    BY <2>1, <2>3, FlagsFall DEF Requested
  <2> DEFINE u == [op |-> "error", gen |-> gen]
  <2>5. Settle(gen, <<u>>) /\ Final(u, r)
    BY <2>1, <2>3 DEF Final
  <2> HIDE DEF u
  <2>6. Settles(r, u)
    BY <2>1, <2>2, <2>4, <2>5, EndsPhase, SettlePends DEF Settles
  <2> QED BY <2>6
<1>2. ASSUME NEW ph \in {"complete", "ended"}, NEW u \in [op : {"complete", "error"}, gen : {req[r].gen}],
             StreamEnds(r, ph, <<u>>), ph = "complete" => u.op = "complete"
      PROVE  Settles(r, u)
  <2>1. /\ req[r].phase = "open" /\ (IF ph = "ended" THEN Ends(r) ELSE Moves(r, ph))
        /\ Settle(req[r].gen, <<u>>)
        /\ flags' = [streaming |-> FALSE, requesting |-> Requested(req[r].gen)]
        /\ UNCHANGED <<gen, sgen, shown, count, saved, overwritten>>
    BY <1>2 DEF StreamEnds
  <2>2. Running(r)
    BY <2>1 DEF Running
  <2>3. req[r].gen = gen
    BY <2>2 DEF ControlInv, RunInv
  <2>4. flags' = Idle
    BY <2>1, <2>3 DEF Requested, Idle
  <2>5. Settle(gen, <<u>>) /\ Final(u, r)
    BY <2>1, <2>3, <1>2 DEF Final
  <2>6. /\ \A q \in Req \ {r} : req'[q] = req[q]
        /\ \/ req'[r].phase = "ended"
           \/ req'[r].phase = "complete" /\ req'[r].gen = req[r].gen /\ SameText(r)
              /\ u.op = "complete" /\ req[r].phase = "open"
    <3>1. CASE ph = "ended"
      BY <2>1, <3>1, EndsPhase
    <3>2. CASE ph = "complete"
      <4>1. Moves(r, "complete")
        BY <2>1, <3>2
      <4>2. SameText(r)
        BY <4>1, MovesText
      <4>3. /\ req'[r].phase = "complete" /\ req'[r].gen = req[r].gen
            /\ \A q \in Req \ {r} : req'[q] = req[q]
        BY <4>1, PhaseMoved DEF Phases
      <4> QED BY <1>2, <2>1, <3>2, <4>2, <4>3
    <3> QED BY <3>1, <3>2
  <2> QED BY <2>1, <2>2, <2>4, <2>5, <2>6, SettlePends DEF Settles
<1>3. CASE StreamDone(r)
  <2>1. StreamEnds(r, "complete", <<[op |-> "complete", gen |-> req[r].gen]>>)
    BY <1>3 DEF StreamDone
  <2> QED BY <1>2, <2>1
<1>4. CASE StreamError(r)
  <2>1. StreamEnds(r, "ended", <<[op |-> "error", gen |-> req[r].gen]>>)
    BY <1>4 DEF StreamError
  <2> QED BY <1>2, <2>1
<1>5. CASE Answer(r)
  <2>1. /\ req[r].phase = "await" /\ Ends(r) /\ Finally(r)
        /\ UNCHANGED <<messages, gen, sgen, shown, count, pend, timer, saved, overwritten>>
    BY <1>5 DEF Answer
  <2>2. Running(r)
    BY <2>1 DEF Running
  <2>3. req[r].gen = gen /\ flags = Waiting
    BY <2>1, <2>2 DEF ControlInv, RunInv
  <2>4. flags' = Idle
    BY <2>1, <2>3, FlagsFall DEF Requested, Finally
  <2> DEFINE u == [op |-> IF req[r].kind = "chat" THEN "response" ELSE "video", gen |-> gen, r |-> r]
  <2>5. Enqueue(<<u>>) /\ Final(u, r)
    <3>1. Enqueue(<<u>>)
      BY <1>5, <2>3 DEF Answer
    <3>2. u \in [op : {"response", "video"}, gen : {gen}, r : {r}]
      OBVIOUS
    <3> QED BY <3>1, <3>2 DEF Final
  <2>6. pend.chunks = <<>>
    BY <2>3, FlagValues DEF ControlInv, PendInv
  <2>7. pend' = [gen |-> gen, chunks |-> <<>>]
    BY <2>1, <2>6 DEF ControlInv, PendInv, FlagsOK
  <2>8. FlushUpdate(gen) \o <<u>> = <<u>>
    <3>1. FlushUpdate(gen) = <<>>
      BY <2>6 DEF FlushUpdate
    <3> HIDE DEF u
    <3>2. <<u>> \in Seq({u})
      OBVIOUS
    <3> QED BY <3>1, <3>2
  <2> HIDE DEF u
  <2>9. Settles(r, u)
    BY <2>1, <2>2, <2>4, <2>5, <2>7, <2>8, EndsPhase DEF Settles
  <2> QED BY <2>9
<1>6. CASE AnswerFails(r)
  <2>1. /\ req[r].phase = "await" /\ Ends(r) /\ Finally(r)
        /\ Settle(req[r].gen, <<[op |-> "error", gen |-> req[r].gen]>>)
        /\ UNCHANGED <<gen, sgen, shown, count, saved, overwritten>>
    BY <1>6 DEF AnswerFails
  <2>2. Running(r)
    BY <2>1 DEF Running
  <2>3. req[r].gen = gen /\ flags = Waiting
    BY <2>1, <2>2 DEF ControlInv, RunInv
  <2>4. flags' = Idle
    BY <2>1, <2>3, FlagsFall DEF Requested, Finally
  <2> DEFINE u == [op |-> "error", gen |-> gen]
  <2>5. Settle(gen, <<u>>) /\ Final(u, r)
    BY <2>1, <2>3 DEF Final
  <2> HIDE DEF u
  <2>6. Settles(r, u)
    BY <2>1, <2>2, <2>4, <2>5, EndsPhase, SettlePends DEF Settles
  <2> QED BY <2>6
<1> QED BY <1>1, <1>3, <1>4, <1>5, <1>6

LEMMA SettlesControl ==
  ASSUME RequestsOK, FlagsOK, ControlInv, NEW r \in Req, NEW u, Settles(r, u)
  PROVE  FlagsOK' /\ ControlInv'
<1>1. saving' \in BOOLEAN
  BY EnqueueSaves DEF Settles, FlagsOK
<1>2. gen' = gen
  BY DEF Settles
<1> QED BY <1>1, <1>2, SettledControl DEF Settles

\* A step of the running request r that keeps it running.
LEMMA StillRuns ==
  ASSUME RequestsOK, FlagsOK, ControlInv, NEW r \in Req, Running(r), FlagsOK', PendInv',
         UNCHANGED <<queue, shown, count, flags, gen, sgen, abort>>,
         \A q \in Req \ {r} : req'[q] = req[q], req'[r].gen = req[r].gen,
         \/ {req[r].phase, req'[r].phase} \subseteq {"open", "silent"}
         \/ {req[r].phase, req'[r].phase} \subseteq {"await", "sleep"}
  PROVE  ControlInv'
<1>1. RunInv(r)' /\ DoneInv(r)'
  BY DEF ControlInv, RunInv, Running, DoneInv
<1>2. \A q \in Req \ {r} : RunInv(q)' /\ DoneInv(q)'
  BY DEF ControlInv, RunInv, Running, DoneInv
<1>3. ShownInv'
  BY DEF ControlInv, ShownInv
<1> QED BY <1>1, <1>2, <1>3 DEF ControlInv

\* The chunk that makes the text of request r grow by c, and the pending text then.
NewChunk(r, c) == Chunk(r, IF req[r].kind = "snapshots" THEN Append(req[r].text, c) ELSE <<c>>)
PendingWith(r, c) == mergePendingStreamChunk(pend.chunks, NewChunk(r, c))

LEMMA ChunkOf ==
  ASSUME NEW r \in Req, NEW cs \in Seq(Char)
  PROVE  /\ Chunk(r, cs) \in Seq(Glyph) /\ Len(Chunk(r, cs)) = Len(cs)
         /\ \A j \in 1..Len(cs) : Chunk(r, cs)[j].of = r /\ Chunk(r, cs)[j].c = cs[j]
<1> DEFINE ch == Chunk(r, cs)
<1>1. \A j \in 1..Len(cs) : cs[j] \in Char
  OBVIOUS
<1>2. \A j \in 1..Len(cs) : [of |-> r, c |-> cs[j]] \in Glyph
  BY <1>1 DEF Glyph, Req
<1>3. ch \in [1..Len(cs) -> Glyph] /\ \A j \in 1..Len(cs) : ch[j].of = r /\ ch[j].c = cs[j]
  BY <1>2 DEF Chunk
<1> HIDE DEF ch
<1>4. ch \in Seq(Glyph) /\ Len(ch) = Len(cs)
  BY <1>3
<1> QED BY <1>3, <1>4 DEF ch

LEMMA NewChunkOf ==
  ASSUME RequestsOK, NEW r \in Req, NEW c \in Char
  PROVE  /\ NewChunk(r, c) \in Seq(Glyph)
         /\ \A j \in 1..Len(NewChunk(r, c)) : NewChunk(r, c)[j].of = r
<1>1. req[r].text \in Seq(Char)
  BY DEF RequestsOK, Request
<1> DEFINE cs == IF req[r].kind = "snapshots" THEN Append(req[r].text, c) ELSE <<c>>
<1>2. cs \in Seq(Char)
  BY <1>1
<1>3. NewChunk(r, c) = Chunk(r, cs)
  BY DEF NewChunk
<1> HIDE DEF cs
<1>4. /\ Chunk(r, cs) \in Seq(Glyph) /\ Len(Chunk(r, cs)) = Len(cs)
      /\ \A j \in 1..Len(cs) : Chunk(r, cs)[j].of = r
  BY <1>2, ChunkOf
<1> QED BY <1>3, <1>4

LEMMA ReceivedOf ==
  ASSUME RequestsOK, FlagsOK, ControlInv, NEW r \in Req, r = count, NEW c \in Char
  PROVE  LET cs == PendingWith(r, c) IN cs \in Seq(Glyph) /\ \A j \in 1..Len(cs) : cs[j].of = count
<1> DEFINE p == pend.chunks
           d == NewChunk(r, c)
           cs == PendingWith(r, c)
<1>1. p \in Seq(Glyph) /\ \A j \in 1..Len(p) : p[j].of = count
  BY DEF FlagsOK, ControlInv, PendInv
<1>2. d \in Seq(Glyph) /\ \A j \in 1..Len(d) : d[j].of = count
  BY NewChunkOf
<1>3. cs = d \/ cs = p \o d
  BY DEF PendingWith, mergePendingStreamChunk
<1> HIDE DEF p, d, cs
<1>4. /\ p \o d \in Seq(Glyph) /\ Len(p \o d) = Len(p) + Len(d) /\ Len(p) \in Nat /\ Len(d) \in Nat
      /\ \A j \in 1..Len(p) + Len(d) : (p \o d)[j] = IF j <= Len(p) THEN p[j] ELSE d[j - Len(p)]
  BY <1>1, <1>2, ConcatProperties
<1>5. \A j \in 1..Len(p) + Len(d) : j \in 1..Len(p) \/ (~(j <= Len(p)) /\ j - Len(p) \in 1..Len(d))
  BY <1>4
<1>6. \A j \in 1..Len(p \o d) : (p \o d)[j].of = count
  BY <1>1, <1>2, <1>4, <1>5
<1> QED BY <1>2, <1>3, <1>4, <1>6 DEF cs

LEMMA ChunkControl ==
  ASSUME RequestsOK, StreamInv, FlagsOK, ControlInv, NEW r \in Req, NEW c \in Char, StreamChunk(r, c)
  PROVE  /\ FlagsOK' /\ ControlInv'
         /\ Running(r) /\ req[r].phase = "open" /\ req'[r].phase = "open"
         /\ req'[r].kind = req[r].kind /\ req'[r].text = Append(req[r].text, c) /\ req'[r].gen = req[r].gen
         /\ \A q \in Req \ {r} : req'[q] = req[q]
         /\ pend' = [gen |-> gen, chunks |-> PendingWith(r, c)]
<1> DEFINE new == [req[r] EXCEPT !.text = Append(@, c)]
<1>1. /\ req[r].phase = "open" /\ req' = [req EXCEPT ![r] = new]
      /\ UNCHANGED <<queue, saving, shown, count, flags, gen, sgen, abort, overwritten>>
  BY DEF StreamChunk, view
<1>2. Running(r)
  BY <1>1 DEF Running
<1>3. req[r].gen = gen /\ r = count /\ flags.streaming /\ pend.gen = gen
  BY <1>1, <1>2 DEF ControlInv, RunInv, PendInv
<1> DEFINE cs == PendingWith(r, c)
<1>4. pend' = [pend EXCEPT !.chunks = cs] /\ timer' = IF timer = 0 THEN gen ELSE timer
  BY <1>3 DEF StreamChunk, PendingWith, NewChunk
<1>5. pend.chunks \in Seq(Glyph) /\ pend.gen \in Nat
  BY DEF FlagsOK
<1>6. cs \in Seq(Glyph) /\ \A j \in 1..Len(cs) : cs[j].of = count
  BY <1>3, ReceivedOf
<1>7. pend' = [gen |-> gen, chunks |-> cs]
  <2> HIDE DEF cs
  <2> QED BY <1>3, <1>4, <1>5 DEF FlagsOK
<1> HIDE DEF cs
<1>8. pend' \in [gen : Nat, chunks : Seq(Glyph)] /\ pend'.gen = gen /\ pend'.chunks = cs
  BY <1>6, <1>7 DEF RequestsOK
<1>9. FlagsOK'
  BY <1>1, <1>4, <1>8 DEF FlagsOK
<1>10. PendInv'
  BY <1>1, <1>3, <1>6, <1>8 DEF PendInv
<1>11. req[r] \in Request
  BY DEF RequestsOK
<1>12. /\ req'[r].kind = req[r].kind /\ req'[r].text = Append(req[r].text, c)
       /\ req'[r].gen = req[r].gen /\ req'[r].phase = "open"
       /\ \A q \in Req \ {r} : req'[q] = req[q]
  <2>1. new.kind = req[r].kind /\ new.text = Append(req[r].text, c) /\ new.gen = req[r].gen /\ new.phase = "open"
    BY <1>1, <1>11 DEF Request
  <2> HIDE DEF new
  <2> QED BY <1>1, <2>1 DEF RequestsOK
<1>13. ControlInv'
  BY <1>1, <1>2, <1>9, <1>10, <1>12, StillRuns
<1> QED BY <1>1, <1>2, <1>7, <1>9, <1>12, <1>13 DEF cs

\* The other steps of a running request that leave the messages alone.
LEMMA MovesControl ==
  ASSUME RequestsOK, StreamInv, FlagsOK, ControlInv, NEW r \in Req,
         StreamSilent(r) \/ VideoPending(r) \/ PollVideo(r)
  PROVE  /\ FlagsOK' /\ ControlInv'
         /\ Running(r) /\ \A q \in Req \ {r} : req'[q] = req[q]
         /\ \/ req[r].phase = "open" /\ req'[r].phase = "silent" /\ SameText(r)
            \/ {req[r].phase, req'[r].phase} \subseteq {"await", "sleep"}
<1>1. UNCHANGED <<view, chat, shown, count, overwritten>>
  BY DEF StreamSilent, VideoPending, PollVideo
<1>2. FlagsOK' /\ PendInv'
  BY <1>1 DEF FlagsOK, PendInv, ControlInv, view, chat
<1>3. /\ Running(r) /\ req'[r].gen = req[r].gen
      /\ \A q \in Req \ {r} : req'[q] = req[q]
      /\ \/ req[r].phase = "open" /\ req'[r].phase = "silent" /\ SameText(r)
         \/ {req[r].phase, req'[r].phase} \subseteq {"await", "sleep"}
  <2>1. CASE StreamSilent(r)
    <3>1. req[r].phase = "open" /\ Moves(r, "silent")
      BY <2>1 DEF StreamSilent
    <3>2. SameText(r)
      BY <3>1, MovesText
    <3>3. /\ req'[r].phase = "silent" /\ req'[r].gen = req[r].gen
          /\ \A q \in Req \ {r} : req'[q] = req[q]
      BY <3>1, PhaseMoved DEF Phases
    <3> QED BY <3>1, <3>2, <3>3 DEF Running
  <2>2. CASE VideoPending(r) \/ PollVideo(r)
    <3>1. PICK ph \in {"await", "sleep"} : Moves(r, ph)
      BY <2>2 DEF VideoPending, PollVideo
    <3>2. req[r].phase \in {"await", "sleep"}
      BY <2>2 DEF VideoPending, PollVideo
    <3> QED BY <3>1, <3>2, PhaseMoved DEF Phases, Running
  <2> QED BY <2>1, <2>2
<1>4. UNCHANGED <<queue, shown, count, flags, gen, sgen, abort>>
  BY <1>1 DEF view, chat
<1>5. ControlInv'
  BY <1>2, <1>3, <1>4, StillRuns
<1> QED BY <1>2, <1>3, <1>5

\* The headers of a stream that was stopped fail.
LEMMA LateFailControl ==
  ASSUME RequestsOK, StreamInv, FlagsOK, ControlInv, NEW r \in Req, HeadersFail(r), req[r].sgen # sgen
  PROVE  FlagsOK' /\ ControlInv'
<1>1. /\ req[r].phase = "headers" /\ Ends(r) /\ UNCHANGED <<view, chat, shown, count, overwritten>>
  BY DEF HeadersFail
<1>2. req'[r].phase = "ended" /\ \A q \in Req \ {r} : req'[q] = req[q]
  BY <1>1, EndsPhase
<1>3. FlagsOK' /\ PendInv' /\ ShownInv'
  BY <1>1 DEF FlagsOK, PendInv, ShownInv, ControlInv, view, chat
<1>4. \A q \in Req : RunInv(q)' /\ DoneInv(q)'
  BY <1>1, <1>2 DEF ControlInv, RunInv, DoneInv, Running, chat
<1> QED BY <1>3, <1>4 DEF ControlInv

\* The flush timer: chunks are pending only while the newest request streams.
LEMMA FlushControl ==
  ASSUME RequestsOK, FlagsOK, ControlInv, FlushTimer
  PROVE  /\ FlagsOK' /\ ControlInv'
         /\ \/ /\ pend.chunks # <<>> /\ flags.streaming /\ pend' = [gen |-> gen, chunks |-> <<>>]
               /\ Enqueue(<<[op |-> "flush", gen |-> gen, chunks |-> pend.chunks]>>)
            \/ UNCHANGED <<queue, latest, pend>>
<1>1. /\ timer' = 0
      /\ UNCHANGED <<messages, shown, req, count, flags, gen, sgen, abort, overwritten>>
  BY DEF FlushTimer
<1>2. CASE timer = gen /\ FlushUpdate(gen) # <<>>
  <2>1. pend.chunks # <<>> /\ FlushUpdate(gen) = <<[op |-> "flush", gen |-> gen, chunks |-> pend.chunks]>>
    BY <1>2 DEF FlushUpdate
  <2>2. Enqueue(FlushUpdate(gen)) /\ pend' = [pend EXCEPT !.chunks = <<>>]
    BY <1>2 DEF FlushTimer
  <2>3. flags.streaming /\ pend.gen = gen
    BY <2>1 DEF ControlInv, PendInv
  <2>4. pend' = [gen |-> gen, chunks |-> <<>>]
    BY <2>2, <2>3 DEF FlagsOK
  <2>5. FlagsOK'
    BY <1>1, <2>2, <2>4, EnqueueSaves, NoChunks DEF FlagsOK, RequestsOK
  <2>6. PendInv'
    BY <1>1, <2>4 DEF PendInv
  <2>7. ShownInv'
    BY <1>1, <2>3, FlagValues DEF ControlInv, ShownInv
  <2>8. \A q \in Req : RunInv(q)' /\ DoneInv(q)'
    BY <1>1 DEF ControlInv, RunInv, DoneInv, Running
  <2> QED BY <2>1, <2>2, <2>3, <2>4, <2>5, <2>6, <2>7, <2>8 DEF ControlInv
<1>3. CASE ~(timer = gen /\ FlushUpdate(gen) # <<>>)
  <2>1. UNCHANGED <<queue, latest, saving, pend>>
    BY <1>3 DEF FlushTimer
  <2> QED BY <1>1, <2>1 DEF FlagsOK, ControlInv, PendInv, RunInv, DoneInv, Running, ShownInv
<1> QED BY <1>2, <1>3

LEMMA ControlStep ==
  ASSUME RequestsOK, StreamInv, FlagsOK, ControlInv, [Next]_vars
  PROVE  FlagsOK' /\ ControlInv'
<1>0. flags \in [streaming : BOOLEAN, requesting : BOOLEAN] /\ saving \in BOOLEAN /\ overwritten \in BOOLEAN
  BY DEF FlagsOK
<1>1. ASSUME NEW q, NEW g, Commit(q, g),
             UNCHANGED <<req, count, flags, gen, sgen, abort, pend, timer>>, overwritten' \in BOOLEAN
      PROVE  FlagsOK' /\ ControlInv'
  BY <1>0, <1>1, CommitShown, CommitSaving, QuietControl
<1>2. CASE Render
  <2>1. Commit(queue, gen) /\ UNCHANGED <<req, count, chat, overwritten>>
    BY <1>2 DEF Render
  <2> QED BY <1>0, <1>1, <2>1 DEF chat
<1>3. CASE Save \/ CancelEdit \/ (\E i \in DOMAIN messages : EditMessage(i)) \/ UNCHANGED vars
  <2>1. /\ UNCHANGED <<req, count, chat, queue, shown, overwritten>> /\ saving' \in BOOLEAN
    BY <1>0, <1>3 DEF Save, CancelEdit, EditMessage, vars, view
  <2>2. ShownInv' /\ shown' \in BOOLEAN
    BY <2>1 DEF ControlInv, ShownInv, FlagsOK, chat
  <2> QED BY <1>0, <2>1, <2>2, QuietControl DEF chat
<1>4. ASSUME NEW i \in DOMAIN messages, SaveEdit(i) PROVE FlagsOK' /\ ControlInv'
  <2>1. Commit(Append(queue, Set(Edited(i))), gen) /\ UNCHANGED <<req, count, chat>> /\ overwritten' \in BOOLEAN
    BY <1>4 DEF SaveEdit
  <2> QED BY <1>1, <2>1 DEF chat
<1>5. ASSUME NEW i \in DOMAIN messages, DeleteMessage(i) PROVE FlagsOK' /\ ControlInv'
  <2>1. /\ Commit(Append(queue, [op |-> "remove", key |-> Key(messages[i])]), gen)
        /\ UNCHANGED <<req, count, chat, overwritten>>
    BY <1>5 DEF DeleteMessage
  <2> QED BY <1>0, <1>1, <2>1 DEF chat
<1>6. CASE ClearMessages
  <2>1. Commit(Append(queue, Set(<<>>)), gen) /\ UNCHANGED <<req, count, chat, overwritten>>
    BY <1>6 DEF ClearMessages
  <2> QED BY <1>0, <1>1, <2>1 DEF chat
<1>7. ASSUME NEW kind \in Kind,
             SendMessage(kind) \/ \E i \in DOMAIN messages : RegenerateMessage(i, kind) \/ SubmitEdit(i, kind)
      PROVE  FlagsOK' /\ ControlInv'
  <2>1. /\ count < MaxSends /\ count' = count + 1 /\ sendChat(count', kind)
        /\ UNCHANGED overwritten /\ \E q : Commit(q, gen')
    BY <1>7 DEF SendMessage, RegenerateMessage, SubmitEdit, Start
  <2> QED BY <2>1, SendControl
<1>8. ASSUME NEW r \in Req, Answers(r) PROVE FlagsOK' /\ ControlInv'
  <2>1. CASE Headers(r)
    BY <2>1, HeadersControl
  <2>2. CASE StreamSilent(r)
    BY <2>2, MovesControl
  <2>3. CASE HeadersFail(r) /\ req[r].sgen # sgen
    BY <2>3, LateFailControl
  <2>4. CASE \/ HeadersFail(r) /\ req[r].sgen = sgen
             \/ StreamDone(r) \/ StreamError(r) \/ Answer(r) \/ AnswerFails(r)
    BY <2>4, AnswersSettle, SettlesControl
  <2> QED BY <1>8, <2>1, <2>2, <2>3, <2>4 DEF Answers
<1>9. ASSUME NEW r \in Req, VideoPending(r) \/ PollVideo(r) \/ \E c \in Char : StreamChunk(r, c)
      PROVE  FlagsOK' /\ ControlInv'
  BY <1>9, ChunkControl, MovesControl
<1>10. CASE FlushTimer
  BY <1>10, FlushControl
<1>11. CASE StopGeneration
  BY <1>11, StopControl
<1>12. CASE Leave \/ Close
  BY <1>12, ReopenControl DEF Leave, Close
<1> QED BY <1>2, <1>3, <1>4, <1>5, <1>6, <1>7, <1>8, <1>9, <1>10, <1>11, <1>12 DEF Next

-----------------------------------------------------------------------------
(* Messages, as rendered and as they will be                               *)

Update ==
  [op : {"set"}, ms : Seq(Message)] \cup [op : {"flush"}, gen : Nat, chunks : Seq(Glyph)]
  \cup [op : {"complete", "error"}, gen : Nat] \cup [op : {"response", "video"}, gen : Nat, r : Req]

\* The messages once the queue is rendered in generation g.
Screen(g) == ApplyAll(queue, messages, g)

Sound(ms) == Good(ms, count) /\ (~overwritten => OnlyLast(ms))
Live(ms) == Sound(ms) /\ (flags # Idle => Target(ms, count))

\* A stop renders the queue in the next generation, so that the messages are
\* sound whichever of the two the queue is rendered in.
ViewInv ==
  /\ queue \in Seq(Update)
  /\ Live(messages) /\ Live(Screen(gen)) /\ Live(Screen(gen + 1))
  /\ Sound(latest) /\ Sound(saved)
  /\ ~overwritten /\ flags = Idle => Settled(Screen(gen))

LEMMA GoodGrows ==
  ASSUME NEW n \in Nat, NEW k \in Nat, n <= k, NEW ms, Good(ms, n)
  PROVE  Good(ms, k)
<1>1. ms \in Seq(Message) /\ \A i \in 1..Len(ms) : ContentOK(ms[i]) /\ ms[i].req <= n
  BY DEF Good
<1>2. \A i \in 1..Len(ms) : ms[i].req \in Nat
  <2>1. \A i \in 1..Len(ms) : ms[i] \in Message
    BY <1>1
  <2>2. \A m \in Message : m.req \in Nat
    BY DEF Message, Req
  <2> QED BY <2>1, <2>2
<1> QED BY <1>1, <1>2 DEF Good

LEMMA SettledIsLast == ASSUME NEW ms, Settled(ms) PROVE OnlyLast(ms)
BY DEF Settled, OnlyLast

LEMMA EmptyView == /\ <<>> \in Seq(Update) /\ \A n \in Nat : Good(<<>>, n) /\ Settled(<<>>)
<1>1. <<>> \in Seq(Update) /\ <<>> \in Seq(Message) /\ 1..Len(<<>>) = {}
  OBVIOUS
<1> QED BY <1>1 DEF Good, Settled

\* Every step that renders.
LEMMA CommitView ==
  ASSUME ViewInv, NEW q, NEW g, Commit(q, g), NEW X, X = ApplyAll(q, messages, g),
         count \in Nat, count' \in Nat, count <= count', saved' = saved, overwritten => overwritten',
         Good(X, count'), flags' # Idle => Target(X, count'), ~overwritten' => OnlyLast(X),
         ~overwritten' /\ flags' = Idle => Settled(X)
  PROVE  ViewInv' /\ Screen(gen)' = X
<1>1. messages' = X /\ queue' = <<>> /\ latest' \in {latest, X}
  BY DEF Commit
<1>2. Screen(gen)' = X /\ Screen(gen + 1)' = X
  BY <1>1, ApplyNone DEF Screen
<1>3. Live(messages)' /\ Live(Screen(gen))' /\ Live(Screen(gen + 1))'
  BY <1>1, <1>2 DEF Live, Sound
<1>4. Sound(latest)' /\ Sound(saved)'
  BY <1>1, GoodGrows DEF ViewInv, Sound
<1>5. queue' \in Seq(Update)
  BY <1>1, EmptyView
<1> QED BY <1>2, <1>3, <1>4, <1>5 DEF ViewInv

LEMMA ApplyOne ==
  ASSUME NEW u, NEW ms, NEW g
  PROVE  ApplyAll(<<u>>, ms, g) = Apply(u, ms, g)
<1> DEFINE q == <<>>
<1>1. q \in Seq({u}) /\ <<u>> = Append(q, u)
  OBVIOUS
<1>2. ApplyAll(q, ms, g) = ms
  BY ApplyNone
<1> HIDE DEF q
<1>3. ApplyAll(Append(q, u), ms, g) = Apply(u, ApplyAll(q, ms, g), g)
  BY <1>1, ApplyAppend
<1> QED BY <1>1, <1>2, <1>3

LEMMA ApplyTwo ==
  ASSUME NEW X, NEW q \in Seq(X), NEW f \in X, NEW u, NEW ms, NEW g
  PROVE  ApplyAll(Append(Append(q, f), u), ms, g) = Apply(u, Apply(f, ApplyAll(q, ms, g), g), g)
<1> DEFINE p == Append(q, f)
<1>1. p \in Seq(X) /\ ApplyAll(p, ms, g) = Apply(f, ApplyAll(q, ms, g), g)
  BY ApplyAppend
<1> HIDE DEF p
<1>2. ApplyAll(Append(p, u), ms, g) = Apply(u, ApplyAll(p, ms, g), g)
  BY <1>1, ApplyAppend
<1> QED BY <1>1, <1>2 DEF p

LEMMA EnqueueOne ==
  ASSUME ViewInv, NEW u \in Update, Enqueue(<<u>>), UNCHANGED <<messages, gen>>, gen \in Nat,
         NEW X, X = Apply(u, Screen(gen), gen), X \in Seq(Message)
  PROVE  /\ queue' \in Seq(Update) /\ Screen(gen)' = X /\ latest' \in {latest, X}
         /\ Screen(gen + 1)' \in {Apply(u, Screen(gen + 1), gen + 1), X}
<1>0. queue \in Seq(Update)
  BY DEF ViewInv
<1>1. CASE queue' = queue \o <<u>> /\ latest' = latest
  <2>1. queue' = Append(queue, u) /\ queue' \in Seq(Update)
    BY <1>0, <1>1
  <2>2. \A g : ApplyAll(Append(queue, u), messages, g) = Apply(u, ApplyAll(queue, messages, g), g)
    BY <1>0, ApplyAppend
  <2> QED BY <1>1, <2>1, <2>2 DEF Screen
<1>2. CASE /\ queue = <<>> /\ queue' = <<Set(Apply(u, messages, gen))>> /\ latest' = Apply(u, messages, gen)
  <2>1. X = Apply(u, messages, gen)
    BY <1>2, ApplyNone DEF Screen
  <2>2. queue' = <<Set(X)>> /\ latest' = X
    BY <1>2, <2>1
  <2>3. Set(X) \in Update
    BY DEF Set, Update
  <2>4. queue' = Append(<<>>, Set(X)) /\ <<>> \in Seq(Update) /\ queue' \in Seq(Update)
    BY <2>2, <2>3
  <2>5. \A g : ApplyAll(<<Set(X)>>, messages, g) = X
    BY ApplyOne, ApplySet
  <2> QED BY <2>2, <2>4, <2>5 DEF Screen
<1>3. <<u>> # <<>> /\ Head(<<u>>) = u /\ Tail(<<u>>) = <<>>
  OBVIOUS
<1>4. \A s : <<s>> \o <<>> = <<s>>
  OBVIOUS
<1> QED BY <1>1, <1>2, <1>3, <1>4 DEF Enqueue

LEMMA EnqueueTwo ==
  ASSUME ViewInv, NEW f \in Update, NEW u \in Update, Enqueue(<<f, u>>), UNCHANGED <<messages, gen>>,
         gen \in Nat, NEW Y, Y = Apply(f, Screen(gen), gen), Y \in Seq(Message)
  PROVE  /\ queue' \in Seq(Update) /\ Screen(gen)' = Apply(u, Y, gen) /\ latest' \in {latest, Y}
         /\ \/ Screen(gen + 1)' = Apply(u, Apply(f, Screen(gen + 1), gen + 1), gen + 1)
            \/ Screen(gen + 1)' = Apply(u, Y, gen + 1)
<1>0. queue \in Seq(Update)
  BY DEF ViewInv
<1>1. CASE queue' = queue \o <<f, u>> /\ latest' = latest
  <2>1. queue' = Append(Append(queue, f), u) /\ Append(queue, f) \in Seq(Update) /\ queue' \in Seq(Update)
    BY <1>0, <1>1
  <2>2. \A g : ApplyAll(Append(Append(queue, f), u), messages, g)
                 = Apply(u, Apply(f, ApplyAll(queue, messages, g), g), g)
    BY <1>0, ApplyTwo
  <2> QED BY <1>1, <2>1, <2>2 DEF Screen
<1>2. CASE /\ queue = <<>> /\ queue' = <<Set(Apply(f, messages, gen))>> \o <<u>>
           /\ latest' = Apply(f, messages, gen)
  <2>1. Y = Apply(f, messages, gen)
    BY <1>2, ApplyNone DEF Screen
  <2>2. queue' = <<Set(Y)>> \o <<u>> /\ latest' = Y
    BY <1>2, <2>1
  <2>3. Set(Y) \in Update
    BY DEF Set, Update
  <2>4. /\ <<Set(Y)>> = Append(<<>>, Set(Y)) /\ <<>> \in Seq(Update) /\ <<Set(Y)>> \in Seq(Update)
        /\ queue' = Append(<<Set(Y)>>, u) /\ queue' \in Seq(Update)
    BY <2>2, <2>3
  <2>5. \A g : ApplyAll(<<Set(Y)>>, messages, g) = Y
    BY ApplyOne, ApplySet
  <2>6. \A g : ApplyAll(Append(<<Set(Y)>>, u), messages, g) = Apply(u, Y, g)
    <3> DEFINE p == <<Set(Y)>>
    <3>1. p \in Seq(Update) /\ \A g : ApplyAll(p, messages, g) = Y
      BY <2>4, <2>5
    <3> HIDE DEF p
    <3>2. \A g : ApplyAll(Append(p, u), messages, g) = Apply(u, ApplyAll(p, messages, g), g)
      BY <3>1, ApplyAppend
    <3> QED BY <3>1, <3>2 DEF p
  <2> QED BY <2>2, <2>4, <2>6 DEF Screen
<1>3. <<f, u>> # <<>> /\ Head(<<f, u>>) = f /\ Tail(<<f, u>>) = <<u>>
  OBVIOUS
<1> QED BY <1>1, <1>2, <1>3 DEF Enqueue

LEMMA RenderView ==
  ASSUME RequestsOK, ViewInv, Render
  PROVE  ViewInv' /\ Screen(gen)' = Screen(gen)
<1>1. Commit(queue, gen) /\ UNCHANGED <<count, flags, saved, overwritten>>
  BY DEF Render, chat
<1>2. Live(Screen(gen)) /\ (~overwritten /\ flags = Idle => Settled(Screen(gen)))
  BY DEF ViewInv
<1> DEFINE X == Screen(gen)
<1>3. X = ApplyAll(queue, messages, gen)
  BY DEF Screen
<1>4. /\ Good(X, count') /\ (flags' # Idle => Target(X, count')) /\ (~overwritten' => OnlyLast(X))
      /\ (~overwritten' /\ flags' = Idle => Settled(X))
  BY <1>1, <1>2 DEF Live, Sound
<1>5. count \in Nat /\ count' \in Nat /\ count <= count' /\ saved' = saved /\ (overwritten => overwritten')
  BY <1>1 DEF RequestsOK
<1> HIDE DEF X
<1>6. ViewInv' /\ Screen(gen)' = X
  BY <1>1, <1>3, <1>4, <1>5, CommitView
<1> QED BY <1>6 DEF X

\* Nothing is shown as generating: the queue is empty and every message settled.
LEMMA NotShown ==
  ASSUME FlagsOK, ControlInv, ViewInv, ~shown
  PROVE  /\ queue = <<>> /\ flags = Idle /\ Screen(gen) = messages
         /\ Good(messages, count) /\ (~overwritten => Settled(messages))
<1>1. queue = <<>> /\ flags = Idle
  BY DEF ControlInv, ShownInv
<1>2. Screen(gen) = messages
  BY <1>1, ApplyNone DEF Screen
<1> QED BY <1>1, <1>2 DEF ViewInv, Live, Sound

\* The last update replaces the messages.
LEMMA SetRendered ==
  ASSUME ViewInv, NEW x, NEW g
  PROVE  ApplyAll(Append(queue, Set(x)), messages, g) = x
<1>1. ApplyAll(Append(queue, Set(x)), messages, g) = Apply(Set(x), ApplyAll(queue, messages, g), g)
  BY ApplyAppend DEF ViewInv
<1> QED BY <1>1, ApplySet

LEMMA ClearView ==
  ASSUME RequestsOK, FlagsOK, ControlInv, ViewInv, ClearMessages
  PROVE  ViewInv' /\ Screen(gen)' = <<>>
<1>1. /\ Commit(Append(queue, Set(<<>>)), gen) /\ UNCHANGED <<count, flags, saved, overwritten>> /\ ~shown
  BY DEF ClearMessages, chat
<1> DEFINE X == <<>>
<1>2. Good(X, count') /\ Settled(X) /\ OnlyLast(X)
  BY <1>1, EmptyView, SettledIsLast DEF RequestsOK
<1>3. X = ApplyAll(Append(queue, Set(<<>>)), messages, gen)
  BY SetRendered
<1>4. flags' = Idle
  BY <1>1, NotShown
<1>5. count \in Nat /\ count' \in Nat /\ count <= count' /\ saved' = saved /\ (overwritten => overwritten')
  BY <1>1 DEF RequestsOK
<1> HIDE DEF X
<1>6. ViewInv' /\ Screen(gen)' = X
  BY <1>1, <1>2, <1>3, <1>4, <1>5, CommitView
<1> QED BY <1>6 DEF X

LEMMA DeleteView ==
  ASSUME RequestsOK, FlagsOK, ControlInv, ViewInv, NEW i, DeleteMessage(i)
  PROVE  ViewInv' /\ Drawn(Screen(gen)', Screen(gen))
<1> DEFINE u == [op |-> "remove", key |-> Key(messages[i])]
           X == Apply(u, Screen(gen), gen)
<1>1. /\ Commit(Append(queue, u), gen) /\ UNCHANGED <<count, flags, saved, overwritten>> /\ ~shown
  BY DEF DeleteMessage, chat
<1>2. /\ flags' = Idle /\ Screen(gen) = messages /\ Good(messages, count)
      /\ ~overwritten => Settled(messages)
  BY <1>1, NotShown
<1>3. u.op = "remove" /\ X = Apply(u, messages, gen)
  BY <1>2
<1>4. Drawn(X, messages)
  <2>1. messages \in Seq(Message)
    BY <1>2 DEF Good
  <2> HIDE DEF X, u
  <2> QED BY <1>3, <2>1, RemoveDrawn
<1>5. X = ApplyAll(Append(queue, u), messages, gen)
  BY ApplyAppend DEF ViewInv, Screen
<1> HIDE DEF u, X
<1>6. count \in Nat /\ count' = count /\ saved' = saved /\ (overwritten' = overwritten)
  BY <1>1 DEF RequestsOK
<1>7. Good(X, count') /\ (~overwritten => Settled(X))
  BY <1>2, <1>4, <1>6, DrawnKeeps
<1>8. ~overwritten => OnlyLast(X)
  BY <1>7, SettledIsLast
<1>9. ViewInv' /\ Screen(gen)' = X
  BY <1>1, <1>2, <1>5, <1>6, <1>7, <1>8, CommitView
<1> QED BY <1>2, <1>4, <1>9

\* The messages p of earlier requests, followed by the answer to come.
LEMMA StartView ==
  ASSUME RequestsOK, ViewInv, NEW p, NEW kind, count < MaxSends, count' = count + 1, Good(p, count'),
         \A i \in 1..Len(p) : ~(p[i].from = "assistant" /\ p[i].req = count'),
         ~overwritten => Settled(p), sendChat(count', kind),
         Commit(Append(queue, Set(Append(p, Loading(count')))), gen'), UNCHANGED <<saved, overwritten>>
  PROVE  ViewInv' /\ Target(Screen(gen)', count') /\ LET S == Screen(gen)' IN S[Len(S)] = Loading(count')
<1> DEFINE X == Append(p, Loading(count'))
<1>1. X = ApplyAll(Append(queue, Set(X)), messages, gen')
  BY SetRendered
<1>2. count' \in Req /\ count \in Nat /\ count' \in Nat /\ count <= count'
  BY DEF RequestsOK, Req
<1>3. /\ Good(X, count') /\ Target(X, count') /\ X[Len(X)] = Loading(count')
      /\ Settled(p) => OnlyLast(X)
  BY <1>2, LoadingAppended
<1>4. flags' # Idle
  BY FlagValues DEF sendChat, Waiting
<1>5. Commit(Append(queue, Set(X)), gen')
  OBVIOUS
<1> HIDE DEF X
<1>6. ViewInv' /\ Screen(gen)' = X
  BY <1>1, <1>2, <1>3, <1>4, <1>5, CommitView
<1> QED BY <1>3, <1>6

\* No message is of a request not yet started.
LEMMA NoneOfNext ==
  ASSUME RequestsOK, NEW ms, Good(ms, count)
  PROVE  Good(ms, count + 1) /\ \A i \in 1..Len(ms) : ms[i].req # count + 1
<1>1. count \in Nat /\ count + 1 \in Nat
  BY DEF RequestsOK
<1>2. Good(ms, count + 1)
  BY <1>1, GoodGrows
<1>3. \A i \in 1..Len(ms) : ms[i].req \in Nat
  <2>1. \A i \in 1..Len(ms) : ms[i] \in Message
    BY DEF Good
  <2>2. \A m \in Message : m.req \in Nat
    BY DEF Message, Req
  <2> QED BY <2>1, <2>2
<1> QED BY <1>1, <1>2, <1>3 DEF Good

LEMMA SendView ==
  ASSUME RequestsOK, FlagsOK, ControlInv, ViewInv, NEW kind, SendMessage(kind)
  PROVE  ViewInv' /\ Target(Screen(gen)', count') /\ LET S == Screen(gen)' IN S[Len(S)] = Loading(count')
<1>1. /\ ~shown /\ count < MaxSends /\ count' = count + 1 /\ sendChat(count', kind)
      /\ Commit(Append(queue, Set(messages \o <<User(count'), Loading(count')>>)), gen')
      /\ UNCHANGED <<saved, overwritten>>
  BY DEF SendMessage, Start
<1>2. Good(messages, count) /\ (~overwritten => Settled(messages))
  BY <1>1, NotShown
<1> DEFINE u == User(count')
           p == Append(messages, u)
<1>3. /\ u \in Message /\ u.from = "user" /\ u.req = count' /\ ~Pending(u) /\ ContentOK(u)
      /\ Loading(count') \in Message
  <2>1. count' \in Req
    BY <1>1 DEF RequestsOK, Req
  <2> QED BY <2>1 DEF User, Loading, Message, Pending, ContentOK
<1>4. /\ messages \in Seq(Message) /\ Good(messages, count')
      /\ \A i \in 1..Len(messages) : messages[i].req # count'
  BY <1>1, <1>2, NoneOfNext DEF Good
<1> HIDE DEF u
<1>5. /\ p \in Seq(Message) /\ Len(messages) \in Nat /\ Len(p) = Len(messages) + 1 /\ p[Len(p)] = u
      /\ \A i \in 1..Len(p) : i # Len(p) => i \in 1..Len(messages) /\ p[i] = messages[i]
      /\ messages \o <<u, Loading(count')>> = Append(p, Loading(count'))
  BY <1>3, <1>4
<1> HIDE DEF p
<1>6. Good(p, count')
  <2>1. count' <= count'
    BY <1>1 DEF RequestsOK
  <2> QED BY <1>3, <1>4, <1>5, <2>1 DEF Good
<1>7. \A i \in 1..Len(p) : ~(p[i].from = "assistant" /\ p[i].req = count')
  BY <1>3, <1>4, <1>5
<1>8. ~overwritten => Settled(p)
  BY <1>2, <1>3, <1>5 DEF Settled
<1>9. Commit(Append(queue, Set(Append(p, Loading(count')))), gen')
  BY <1>1, <1>5 DEF u
<1> QED BY <1>1, <1>6, <1>7, <1>8, <1>9, StartView

\* Prompts that keep the first k messages.
LEMMA PrefixView ==
  ASSUME RequestsOK, ViewInv, NEW kind, NEW k \in 0..Len(messages), count < MaxSends, count' = count + 1,
         sendChat(count', kind), ~overwritten => Settled(SubSeq(messages, 1, k)),
         Commit(Append(queue, Set(Append(SubSeq(messages, 1, k), Loading(count')))), gen'),
         UNCHANGED <<saved, overwritten>>
  PROVE  ViewInv' /\ Target(Screen(gen)', count') /\ LET S == Screen(gen)' IN S[Len(S)] = Loading(count')
<1> DEFINE p == SubSeq(messages, 1, k)
<1>1. Good(messages, count) /\ messages \in Seq(Message) /\ count \in Nat
  BY DEF ViewInv, Live, Sound, Good, RequestsOK
<1>2. Drawn(p, messages)
  BY <1>1, PrefixDrawn
<1> HIDE DEF p
<1>3. Good(p, count)
  BY <1>1, <1>2, DrawnKeeps
<1>4. Good(p, count') /\ \A i \in 1..Len(p) : p[i].req # count'
  BY <1>3, NoneOfNext
<1>5. (~overwritten => Settled(p)) /\ Commit(Append(queue, Set(Append(p, Loading(count')))), gen')
  BY DEF p
<1> QED BY <1>4, <1>5, StartView

LEMMA RegenerateView ==
  ASSUME RequestsOK, FlagsOK, ControlInv, ViewInv, NEW kind, NEW i \in DOMAIN messages,
         RegenerateMessage(i, kind)
  PROVE  ViewInv' /\ Target(Screen(gen)', count') /\ LET S == Screen(gen)' IN S[Len(S)] = Loading(count')
<1> DEFINE k == IF messages[i].from = "user" THEN i ELSE i - 1
<1>1. /\ ~shown /\ count < MaxSends /\ count' = count + 1 /\ sendChat(count', kind)
      /\ Commit(Append(queue, Set(Append(SubSeq(messages, 1, k), Loading(count')))), gen')
      /\ UNCHANGED <<saved, overwritten>>
  BY DEF RegenerateMessage, Start
<1>2. Good(messages, count) /\ (~overwritten => Settled(messages)) /\ messages \in Seq(Message)
  BY <1>1, NotShown DEF Good
<1>3. k \in 0..Len(messages)
  BY <1>2
<1> HIDE DEF k
<1>4. ~overwritten => Settled(SubSeq(messages, 1, k))
  BY <1>2, <1>3, PrefixDrawn, DrawnKeeps
<1> QED BY <1>1, <1>3, <1>4, PrefixView

LEMMA SubmitView ==
  ASSUME RequestsOK, FlagsOK, ControlInv, ViewInv, NEW kind, NEW i \in DOMAIN messages,
         SubmitEdit(i, kind)
  PROVE  ViewInv' /\ Target(Screen(gen)', count') /\ LET S == Screen(gen)' IN S[Len(S)] = Loading(count')
<1>1. /\ messages[i].from = "user" /\ count < MaxSends /\ count' = count + 1 /\ sendChat(count', kind)
      /\ Commit(Append(queue, Set(Append(SubSeq(messages, 1, i), Loading(count')))), gen')
      /\ UNCHANGED <<saved, overwritten>>
  BY DEF SubmitEdit, Start
<1>2. messages \in Seq(Message) /\ (~overwritten => OnlyLast(messages))
  BY DEF ViewInv, Live, Sound, Good
<1>3. i \in 0..Len(messages)
  BY <1>2
<1>4. ~overwritten => Settled(SubSeq(messages, 1, i))
  BY <1>1, <1>2, <1>3, PrefixDrawn DEF FromAssistant
<1> QED BY <1>1, <1>3, <1>4, PrefixView

\* The content reads as the beginning of the text.
Begins(content, text) ==
  Len(content) <= Len(text) /\ \A i \in 1..Len(content) : content[i].c = text[i]

\* The content and the pending chunks cs hold the text t of a stream of kind k:
\* the last snapshot is all of it, and pieces add up to it as long as none of
\* them is taken for a repetition.
Carries(content, cs, k, t) ==
  IF k = "snapshots"
    THEN IF cs = <<>> THEN Spells(content, t) ELSE Begins(content, t) /\ Spells(cs, t)
    ELSE NothingRepeats(t) => Spells(content \o cs, t)

\* With the chunks cs pending, m has all of the text t, unless edited.
Received(m, cs, k, t) == Pending(m) /\ (~Edits(m) => Carries(m.content, cs, k, t))

\* A flush adds exactly what is missing.
LEMMA FlushCarries ==
  ASSUME NEW c \in Seq(Glyph), NEW cs \in Seq(Glyph), cs # <<>>, NEW k, NEW t, Carries(c, cs, k, t),
         NEW d, d = c \o getAppendableChunk(c, cs)
  PROVE  Carries(d, <<>>, k, t)
<1> DEFINE a == getAppendableChunk(c, cs)
<1>1. Len(c) \in Nat /\ Len(cs) \in Nat /\ Len(cs) > 0
  OBVIOUS
<1>2. a \in Seq(Glyph)
  BY AppendableDrawn
<1>3. CASE k = "snapshots"
  <2>1. Begins(c, t) /\ Len(cs) = Len(t) /\ \A i \in 1..Len(t) : cs[i].c = t[i]
    BY <1>3 DEF Carries, Spells
  <2>2. Len(c) <= Len(cs) /\ \A i \in 1..Len(c) : cs[i].c = c[i].c
    BY <1>1, <2>1 DEF Begins
  <2>3. Len(a) = Len(cs) - Len(c) /\ \A j \in 1..(Len(cs) - Len(c)) : a[j] = cs[Len(c) + j]
    <3>1. CASE c = <<>>
      <4>1. a = cs /\ Len(c) = 0
        BY <3>1 DEF getAppendableChunk, StartsWith
      <4> QED BY <1>1, <4>1
    <3>2. CASE c # <<>>
      <4>1. a = SubSeq(cs, Len(c) + 1, Len(cs))
        BY <2>2, <3>2 DEF getAppendableChunk, StartsWith
      <4>2. \A i \in (Len(c) + 1)..Len(cs) : cs[i] \in Glyph
        BY <1>1
      <4> QED BY <1>1, <2>2, <4>1, <4>2, SubSeqProperties
    <3> QED BY <3>1, <3>2
  <2> HIDE DEF a
  <2>4. /\ Len(d) = Len(c) + Len(a)
        /\ \A j \in 1..Len(c) + Len(a) : d[j] = IF j <= Len(c) THEN c[j] ELSE a[j - Len(c)]
    BY <1>2, ConcatProperties DEF a
  <2>5. \A j \in 1..Len(t) : d[j].c = t[j]
    <3> TAKE j \in 1..Len(t)
    <3>0. j \in 1..Len(c) + Len(a)
      BY <1>1, <2>1, <2>2, <2>3
    <3>1. CASE j <= Len(c)
      <4>1. d[j] = c[j] /\ j \in 1..Len(c)
        BY <1>1, <2>1, <2>4, <3>0, <3>1
      <4> QED BY <2>1, <2>2, <4>1
    <3>2. CASE ~(j <= Len(c))
      <4>1. j - Len(c) \in 1..(Len(cs) - Len(c)) /\ Len(c) + (j - Len(c)) = j
        BY <1>1, <2>1, <3>2
      <4>2. d[j] = a[j - Len(c)] /\ a[j - Len(c)] = cs[j]
        BY <2>3, <2>4, <3>0, <3>2, <4>1
      <4> QED BY <2>1, <4>2
    <3> QED BY <3>1, <3>2
  <2>6. Len(d) = Len(t)
    BY <1>1, <2>1, <2>2, <2>3, <2>4
  <2> QED BY <1>3, <2>5, <2>6 DEF Carries, Spells
<1>4. CASE k # "snapshots"
  <2> SUFFICES ASSUME NothingRepeats(t) PROVE Spells(d \o <<>>, t)
    BY <1>4 DEF Carries
  <2> DEFINE e == c \o cs
  <2>1. Spells(e, t)
    BY <1>4 DEF Carries
  <2>2. /\ e \in Seq(Glyph) /\ Len(e) = Len(c) + Len(cs)
        /\ \A j \in 1..Len(c) + Len(cs) : e[j] = IF j <= Len(c) THEN c[j] ELSE cs[j - Len(c)]
    BY ConcatProperties
  <2> HIDE DEF e
  <2>3. Len(t) = Len(c) + Len(cs) /\ \A i \in 1..Len(t) : e[i].c = t[i]
    BY <2>1, <2>2 DEF Spells
  <2>4. ~StartsWith(cs, c)
    <3> SUFFICES ASSUME StartsWith(cs, c) PROVE FALSE
      OBVIOUS
    <3>1. Len(c) \in 1..Len(t) /\ 2 * Len(c) <= Len(t) /\ Len(c) <= Len(cs)
          /\ \A i \in 1..Len(c) : cs[i].c = c[i].c
      BY <1>1, <2>3 DEF StartsWith
    <3>2. PICK i \in 1..Len(c) : t[i] # t[Len(c) + i]
      BY <3>1 DEF NothingRepeats
    <3>3. /\ i \in 1..Len(t) /\ Len(c) + i \in 1..Len(t) /\ i <= Len(c) /\ ~(Len(c) + i <= Len(c))
          /\ (Len(c) + i) - Len(c) = i
      BY <1>1, <2>3, <3>1
    <3>4. e[i] = c[i] /\ e[Len(c) + i] = cs[i]
      BY <2>2, <2>3, <3>3
    <3> QED BY <2>3, <3>1, <3>2, <3>3, <3>4
  <2>5. d = e
    BY <2>4 DEF getAppendableChunk, e
  <2>6. e \o <<>> = e
    BY <2>2
  <2> QED BY <2>1, <2>5, <2>6
<1> QED BY <1>3, <1>4

\* A text that does not repeat itself did not do so before it grew.
LEMMA PrefixRepeats ==
  ASSUME NEW t \in Seq(Char), NEW c \in Char, NothingRepeats(Append(t, c))
  PROVE  NothingRepeats(t) /\ (Len(t) > 0 => t[Len(t)] # c)
<1> DEFINE u == Append(t, c)
<1>1. Len(t) \in Nat /\ Len(u) = Len(t) + 1 /\ u[Len(t) + 1] = c /\ \A i \in 1..Len(t) : u[i] = t[i]
  OBVIOUS
<1>0. NothingRepeats(u)
  OBVIOUS
<1> HIDE DEF u
<1>2. \A i \in 1..Len(t) : i < Len(t) => t[i] # t[i + 1]
  <2> SUFFICES ASSUME NEW i \in 1..Len(t), i < Len(t) PROVE t[i] # t[i + 1]
    OBVIOUS
  <2>1. i \in 1..Len(u) /\ i < Len(u) /\ i + 1 \in 1..Len(t)
    BY <1>1
  <2> QED BY <1>0, <1>1, <2>1 DEF NothingRepeats
<1>3. \A k \in 1..Len(t) : 2 * k <= Len(t) => \E i \in 1..k : t[i] # t[k + i]
  <2> SUFFICES ASSUME NEW k \in 1..Len(t), 2 * k <= Len(t) PROVE \E i \in 1..k : t[i] # t[k + i]
    OBVIOUS
  <2>1. k \in 1..Len(u) /\ 2 * k <= Len(u)
    BY <1>1
  <2>2. PICK i \in 1..k : u[i] # u[k + i]
    BY <1>0, <2>1 DEF NothingRepeats
  <2>3. i \in 1..Len(t) /\ k + i \in 1..Len(t)
    BY <1>1
  <2> QED BY <1>1, <2>2, <2>3
<1>4. Len(t) > 0 => t[Len(t)] # c
  <2> SUFFICES ASSUME Len(t) > 0 PROVE t[Len(t)] # c
    OBVIOUS
  <2>1. Len(t) \in 1..Len(u) /\ Len(t) < Len(u) /\ Len(t) \in 1..Len(t)
    BY <1>1
  <2> QED BY <1>0, <1>1, <2>1 DEF NothingRepeats
<1> QED BY <1>2, <1>3, <1>4 DEF NothingRepeats

\* The merge of the next chunk, a snapshot or a piece, keeps everything.
LEMMA ChunkCarries ==
  ASSUME NEW r \in Req, NEW k, NEW t \in Seq(Char), NEW c \in Char,
         NEW content \in Seq(Glyph), NEW cs \in Seq(Glyph), Carries(content, cs, k, t),
         NEW d, d = Chunk(r, IF k = "snapshots" THEN Append(t, c) ELSE <<c>>)
  PROVE  Carries(content, mergePendingStreamChunk(cs, d), k, Append(t, c))
<1> DEFINE u == Append(t, c)
           x == mergePendingStreamChunk(cs, d)
<1>1. /\ Len(t) \in Nat /\ Len(u) = Len(t) + 1 /\ u[Len(t) + 1] = c /\ u \in Seq(Char)
      /\ \A i \in 1..Len(t) : u[i] = t[i]
  OBVIOUS
<1>2. Len(cs) \in Nat /\ Len(content) \in Nat
  OBVIOUS
<1>3. CASE k = "snapshots"
  <2>1. d \in Seq(Glyph) /\ Len(d) = Len(u) /\ \A j \in 1..Len(u) : d[j].c = u[j]
    BY <1>1, <1>3, ChunkOf
  <2> HIDE DEF u
  <2>2. x = d
    <3>1. CASE cs = <<>>
      <4>1. x = cs \o d
        BY <3>1 DEF mergePendingStreamChunk, StartsWith
      <4> QED BY <2>1, <3>1, <4>1
    <3>2. CASE cs # <<>>
      <4>1. Len(cs) = Len(t) /\ \A i \in 1..Len(t) : cs[i].c = t[i]
        BY <1>3, <3>2 DEF Carries, Spells
      <4>2. StartsWith(d, cs)
        <5>1. Len(cs) <= Len(d) /\ \A i \in 1..Len(cs) : i \in 1..Len(u)
          BY <1>1, <2>1, <4>1
        <5> QED BY <1>1, <2>1, <3>2, <4>1, <5>1 DEF StartsWith
      <4> QED BY <4>2 DEF mergePendingStreamChunk
    <3> QED BY <3>1, <3>2
  <2>3. x # <<>> /\ Spells(x, u)
    BY <1>1, <2>1, <2>2 DEF Spells
  <2>4. Len(content) <= Len(t) /\ \A i \in 1..Len(content) : content[i].c = t[i]
    BY <1>2, <1>3 DEF Carries, Spells, Begins
  <2>5. Begins(content, u)
    <3>1. \A i \in 1..Len(content) : i \in 1..Len(t)
      BY <1>1, <1>2, <2>4
    <3> QED BY <1>1, <1>2, <2>4, <3>1 DEF Begins
  <2> HIDE DEF x
  <2> QED BY <1>3, <2>3, <2>5 DEF Carries, u, x
<1>4. CASE k # "snapshots"
  <2> SUFFICES ASSUME NothingRepeats(u) PROVE Spells(content \o x, u)
    BY <1>4 DEF Carries
  <2>0. <<c>> \in Seq(Char) /\ Len(<<c>>) = 1 /\ <<c>>[1] = c /\ 1 \in 1..1
    OBVIOUS
  <2>1. d \in Seq(Glyph) /\ Len(d) = 1 /\ d[1].c = c
    <3>1. d = Chunk(r, <<c>>)
      BY <1>4
    <3>2. /\ Chunk(r, <<c>>) \in Seq(Glyph) /\ Len(Chunk(r, <<c>>)) = Len(<<c>>)
          /\ \A j \in 1..Len(<<c>>) : Chunk(r, <<c>>)[j].c = <<c>>[j]
      BY <2>0, ChunkOf
    <3> QED BY <2>0, <3>1, <3>2
  <2>2. NothingRepeats(t) /\ (Len(t) > 0 => t[Len(t)] # c)
    BY PrefixRepeats
  <2> DEFINE e == content \o cs
  <2>3. Spells(e, t)
    BY <1>4, <2>2 DEF Carries
  <2>4. /\ e \in Seq(Glyph) /\ Len(e) = Len(content) + Len(cs)
        /\ \A j \in 1..Len(content) + Len(cs) :
             e[j] = IF j <= Len(content) THEN content[j] ELSE cs[j - Len(content)]
    BY ConcatProperties
  <2> HIDE DEF e
  <2>5. Len(t) = Len(content) + Len(cs) /\ \A i \in 1..Len(t) : e[i].c = t[i]
    BY <2>3, <2>4 DEF Spells
  <2>6. ~StartsWith(d, cs)
    <3> SUFFICES ASSUME StartsWith(d, cs) PROVE FALSE
      OBVIOUS
    <3>1. Len(cs) = 1 /\ cs[1].c = c
      <4>1. cs # <<>> /\ Len(cs) <= 1 /\ \A i \in 1..Len(cs) : d[i].c = cs[i].c
        BY <2>1 DEF StartsWith
      <4>2. Len(cs) = 1
        BY <1>2, <4>1
      <4> QED BY <2>1, <4>1, <4>2
    <3>2. Len(t) \in 1..Len(t) /\ ~(Len(t) <= Len(content)) /\ Len(t) - Len(content) = 1 /\ Len(t) > 0
      BY <1>2, <2>5, <3>1
    <3>3. e[Len(t)] = cs[1]
      BY <2>4, <2>5, <3>2
    <3> QED BY <2>2, <2>5, <3>1, <3>2, <3>3
  <2>7. x = cs \o d
    BY <2>6 DEF mergePendingStreamChunk
  <2>8. content \o (cs \o d) = Append(e, d[1])
    <3> DEFINE g == d[1]
    <3>1. d = <<g>> /\ g \in Glyph
      BY <2>1
    <3> HIDE DEF g
    <3>2. cs \o <<g>> = Append(cs, g)
      BY <3>1
    <3>3. content \o Append(cs, g) = Append(content \o cs, g)
      BY <3>1
    <3> QED BY <3>1, <3>2, <3>3 DEF e, g
  <2>9. Spells(Append(e, d[1]), u)
    <3> DEFINE g == d[1]
               y == Append(e, g)
    <3>1. g \in Glyph /\ g.c = c
      BY <2>1
    <3> HIDE DEF g
    <3>2. Len(y) = Len(e) + 1 /\ y[Len(e) + 1] = g /\ \A i \in 1..Len(e) : y[i] = e[i]
      BY <2>4, <3>1
    <3>3. Len(e) = Len(t)
      BY <2>4, <2>5
    <3> HIDE DEF y, u
    <3>4. \A i \in 1..Len(u) : i \in 1..Len(t) \/ i = Len(t) + 1
      BY <1>1
    <3>5. Len(y) = Len(u) /\ \A i \in 1..Len(u) : y[i].c = u[i]
      BY <1>1, <2>5, <3>1, <3>2, <3>3, <3>4
    <3> QED BY <3>5 DEF Spells, y, g
  <2> QED BY <2>7, <2>8, <2>9
<1> QED BY <1>3, <1>4

\* With nothing pending, the content is the text.
LEMMA CarriesAll ==
  ASSUME NEW content \in Seq(Glyph), NEW k, NEW t, Carries(content, <<>>, k, t),
         k = "snapshots" \/ NothingRepeats(t)
  PROVE  Spells(content, t)
<1>1. content \o <<>> = content
  OBVIOUS
<1> QED BY <1>1 DEF Carries

\* An edit of message i.
EditOf(ms, i) ==
  [ms EXCEPT ![i].content = IF ms[i].from = "user" THEN @ ELSE <<[of |-> 0, c |-> "typed"]>>]

LEMMA EditKeeps ==
  ASSUME NEW n \in Nat, NEW ms, Good(ms, n), NEW i \in 1..Len(ms), NEW R, R = EditOf(ms, i)
  PROVE  /\ Good(R, n) /\ Len(R) = Len(ms)
         /\ Target(ms, n) => Target(R, n)
         /\ OnlyLast(ms) => OnlyLast(R)
         /\ Settled(ms) => Settled(R)
         /\ \A cs, k, t : FromAssistant(ms) /\ Received(ms[Len(ms)], cs, k, t) => Received(R[Len(R)], cs, k, t)
         /\ \A r, k, t : AllShown(ms, r, k, t) => AllShown(R, r, k, t)
<1> DEFINE m == ms[i]
           y == [of |-> 0, c |-> "typed"]
           c == IF m.from = "user" THEN m.content ELSE <<y>>
           m2 == [m EXCEPT !.content = c]
<1>1. ms \in Seq(Message) /\ m \in Message /\ ContentOK(m) /\ m.req <= n /\ Len(ms) \in Nat
  BY DEF Good
<1>a. y \in Glyph /\ y.of = 0
  BY DEF Glyph
<1>5. R = [ms EXCEPT ![i] = m2]
  BY DEF EditOf
<1> HIDE DEF y
<1>2. <<y>> \in Seq(Glyph) /\ Len(<<y>>) = 1 /\ <<y>>[1].of = 0
  BY <1>a
<1>3. c \in Seq(Glyph) /\ \A j \in 1..Len(c) : c[j].of \in {0, m.req}
  <2>1. CASE m.from = "user"
    BY <1>1, <2>1 DEF Message, ContentOK
  <2>2. CASE m.from # "user"
    BY <1>2, <2>2
  <2> QED BY <2>1, <2>2
<1>4. m.from # "user" => 1 \in 1..Len(c) /\ c[1].of = 0
  BY <1>2
<1> HIDE DEF c
<1>6. /\ m2 \in Message /\ m2.content = c /\ m2.from = m.from /\ m2.req = m.req /\ m2.status = m.status
  BY <1>1, <1>3 DEF Message
<1> HIDE DEF m2
<1>7. ContentOK(m2) /\ (m.from # "user" => Edits(m2)) /\ (Pending(m2) <=> Pending(m))
  BY <1>3, <1>4, <1>6 DEF ContentOK, Edits, Pending
<1>8. /\ R \in Seq(Message) /\ Len(R) = Len(ms) /\ R[i] = m2
      /\ \A j \in 1..Len(ms) : j # i => R[j] = ms[j]
  BY <1>1, <1>5, <1>6
<1>9. \A j \in 1..Len(ms) :
        /\ R[j].from = ms[j].from /\ R[j].req = ms[j].req /\ (Pending(R[j]) <=> Pending(ms[j]))
        /\ R[j] = ms[j] \/ Edits(R[j]) \/ ms[j].from = "user"
  BY <1>6, <1>7, <1>8
<1>10. Good(R, n)
  BY <1>1, <1>6, <1>7, <1>8 DEF Good
<1>11. Target(ms, n) => Target(R, n)
  <2> SUFFICES ASSUME Target(ms, n) PROVE Target(R, n)
    OBVIOUS
  <2>1. Len(ms) \in 1..Len(ms) /\ R # <<>>
    BY <1>1, <1>8
  <2> QED BY <1>8, <1>9, <2>1 DEF Target
<1>12. (OnlyLast(ms) => OnlyLast(R)) /\ (Settled(ms) => Settled(R))
  BY <1>8, <1>9 DEF OnlyLast, Settled
<1>13. \A cs, k, t : FromAssistant(ms) /\ Received(ms[Len(ms)], cs, k, t) => Received(R[Len(R)], cs, k, t)
  <2> SUFFICES ASSUME NEW cs, NEW k, NEW t, FromAssistant(ms), Received(ms[Len(ms)], cs, k, t)
               PROVE  Received(R[Len(R)], cs, k, t)
    OBVIOUS
  <2>1. Len(ms) \in 1..Len(ms) /\ ms[Len(ms)].from # "user"
    BY <1>1 DEF FromAssistant
  <2> QED BY <1>8, <1>9, <2>1 DEF Received
<1>14. \A r, k, t : AllShown(ms, r, k, t) => AllShown(R, r, k, t)
  <2> SUFFICES ASSUME NEW r, NEW k, NEW t, AllShown(ms, r, k, t) PROVE AllShown(R, r, k, t)
    OBVIOUS
  <2> SUFFICES ASSUME k = "snapshots" \/ NothingRepeats(t),
                      NEW j \in 1..Len(R), R[j].from = "assistant", R[j].req = r, ~Edits(R[j])
               PROVE  R[j].status = "complete" /\ Spells(R[j].content, t)
    BY DEF AllShown
  <2>1. j \in 1..Len(ms) /\ R[j] = ms[j]
    BY <1>8, <1>9
  <2> QED BY <2>1 DEF AllShown
<1> QED BY <1>8, <1>10, <1>11, <1>12, <1>13, <1>14

LEMMA SaveEditView ==
  ASSUME RequestsOK, FlagsOK, ControlInv, ViewInv, NEW i \in DOMAIN messages, SaveEdit(i)
  PROVE  /\ ViewInv' /\ Screen(gen)' = Edited(i) /\ i \in 1..Len(messages)
         /\ ~overwritten' => ~overwritten /\ Screen(gen) = messages
<1> DEFINE X == Edited(i)
<1>1. /\ Commit(Append(queue, Set(X)), gen) /\ UNCHANGED <<count, flags, saved>>
      /\ overwritten' = (overwritten \/ queue # <<>>)
  BY DEF SaveEdit, chat
<1>2. ~overwritten' => ~overwritten /\ Screen(gen) = messages
  BY <1>1, ApplyNone DEF Screen
<1>3. Good(messages, count) /\ messages \in Seq(Message) /\ i \in 1..Len(messages) /\ count \in Nat
  BY DEF ViewInv, Live, Sound, Good, RequestsOK
<1>4. X = EditOf(messages, i)
  BY DEF Edited, EditOf
<1>5. X = ApplyAll(Append(queue, Set(X)), messages, gen)
  BY SetRendered
<1> HIDE DEF X
<1>6. /\ Good(X, count) /\ (Target(messages, count) => Target(X, count))
      /\ OnlyLast(messages) => OnlyLast(X)
      /\ Settled(messages) => Settled(X)
  BY <1>3, <1>4, EditKeeps
<1>7. /\ Good(X, count') /\ (flags' # Idle => Target(X, count')) /\ (~overwritten' => OnlyLast(X))
      /\ (~overwritten' /\ flags' = Idle => Settled(X))
  BY <1>1, <1>2, <1>6 DEF ViewInv, Live, Sound
<1>8. overwritten => overwritten'
  BY <1>1
<1>9. count' \in Nat /\ count <= count' /\ saved' = saved
  BY <1>1, <1>3
<1>10. ViewInv' /\ Screen(gen)' = X
  BY <1>1, <1>3, <1>5, <1>7, <1>8, <1>9, CommitView
<1> QED BY <1>2, <1>3, <1>10 DEF X

\* The chunks that a flush shows, on any sound messages of the newest request.
LEMMA FlushView ==
  ASSUME RequestsOK, FlagsOK, ControlInv, NEW ms, Good(ms, count), Target(ms, count), pend.chunks # <<>>,
         NEW Y, Y = Apply([op |-> "flush", gen |-> gen, chunks |-> pend.chunks], ms, gen)
  PROVE  /\ Good(Y, count) /\ Target(Y, count)
         /\ OnlyLast(ms) => OnlyLast(Y)
         /\ \A k, t : Received(ms[Len(ms)], pend.chunks, k, t) => Received(Y[Len(Y)], <<>>, k, t)
<1> DEFINE u == [op |-> "flush", gen |-> gen, chunks |-> pend.chunks]
           m == ms[Len(ms)]
           cs == pend.chunks
           m2 == applyStreamingChunk(m, cs)
<1>1. FromAssistant(ms) /\ m.req = count
  BY DEF Target, FromAssistant
<1>2. u.op = "flush" /\ u.gen = gen /\ u.chunks = cs /\ Y = Apply(u, ms, gen)
  OBVIOUS
<1> HIDE DEF u
<1>3. Y = ReplaceLast(ms, m2)
  BY <1>1, <1>2, ApplyFlush
<1>4. m \in Message /\ ContentOK(m) /\ ms \in Seq(Message) /\ Len(ms) \in 1..Len(ms)
  <2>1. ms \in Seq(Message) /\ ms # <<>>
    BY <1>1 DEF Good, FromAssistant
  <2>2. Len(ms) \in 1..Len(ms)
    BY <2>1
  <2> QED BY <2>1, <2>2 DEF Good
<1>5. cs \in Seq(Glyph) /\ cs # <<>> /\ \A j \in 1..Len(cs) : cs[j].of = m.req
  BY <1>1 DEF FlagsOK, ControlInv, PendInv
<1> HIDE DEF m, cs, m2
<1>6. /\ Kept(m, m2)
      /\ Pending(m) => Pending(m2) /\ m2.content = m.content \o getAppendableChunk(m.content, cs)
      /\ Pending(m) /\ ~Edits(m2) => ~Edits(m)
  BY <1>4, <1>5, FlushKeeps DEF m2
<1>7. count \in Nat
  BY DEF RequestsOK
<1>8. Kept(ms[Len(ms)], m2)
  BY <1>6 DEF m
<1>9. Good(Y, count) /\ Target(Y, count) /\ Y[Len(Y)] = m2 /\ (OnlyLast(ms) => OnlyLast(Y))
  BY <1>3, <1>7, <1>8, UpdateKeeps
<1>10. ASSUME NEW k, NEW t, Received(m, cs, k, t) PROVE Received(m2, <<>>, k, t)
  <2>1. Pending(m) /\ m.content \in Seq(Glyph)
    BY <1>4, <1>10 DEF Received, Message
  <2>2. Carries(m.content, cs, k, t) => Carries(m2.content, <<>>, k, t)
    BY <1>5, <1>6, <2>1, FlushCarries
  <2> QED BY <1>6, <1>10, <2>1, <2>2 DEF Received
<1> QED BY <1>9, <1>10 DEF m, cs

LEMMA StopSettles ==
  ASSUME NEW n \in Nat, NEW ms, Good(ms, n), NEW g, NEW u, u.op = "stop", u.gen = g,
         NEW X, X = Apply(u, ms, g)
  PROVE  Good(X, n) /\ (OnlyLast(ms) => Settled(X))
<1>1. CASE ~FromAssistant(ms)
  <2>1. X = ms
    BY <1>1, ApplyStop
  <2>2. OnlyLast(ms) => Settled(ms)
    BY <1>1 DEF OnlyLast, Settled, FromAssistant
  <2> QED BY <2>1, <2>2
<1>2. CASE FromAssistant(ms)
  <2> DEFINE m == ms[Len(ms)]
             m2 == IF Pending(m) THEN Completed(m) ELSE m
  <2>1. X = ReplaceLast(ms, m2)
    BY <1>2, ApplyStop
  <2>2. ms \in Seq(Message) /\ ms # <<>>
    BY <1>2 DEF Good, FromAssistant
  <2>3. Len(ms) \in 1..Len(ms)
    BY <2>2
  <2>4. m \in Message /\ ContentOK(m) /\ m.req <= n
    BY <2>2, <2>3 DEF Good
  <2> HIDE DEF m
  <2>5. Kept(m, m2) /\ ~Pending(m2)
    BY <2>4, StopKeeps
  <2> HIDE DEF m2
  <2>6. m2 \in Message /\ ContentOK(m2) /\ m2.req <= n
    BY <2>4, <2>5 DEF Kept
  <2>7. /\ X \in Seq(Message) /\ Len(X) = Len(ms) /\ X[Len(ms)] = m2
        /\ \A i \in 1..Len(ms) : i # Len(ms) => X[i] = ms[i]
    <3>1. Replaced(X, ms, m2)
      BY <2>1, <2>2, <2>6, Replaces
    <3> QED BY <3>1 DEF Replaced
  <2>8. Good(X, n)
    BY <2>6, <2>7 DEF Good
  <2>9. OnlyLast(ms) => Settled(X)
    BY <2>5, <2>7 DEF OnlyLast, Settled
  <2> QED BY <2>8, <2>9
<1> QED BY <1>1, <1>2

\* A stop renders the queue in the next generation, where what was received
\* last is shown only if it was applied before.
LEMMA StopView ==
  ASSUME RequestsOK, FlagsOK, ControlInv, ViewInv, StopGeneration
  PROVE  ViewInv'
<1> DEFINE f == [op |-> "flush", gen |-> gen, chunks |-> pend.chunks]
           u == [op |-> "stop", gen |-> gen + 1]
           Y == Apply(f, messages, gen)
<1>0. /\ queue \in Seq(Update) /\ count \in Nat /\ gen \in Nat
      /\ pend.gen = gen /\ (pend.chunks # <<>> => flags # Idle)
  <2>1. pend.gen = gen /\ (pend.chunks # <<>> => flags # Idle)
    BY FlagValues DEF ControlInv, PendInv
  <2> QED BY <2>1 DEF ViewInv, RequestsOK
<1>1. /\ gen' = gen + 1 /\ flags' = Idle /\ UNCHANGED <<count, saved, overwritten>>
  BY DEF StopGeneration
<1>2. u.op = "stop" /\ u.gen = gen + 1 /\ f.op = "flush" /\ f.gen = gen /\ f.gen # gen + 1
  BY <1>0
<1>3. PICK first : /\ Commit(queue \o first \o <<u>>, gen + 1)
                   /\ \/ first = <<>>
                      \/ first = <<f>>
                      \/ first = <<Set(Y)>> /\ queue = <<>> /\ pend.chunks # <<>>
  <2>1. FlushUpdate(gen) = IF pend.chunks # <<>> THEN <<f>> ELSE <<>>
    BY <1>0 DEF FlushUpdate
  <2>2. ApplyAll(<<f>>, messages, gen) = Y
    BY ApplyOne
  <2> HIDE DEF Y, f
  <2> QED BY <1>1, <2>1, <2>2 DEF StopGeneration
<1> DEFINE X == ApplyAll(queue \o first \o <<u>>, messages, gen + 1)
<1> HIDE DEF f, u, Y
<1>4. \E ms : /\ X = Apply(u, ms, gen + 1) /\ Good(ms, count) /\ (~overwritten => OnlyLast(ms))
  <2>1. Good(Screen(gen + 1), count) /\ (~overwritten => OnlyLast(Screen(gen + 1)))
    BY DEF ViewInv, Live, Sound
  <2>2. CASE first = <<>>
    <3>1. queue \o first \o <<u>> = Append(queue, u)
      BY <1>0, <2>2
    <3>2. \A g : ApplyAll(Append(queue, u), messages, g) = Apply(u, Screen(g), g)
      BY <1>0, ApplyAppend DEF Screen
    <3> QED BY <2>1, <3>1, <3>2
  <2>3. CASE first = <<f>>
    <3> DEFINE U == Update \cup {f}
    <3>0. queue \in Seq(U) /\ f \in U
      BY <1>0
    <3> HIDE DEF U
    <3>1. queue \o first \o <<u>> = Append(Append(queue, f), u)
      BY <2>3, <3>0
    <3>2. \A g : ApplyAll(Append(Append(queue, f), u), messages, g) = Apply(u, Apply(f, Screen(g), g), g)
      BY <3>0, ApplyTwo DEF Screen
    <3>3. Apply(f, Screen(gen + 1), gen + 1) = Screen(gen + 1)
      BY <1>2, ApplyStale
    <3> QED BY <2>1, <3>1, <3>2, <3>3
  <2>4. CASE first = <<Set(Y)>> /\ queue = <<>> /\ pend.chunks # <<>>
    <3> DEFINE U == {Set(Y), u}
    <3>0. queue \in Seq(U) /\ Set(Y) \in U
      BY <2>4
    <3> HIDE DEF U
    <3>1. queue \o first \o <<u>> = Append(Append(queue, Set(Y)), u)
      BY <2>4, <3>0
    <3>2. \A g : ApplyAll(Append(Append(queue, Set(Y)), u), messages, g)
                   = Apply(u, Apply(Set(Y), Screen(g), g), g)
      BY <3>0, ApplyTwo DEF Screen
    <3>3. Apply(Set(Y), Screen(gen + 1), gen + 1) = Y
      BY ApplySet
    <3>4. Good(messages, count) /\ Target(messages, count) /\ (~overwritten => OnlyLast(messages))
      BY <1>0, <2>4 DEF ViewInv, Live, Sound
    <3>5. Good(Y, count) /\ (OnlyLast(messages) => OnlyLast(Y))
      BY <2>4, <3>4, FlushView DEF Y, f
    <3> QED BY <3>1, <3>2, <3>3, <3>4, <3>5
  <2> QED BY <1>3, <2>2, <2>3, <2>4
<1>5. Good(X, count) /\ (~overwritten => Settled(X))
  <2> HIDE DEF X
  <2> QED BY <1>0, <1>2, <1>4, StopSettles
<1> DEFINE q == queue \o first \o <<u>>
<1>6. Commit(q, gen + 1) /\ X = ApplyAll(q, messages, gen + 1)
  BY <1>3
<1> HIDE DEF X, q
<1> QED BY <1>0, <1>1, <1>5, <1>6, CommitView, SettledIsLast

\* The page opens again with what was stored.
LEMMA LoadedSettles ==
  ASSUME NEW n \in Nat, NEW ms, Good(ms, n), NEW R, R = loadMessages(ms)
  PROVE  Good(R, n) /\ (OnlyLast(ms) => Settled(R))
<1> DEFINE N == [i \in 1..Len(ms) |-> normalizeStoredMessageForLoad(ms[i])]
           stuck == {i \in 1..Len(ms) : Pending(N[i])}
           L == [i \in 1..Len(ms) |-> IF i \in stuck /\ \A j \in stuck : j <= i
                                        THEN [N[i] EXCEPT !.status = "error"] ELSE N[i]]
<1>1. ms \in Seq(Message) /\ DOMAIN ms = 1..Len(ms) /\ Len(ms) \in Nat
  BY DEF Good
<1>2. R = L
  <2>1. R = sanitizeMessagesOnLoad(N) /\ DOMAIN N = 1..Len(ms)
    BY <1>1 DEF loadMessages
  <2> HIDE DEF N
  <2> QED BY <2>1 DEF sanitizeMessagesOnLoad
<1>3. \A m \in Message :
        /\ Completed(m) \in Message /\ Completed(m).content = m.content /\ Completed(m).req = m.req
        /\ Completed(m).status = "complete"
        /\ [m EXCEPT !.status = "error"] \in Message /\ [m EXCEPT !.status = "error"].content = m.content
        /\ [m EXCEPT !.status = "error"].req = m.req /\ [m EXCEPT !.status = "error"].status = "error"
  BY DEF Message, Completed
<1>4. \A i \in 1..Len(ms) : ms[i] \in Message /\ ContentOK(ms[i]) /\ ms[i].req <= n
  BY <1>1 DEF Good
<1>5. \A i \in 1..Len(ms) : /\ N[i] \in Message /\ N[i].content = ms[i].content /\ N[i].req = ms[i].req
                            /\ Pending(N[i]) => Pending(ms[i])
  BY <1>3, <1>4 DEF Pending, normalizeStoredMessageForLoad
<1> HIDE DEF N
<1>6. \A i \in 1..Len(ms) : /\ L[i] \in Message /\ L[i].content = ms[i].content /\ L[i].req = ms[i].req
                            /\ L[i].status = "error" \/ L[i] = N[i]
                            /\ (i \in stuck /\ \A j \in stuck : j <= i) => L[i].status = "error"
  BY <1>3, <1>5
<1>7. L \in [1..Len(ms) -> Message]
  BY <1>6
<1> HIDE DEF L
<1>8. L \in Seq(Message) /\ Len(L) = Len(ms)
  BY <1>1, <1>7
<1>9. Good(L, n)
  BY <1>4, <1>6, <1>8 DEF Good, ContentOK
<1>10. ASSUME OnlyLast(ms) PROVE Settled(L)
  <2> SUFFICES ASSUME NEW i \in 1..Len(ms), Pending(L[i]) PROVE FALSE
    BY <1>8 DEF Settled
  <2>1. L[i] = N[i] /\ L[i].status # "error"
    BY <1>6 DEF Pending
  <2>2. i \in stuck
    BY <2>1
  <2>3. \A j \in stuck : j <= i
    <3> TAKE j \in stuck
    <3>1. j \in 1..Len(ms) /\ Pending(ms[j]) /\ Pending(ms[i])
      BY <1>5, <2>2
    <3>2. j = Len(ms) /\ i = Len(ms)
      BY <1>10, <3>1 DEF OnlyLast
    <3> QED BY <1>1, <3>2
  <2> QED BY <1>6, <2>1, <2>2, <2>3
<1> QED BY <1>2, <1>9, <1>10

LEMMA ReopenView ==
  ASSUME RequestsOK, ViewInv, Leave \/ Close
  PROVE  ViewInv'
<1>1. PICK ms \in {latest, saved} : Reopen(ms)
  BY DEF Leave, Close
<1> DEFINE X == loadMessages(ms)
<1>2. /\ messages' = X /\ latest' = X /\ saved' = X /\ queue' = <<>> /\ flags' = Idle
      /\ UNCHANGED <<count, overwritten>>
  BY <1>1 DEF Reopen
<1>3. Good(ms, count) /\ (~overwritten => OnlyLast(ms)) /\ count \in Nat
  BY <1>1 DEF ViewInv, Sound, RequestsOK
<1>4. Good(X, count) /\ (~overwritten => Settled(X))
  BY <1>3, LoadedSettles
<1> HIDE DEF X
<1>5. Screen(gen)' = X /\ Screen(gen + 1)' = X
  BY <1>2, ApplyNone DEF Screen
<1>6. queue' \in Seq(Update)
  BY <1>2, EmptyView
<1>7. Good(X, count') /\ (~overwritten' => OnlyLast(X) /\ Settled(X))
  BY <1>2, <1>4, SettledIsLast
<1> QED BY <1>2, <1>5, <1>6, <1>7 DEF ViewInv, Live, Sound

\* The last update of the newest request, on its messages.
LEMMA FinalView ==
  ASSUME RequestsOK, NEW ms, Good(ms, count), Target(ms, count), NEW u, Final(u, count),
         NEW X, X = Apply(u, ms, gen)
  PROVE  /\ Good(X, count) /\ (OnlyLast(ms) => Settled(X))
         /\ Apply(u, ms, gen + 1) \in {ms, X}
         /\ u.op = "complete" =>
              \A k, t : Received(ms[Len(ms)], <<>>, k, t) => AllShown(X, count, k, t)
<1> DEFINE m == ms[Len(ms)]
<1>1. FromAssistant(ms) /\ m.req = count /\ count \in Nat /\ gen \in Nat
  BY DEF Target, FromAssistant, RequestsOK
<1>2. m \in Message /\ ContentOK(m) /\ ms \in Seq(Message) /\ ms # <<>> /\ Len(ms) \in 1..Len(ms)
  <2>1. ms \in Seq(Message) /\ ms # <<>>
    BY <1>1 DEF Good, FromAssistant
  <2>2. Len(ms) \in 1..Len(ms)
    BY <2>1
  <2> QED BY <2>1, <2>2 DEF Good
<1> HIDE DEF m
<1>3. /\ u.op \in {"complete", "error", "response", "video"} /\ u.gen = gen
      /\ u.op \in {"response", "video"} => u.r = m.req
  BY <1>1 DEF Final
<1>4. Apply(u, ms, gen + 1) \in {ms, X}
  <2>1. CASE u.op = "video"
    BY <1>1, <2>1, ApplyVideo
  <2>2. CASE u.op # "video"
    BY <1>1, <1>3, <2>2, ApplyStale
  <2> QED BY <2>1, <2>2
<1>5. PICK m2 : /\ X = ReplaceLast(ms, m2) /\ Kept(m, m2) /\ ~Pending(m2)
                /\ u.op = "complete" /\ Pending(m) => m2.status = "complete" /\ m2.content = m.content
  <2>1. CASE u.op = "complete"
    <3> DEFINE m2 == IF m.status \in {"complete", "error"} THEN m ELSE Completed(m)
    <3>1. X = ReplaceLast(ms, m2)
      BY <1>1, <1>3, <2>1, ApplyComplete DEF m
    <3>2. Kept(m, m2) /\ ~Pending(m2) /\ (Pending(m) => m2.status = "complete" /\ m2.content = m.content)
      BY <1>2, CompleteKeeps
    <3> HIDE DEF m2
    <3> QED BY <3>1, <3>2
  <2>2. CASE u.op = "error"
    <3> DEFINE m2 == [m EXCEPT !.status = "error", !.content = <<>>]
    <3>1. X = ReplaceLast(ms, m2)
      BY <1>1, <1>3, <2>2, ApplyError DEF m
    <3>2. Kept(m, m2) /\ ~Pending(m2)
      BY <1>2, ErrorKeeps
    <3> HIDE DEF m2
    <3> QED BY <2>2, <3>1, <3>2
  <2>3. CASE u.op = "response"
    <3> DEFINE m2 == Completed([m EXCEPT !.content = <<[of |-> m.req, c |-> "answer"]>>])
    <3>1. X = ReplaceLast(ms, m2)
      BY <1>1, <1>3, <2>3, ApplyResponse DEF m
    <3>2. Kept(m, m2) /\ ~Pending(m2)
      BY <1>2, ResponseKeeps
    <3> HIDE DEF m2
    <3> QED BY <2>3, <3>1, <3>2
  <2>4. CASE u.op = "video"
    <3> DEFINE m2 == Completed([m EXCEPT !.content = Append(@, [of |-> m.req, c |-> "video"])])
    <3>1. X = ReplaceLast(ms, m2)
      BY <1>1, <1>3, <2>4, ApplyVideo DEF m
    <3>2. Kept(m, m2) /\ ~Pending(m2)
      BY <1>2, VideoKeeps
    <3> HIDE DEF m2
    <3> QED BY <2>4, <3>1, <3>2
  <2> QED BY <1>3, <2>1, <2>2, <2>3, <2>4
<1>6. Kept(ms[Len(ms)], m2)
  BY <1>5 DEF m
<1>7. /\ Good(X, count) /\ Target(X, count) /\ X[Len(X)] = m2 /\ (OnlyLast(ms) => Settled(X))
  BY <1>1, <1>5, <1>6, UpdateKeeps
<1>8. ASSUME u.op = "complete", NEW k, NEW t, Received(m, <<>>, k, t) PROVE AllShown(X, count, k, t)
  <2>1. m2.status = "complete" /\ m2.content = m.content
    BY <1>5, <1>8 DEF Received
  <2>2. Edits(m2) <=> Edits(m)
    BY <2>1 DEF Edits
  <2>3. ~Edits(m) /\ (k = "snapshots" \/ NothingRepeats(t)) => Spells(m.content, t)
    <3>1. m.content \in Seq(Glyph)
      BY <1>2 DEF Message
    <3> QED BY <1>8, <3>1, CarriesAll DEF Received
  <2>4. \A i \in 1..Len(X) : X[i].from = "assistant" /\ X[i].req = count => X[i] = m2
    BY <1>7 DEF Target
  <2> QED BY <2>1, <2>2, <2>3, <2>4 DEF AllShown
<1> QED BY <1>4, <1>7, <1>8 DEF m

LEMMA FlushIsUpdate ==
  ASSUME RequestsOK, FlagsOK
  PROVE  [op |-> "flush", gen |-> gen, chunks |-> pend.chunks] \in Update
BY DEF RequestsOK, FlagsOK, Update

LEMMA PairConcat == ASSUME NEW a, NEW b PROVE <<a>> \o <<b>> = <<a, b>>
<1> DEFINE s == <<a>> \o <<b>>
           t == <<a, b>>
<1>1. s \in Seq({a, b}) /\ Len(s) = 2 /\ s[1] = a /\ s[2] = b
  OBVIOUS
<1>2. t \in Seq({a, b}) /\ Len(t) = 2 /\ t[1] = a /\ t[2] = b
  OBVIOUS
<1> HIDE DEF s, t
<1>3. \A i \in 1..Len(s) : s[i] = t[i]
  BY <1>1, <1>2
<1>4. s = t
  BY <1>1, <1>2, <1>3, SeqEqual
<1> QED BY <1>4 DEF s, t

\* The chunks received are flushed by the timer.
LEMMA FlushTimerView ==
  ASSUME RequestsOK, FlagsOK, ControlInv, ViewInv, pend.chunks # <<>>,
         Enqueue(<<[op |-> "flush", gen |-> gen, chunks |-> pend.chunks]>>),
         UNCHANGED <<messages, count, flags, gen, saved, overwritten>>
  PROVE  /\ ViewInv' /\ flags # Idle
         /\ LET S == Screen(gen)
                Z == Screen(gen)'
            IN  \A k, t : Received(S[Len(S)], pend.chunks, k, t) => Received(Z[Len(Z)], <<>>, k, t)
<1> DEFINE f == [op |-> "flush", gen |-> gen, chunks |-> pend.chunks]
           S == Screen(gen)
           Y == Apply(f, S, gen)
<1>1. flags # Idle
  BY FlagValues DEF ControlInv, PendInv
<1>2. Good(S, count) /\ Target(S, count) /\ (~overwritten => OnlyLast(S))
  BY <1>1 DEF ViewInv, Live, Sound
<1> HIDE DEF S
<1>3. /\ Good(Y, count) /\ Target(Y, count) /\ (OnlyLast(S) => OnlyLast(Y))
      /\ \A k, t : Received(S[Len(S)], pend.chunks, k, t) => Received(Y[Len(Y)], <<>>, k, t)
  BY <1>2, FlushView
<1>4. f \in Update /\ f.op = "flush" /\ f.gen = gen /\ gen \in Nat /\ f.gen # gen + 1 /\ Enqueue(<<f>>)
  BY FlushIsUpdate DEF RequestsOK
<1> HIDE DEF f, Y
<1>5. Y \in Seq(Message) /\ Y = Apply(f, Screen(gen), gen)
  BY <1>3 DEF Good, Y, S
<1>6. /\ queue' \in Seq(Update) /\ Screen(gen)' = Y /\ latest' \in {latest, Y}
      /\ Screen(gen + 1)' \in {Apply(f, Screen(gen + 1), gen + 1), Y}
  BY <1>4, <1>5, EnqueueOne
<1>7. Apply(f, Screen(gen + 1), gen + 1) = Screen(gen + 1)
  BY <1>4, ApplyStale
<1>8. ViewInv'
  <2>1. Live(messages)' /\ Sound(saved)'
    BY DEF ViewInv, Live, Sound
  <2>2. Live(Screen(gen))'
    BY <1>2, <1>3, <1>6 DEF Live, Sound
  <2>3. Live(Screen(gen + 1))'
    BY <1>2, <1>3, <1>6, <1>7 DEF ViewInv, Live, Sound
  <2>4. Sound(latest)'
    BY <1>2, <1>3, <1>6 DEF ViewInv, Sound
  <2> QED BY <1>1, <1>6, <2>1, <2>2, <2>3, <2>4 DEF ViewInv
<1> QED BY <1>1, <1>3, <1>6, <1>8 DEF S

\* A request settles: its chunks are flushed and its last update follows.
LEMMA SettleView ==
  ASSUME RequestsOK, FlagsOK, ControlInv, ViewInv, NEW r \in Req, NEW u, Settles(r, u)
  PROVE  /\ ViewInv'
         /\ LET S == Screen(gen)
                Z == Screen(gen)'
            IN  \A k, t : u.op = "complete" /\ Received(S[Len(S)], pend.chunks, k, t) => AllShown(Z, r, k, t)
<1> DEFINE f == [op |-> "flush", gen |-> gen, chunks |-> pend.chunks]
           S == Screen(gen)
           Y == Apply(f, S, gen)
<1>1. /\ Running(r) /\ UNCHANGED <<messages, count, gen, saved, overwritten>> /\ flags' = Idle
      /\ Enqueue(FlushUpdate(gen) \o <<u>>) /\ Final(u, r)
  BY DEF Settles
<1>2. r = count /\ flags # Idle /\ gen \in Nat /\ pend.gen = gen
  BY <1>1, RunningIsShown DEF ControlInv, RunInv, RequestsOK, PendInv
<1>3. Good(S, count) /\ Target(S, count) /\ (~overwritten => OnlyLast(S))
  BY <1>2 DEF ViewInv, Live, Sound
<1>4. /\ Good(Screen(gen + 1), count) /\ Target(Screen(gen + 1), count)
      /\ ~overwritten => OnlyLast(Screen(gen + 1))
  BY <1>2 DEF ViewInv, Live, Sound
<1>5. u \in Update /\ Final(u, count)
  BY <1>1, <1>2 DEF Final, Update
<1> HIDE DEF S
<1>6. PICK T : /\ Good(T, count) /\ Target(T, count) /\ (~overwritten => OnlyLast(T))
               /\ \A k, t : Received(S[Len(S)], pend.chunks, k, t) => Received(T[Len(T)], <<>>, k, t)
               /\ queue' \in Seq(Update) /\ Screen(gen)' = Apply(u, T, gen)
               /\ latest' \in {latest, T, Apply(u, T, gen)}
               /\ Screen(gen + 1)' \in {Apply(u, Screen(gen + 1), gen + 1), Apply(u, T, gen + 1), Apply(u, T, gen)}
  <2>1. CASE pend.chunks = <<>>
    <3>1. FlushUpdate(gen) \o <<u>> = <<u>>
      <4>1. FlushUpdate(gen) = <<>>
        BY <2>1 DEF FlushUpdate
      <4> QED BY <4>1
    <3>2. Enqueue(<<u>>)
      BY <1>1, <3>1
    <3> DEFINE X == Apply(u, S, gen)
    <3>3. Good(X, count)
      BY <1>3, <1>5, FinalView
    <3>4. X \in Seq(Message) /\ X = Apply(u, Screen(gen), gen)
      BY <3>3 DEF Good, S
    <3> HIDE DEF X
    <3>5. /\ queue' \in Seq(Update) /\ Screen(gen)' = X /\ latest' \in {latest, X}
          /\ Screen(gen + 1)' \in {Apply(u, Screen(gen + 1), gen + 1), X}
      BY <1>1, <1>2, <1>5, <3>2, <3>4, EnqueueOne
    <3> WITNESS S
    <3> QED BY <1>3, <2>1, <3>5 DEF X
  <2>2. CASE pend.chunks # <<>>
    <3>1. FlushUpdate(gen) \o <<u>> = <<f, u>>
      <4>1. FlushUpdate(gen) = <<f>>
        BY <1>2, <2>2 DEF FlushUpdate
      <4> HIDE DEF f
      <4> QED BY <4>1, PairConcat, Zenon
    <3>2. Enqueue(<<f, u>>)
      BY <1>1, <3>1
    <3>3. f \in Update /\ f.op = "flush" /\ f.gen = gen /\ f.gen # gen + 1
      BY <1>2, FlushIsUpdate
    <3>4. /\ Good(Y, count) /\ Target(Y, count) /\ (OnlyLast(S) => OnlyLast(Y))
          /\ \A k, t : Received(S[Len(S)], pend.chunks, k, t) => Received(Y[Len(Y)], <<>>, k, t)
      BY <1>3, <2>2, FlushView
    <3> HIDE DEF f, Y
    <3>5. Y \in Seq(Message) /\ Y = Apply(f, Screen(gen), gen)
      BY <3>4 DEF Good, Y, S
    <3>6. /\ queue' \in Seq(Update) /\ Screen(gen)' = Apply(u, Y, gen) /\ latest' \in {latest, Y}
          /\ \/ Screen(gen + 1)' = Apply(u, Apply(f, Screen(gen + 1), gen + 1), gen + 1)
             \/ Screen(gen + 1)' = Apply(u, Y, gen + 1)
      BY <1>1, <1>2, <1>5, <3>2, <3>3, <3>5, EnqueueTwo
    <3>7. Apply(f, Screen(gen + 1), gen + 1) = Screen(gen + 1)
      BY <3>3, ApplyStale
    <3> WITNESS Y
    <3> QED BY <1>3, <3>4, <3>6, <3>7
  <2> QED BY <2>1, <2>2
<1> DEFINE X == Apply(u, T, gen)
<1>7. /\ Good(X, count) /\ (OnlyLast(T) => Settled(X)) /\ Apply(u, T, gen + 1) \in {T, X}
      /\ u.op = "complete" => \A k, t : Received(T[Len(T)], <<>>, k, t) => AllShown(X, count, k, t)
  BY <1>5, <1>6, FinalView
<1>8. /\ Good(Apply(u, Screen(gen + 1), gen), count)
      /\ ~overwritten => Settled(Apply(u, Screen(gen + 1), gen))
      /\ Apply(u, Screen(gen + 1), gen + 1) \in {Screen(gen + 1), Apply(u, Screen(gen + 1), gen)}
  BY <1>4, <1>5, FinalView
<1>9. Good(Screen(gen + 1)', count) /\ (~overwritten => OnlyLast(Screen(gen + 1)'))
  BY <1>4, <1>6, <1>7, <1>8, SettledIsLast
<1>10. Good(latest', count) /\ (~overwritten => OnlyLast(latest'))
  BY <1>6, <1>7, SettledIsLast DEF ViewInv, Sound
<1>11. Good(Screen(gen)', count) /\ (~overwritten => OnlyLast(Screen(gen)') /\ Settled(Screen(gen)'))
  BY <1>6, <1>7, SettledIsLast
<1>12. Good(messages', count) /\ (~overwritten => OnlyLast(messages')) /\ Sound(saved)'
  BY <1>1 DEF ViewInv, Live, Sound
<1>13. ViewInv'
  BY <1>1, <1>6, <1>9, <1>10, <1>11, <1>12 DEF ViewInv, Live, Sound
<1> QED BY <1>2, <1>6, <1>7, <1>13 DEF S

\* A step that leaves the messages alone, while the flags stay up or down.
LEMMA QuietView ==
  ASSUME ViewInv, UNCHANGED <<messages, queue, latest, count, gen, overwritten>>,
         saved' \in {saved, latest}, flags' = Idle <=> flags = Idle
  PROVE  ViewInv' /\ Screen(gen)' = Screen(gen)
<1>1. Screen(gen)' = Screen(gen) /\ Screen(gen + 1)' = Screen(gen + 1)
  BY DEF Screen
<1>2. Live(messages)' /\ Live(Screen(gen))' /\ Live(Screen(gen + 1))'
  BY <1>1 DEF ViewInv, Live, Sound
<1>3. Sound(latest)' /\ Sound(saved)'
  BY DEF ViewInv, Sound
<1> QED BY <1>1, <1>2, <1>3 DEF ViewInv

-----------------------------------------------------------------------------
(* Chunks                                                                  *)

\* A stream has its text in its message or pending; one that is done has all of
\* it in its message.
ChunkInv ==
  ~overwritten =>
    \A r \in Req :
      LET S == Screen(gen)
      IN  /\ Running(r) /\ req[r].phase \in {"headers", "open", "silent"} =>
               Received(S[Len(S)], pend.chunks, req[r].kind, req[r].text)
          /\ req[r].phase = "complete" /\ req[r].gen = gen => AllShown(S, r, req[r].kind, req[r].text)

\* No chunk moves, and the messages to come show at least as much.
LEMMA QuietChunks ==
  ASSUME ChunkInv, UNCHANGED <<gen, pend>>, ~overwritten' => ~overwritten,
         \A r \in Req :
           /\ Running(r)' /\ req'[r].phase \in {"headers", "open", "silent"} =>
                Running(r) /\ req[r].phase \in {"headers", "open", "silent"} /\ SameText(r)
           /\ req'[r].phase = "complete" => req'[r] = req[r],
         LET S == Screen(gen)
             Z == Screen(gen)'
         IN  ~overwritten' =>
               \A r \in Req :
                 /\ Running(r) => \A cs, k, t : Received(S[Len(S)], cs, k, t) => Received(Z[Len(Z)], cs, k, t)
                 /\ req[r].phase = "complete" => \A k, t : AllShown(S, r, k, t) => AllShown(Z, r, k, t)
  PROVE  ChunkInv'
BY DEF ChunkInv, SameText

LEMMA StartChunks ==
  ASSUME RequestsOK, StreamInv, FlagsOK, ControlInv, ControlInv', NEW kind \in Kind, count < MaxSends,
         count' = count + 1, sendChat(count', kind),
         LET S == Screen(gen)' IN S[Len(S)] = Loading(count')
  PROVE  ChunkInv'
<1> DEFINE new == [kind |-> kind, gen |-> gen', sgen |-> sgen', text |-> <<>>,
                   phase |-> IF kind \in Streams THEN "headers" ELSE "await"]
           old == Abandon({source, abort} \ {0})
<1>1. count' \in Req /\ gen' = gen + 1 /\ req' = [old EXCEPT ![count'] = new]
      /\ pend' = [gen |-> gen', chunks |-> <<>>]
  BY DEF sendChat, discardPendingStreamUpdates, RequestsOK, Req
<1>2. new.text = <<>> /\ new.phase \in {"headers", "await"}
  OBVIOUS
<1>3. old \in [Req -> Request] /\ \A q \in Req : old[q].phase = "ended" \/ old[q] = req[q]
  BY Abandoned
<1> HIDE DEF new, old
<1>4. /\ req'[count'].text = <<>> /\ req'[count'].phase # "complete" /\ pend'.chunks = <<>>
      /\ \A q \in Req : q # count' => req'[q].phase = "ended" \/ req'[q] = req[q]
  BY <1>1, <1>2, <1>3
<1>5. \A q \in Req : Running(q)' => q = count'
  BY DEF ControlInv, RunInv
<1>6. \A q \in Req : req'[q].phase = "complete" => req'[q].gen # gen'
  <2> TAKE q \in Req
  <2>1. req[q].phase = "complete" => req[q].gen <= gen
    BY DEF ControlInv, DoneInv
  <2>2. req[q].gen \in Nat /\ gen \in Nat
    BY DEF RequestsOK, Request
  <2> QED BY <1>1, <1>4, <2>1, <2>2
<1>7. \A k : Received(Loading(count'), <<>>, k, <<>>)
  <2>1. Loading(count').content = <<>> /\ Loading(count').status = "loading"
    BY DEF Loading
  <2>2. \A k : Carries(<<>>, <<>>, k, <<>>)
    <3>1. Spells(<<>>, <<>>) /\ <<>> \o <<>> = <<>>
      BY DEF Spells
    <3> QED BY <3>1 DEF Carries
  <2> QED BY <2>1, <2>2 DEF Received, Pending
<1> QED BY <1>4, <1>5, <1>6, <1>7 DEF ChunkInv

\* Nothing runs and nothing is done in the current generation.
LEMMA NoStreamChunks ==
  ASSUME \A r \in Req : ~Running(r)' /\ ~(req'[r].phase = "complete" /\ req'[r].gen = gen')
  PROVE  ChunkInv'
BY DEF ChunkInv

LEMMA IdleIsQuiet ==
  /\ ControlInv /\ flags = Idle => \A r \in Req : ~Running(r)
  /\ ControlInv' /\ flags' = Idle => \A r \in Req : ~Running(r)'
<1>1. ASSUME ControlInv, flags = Idle, NEW r \in Req, Running(r) PROVE FALSE
  <2>1. req[r].phase \in {"headers", "await", "sleep"} \/ req[r].phase \in {"open", "silent"}
    BY <1>1 DEF Running
  <2> QED BY <1>1, <2>1, FlagValues DEF ControlInv, RunInv
<1>2. ASSUME ControlInv', flags' = Idle, NEW r \in Req, Running(r)' PROVE FALSE
  <2>1. req'[r].phase \in {"headers", "await", "sleep"} \/ req'[r].phase \in {"open", "silent"}
    BY <1>2 DEF Running
  <2> QED BY <1>2, <2>1, FlagValues DEF ControlInv, RunInv
<1> QED BY <1>1, <1>2

\* Steps of the requests that leave messages and pending chunks alone.
LEMMA ViewsRest ==
  ASSUME RequestsOK, ViewInv, ChunkInv, UNCHANGED <<messages, queue, latest, count, gen, pend, overwritten>>,
         saved' \in {saved, latest}, flags' = Idle <=> flags = Idle,
         \A r \in Req :
           /\ Running(r)' /\ req'[r].phase \in {"headers", "open", "silent"} =>
                Running(r) /\ req[r].phase \in {"headers", "open", "silent"} /\ SameText(r)
           /\ req'[r].phase = "complete" => req'[r] = req[r]
  PROVE  ViewInv' /\ ChunkInv'
<1>1. ViewInv' /\ Screen(gen)' = Screen(gen)
  BY QuietView
<1>2. ChunkInv'
  BY <1>1, QuietChunks
<1> QED BY <1>1, <1>2

\* The steps that render messages without starting or stopping a request.
LEMMA RenderedStep ==
  ASSUME RequestsOK, StreamInv, FlagsOK, ControlInv, ViewInv, ChunkInv,
         \/ Render \/ ClearMessages
         \/ \E i \in DOMAIN messages : SaveEdit(i) \/ DeleteMessage(i)
  PROVE  ViewInv' /\ ChunkInv'
<1>0. UNCHANGED <<req, gen, sgen, pend>>
  BY DEF Render, ClearMessages, SaveEdit, DeleteMessage, chat
<1>1. \A r \in Req : Running(r)' <=> Running(r)
  BY <1>0 DEF Running
<1>2. CASE Render
  <2>1. ViewInv' /\ Screen(gen)' = Screen(gen) /\ overwritten' = overwritten
    BY <1>2, RenderView DEF Render
  <2> QED BY <1>0, <1>1, <2>1, QuietChunks DEF SameText
<1>3. CASE ClearMessages
  <2>1. ViewInv' /\ Screen(gen)' = <<>> /\ overwritten' = overwritten /\ ~shown
    BY <1>3, ClearView DEF ClearMessages
  <2>2. \A r, k, t : AllShown(<<>>, r, k, t)
    BY DEF AllShown
  <2>3. \A r \in Req : ~Running(r)
    BY <2>1, NotShown, IdleIsQuiet
  <2> QED BY <1>0, <1>1, <2>1, <2>2, <2>3, QuietChunks
<1>4. ASSUME NEW i \in DOMAIN messages, DeleteMessage(i) PROVE ViewInv' /\ ChunkInv'
  <2>1. ViewInv' /\ Drawn(Screen(gen)', Screen(gen)) /\ overwritten' = overwritten /\ ~shown
    BY <1>4, DeleteView DEF DeleteMessage
  <2>2. \A r, k, t : AllShown(Screen(gen), r, k, t) => AllShown(Screen(gen)', r, k, t)
    BY <2>1, DrawnKeeps
  <2>3. \A r \in Req : ~Running(r)
    BY <2>1, NotShown, IdleIsQuiet
  <2> QED BY <1>0, <1>1, <2>1, <2>2, <2>3, QuietChunks
<1>5. ASSUME NEW i \in DOMAIN messages, SaveEdit(i) PROVE ViewInv' /\ ChunkInv'
  <2>1. /\ ViewInv' /\ Screen(gen)' = EditOf(messages, i) /\ i \in 1..Len(messages)
        /\ ~overwritten' => ~overwritten /\ Screen(gen) = messages
    BY <1>5, SaveEditView DEF Edited, EditOf
  <2>2. Good(messages, count) /\ count \in Nat
    BY DEF ViewInv, Live, Sound, RequestsOK
  <2> DEFINE Z == Screen(gen)'
  <2>3. /\ \A cs, k, t : FromAssistant(messages) /\ Received(messages[Len(messages)], cs, k, t) =>
                           Received(Z[Len(Z)], cs, k, t)
        /\ \A r, k, t : AllShown(messages, r, k, t) => AllShown(Z, r, k, t)
    <3> HIDE DEF Z
    <3>1. Z = EditOf(messages, i)
      BY <2>1 DEF Z
    <3> QED BY <2>1, <2>2, <3>1, EditKeeps
  <2>4. \A r \in Req : Running(r) => FromAssistant(messages)
    BY RunningIsShown DEF ViewInv, Live, Target, FromAssistant
  <2> HIDE DEF Z
  <2>5. LET S == Screen(gen)
        IN  ~overwritten' =>
              \A r \in Req :
                /\ Running(r) => \A cs, k, t : Received(S[Len(S)], cs, k, t) => Received(Z[Len(Z)], cs, k, t)
                /\ req[r].phase = "complete" => \A k, t : AllShown(S, r, k, t) => AllShown(Z, r, k, t)
    BY <2>1, <2>3, <2>4
  <2> QED BY <1>0, <1>1, <2>1, <2>5, QuietChunks DEF Z, SameText
<1> QED BY <1>2, <1>3, <1>4, <1>5

LEMMA StartedStep ==
  ASSUME RequestsOK, StreamInv, FlagsOK, ControlInv, ControlInv', ViewInv, NEW kind \in Kind,
         SendMessage(kind) \/ \E i \in DOMAIN messages : RegenerateMessage(i, kind) \/ SubmitEdit(i, kind)
  PROVE  ViewInv' /\ ChunkInv'
<1>1. count < MaxSends /\ count' = count + 1 /\ sendChat(count', kind)
  BY DEF SendMessage, RegenerateMessage, SubmitEdit, Start
<1>2. ViewInv' /\ LET S == Screen(gen)' IN S[Len(S)] = Loading(count')
  BY SendView, RegenerateView, SubmitView
<1> QED BY <1>1, <1>2, StartChunks

LEMMA StoppedStep ==
  ASSUME RequestsOK, StreamInv, FlagsOK, ControlInv, ControlInv', ViewInv, StopGeneration \/ Leave \/ Close
  PROVE  ViewInv' /\ ChunkInv'
<1>1. CASE StopGeneration
  <2>1. flags' = Idle /\ gen' = gen + 1 /\ req' = Abandon({source, abort} \ {0})
    BY <1>1 DEF StopGeneration
  <2>2. \A q \in Req : req'[q].phase = "ended" \/ req'[q] = req[q]
    BY <2>1, Abandoned
  <2>3. \A q \in Req : ~(req'[q].phase = "complete" /\ req'[q].gen = gen')
    <3> TAKE q \in Req
    <3>1. req[q].phase = "complete" => req[q].gen <= gen
      BY DEF ControlInv, DoneInv
    <3>2. req[q].gen \in Nat /\ gen \in Nat
      BY DEF RequestsOK, Request
    <3> QED BY <2>1, <2>2, <3>1, <3>2
  <2>4. ChunkInv'
    BY <2>1, <2>3, IdleIsQuiet, NoStreamChunks
  <2> QED BY <1>1, <2>4, StopView
<1>2. CASE Leave \/ Close
  <2>1. flags' = Idle /\ gen' = 0 /\ req' = Abandon({r \in Req : req[r].phase # "none"})
    BY <1>2 DEF Leave, Close, Reopen
  <2>2. \A q \in Req : req'[q].phase \in {"ended", "none"}
    <3> DEFINE rs == {r \in Req : req[r].phase # "none"}
    <3>1. \A q \in Req : q \in rs <=> req[q].phase # "none"
      OBVIOUS
    <3> HIDE DEF rs
    <3>2. (\A q \in Req : Abandon(rs)[q] = IF q \in rs THEN Ended ELSE req[q]) /\ Ended.phase = "ended"
      BY Abandoned
    <3>3. req' = Abandon(rs)
      BY <2>1 DEF rs
    <3> QED BY <3>1, <3>2, <3>3
  <2>3. ChunkInv'
    BY <2>1, <2>2, IdleIsQuiet, NoStreamChunks
  <2> QED BY <1>2, <2>3, ReopenView
<1> QED BY <1>1, <1>2

LEMMA AnsweredStep ==
  ASSUME RequestsOK, StreamInv, FlagsOK, ControlInv, ControlInv', ViewInv, ChunkInv, NEW r \in Req, NEW u,
         Settles(r, u)
  PROVE  ViewInv' /\ ChunkInv'
<1> DEFINE S == Screen(gen)
           Z == Screen(gen)'
<1>1. /\ ViewInv'
      /\ \A k, t : u.op = "complete" /\ Received(S[Len(S)], pend.chunks, k, t) => AllShown(Z, r, k, t)
  BY SettleView
<1>2. /\ Running(r) /\ flags' = Idle /\ gen' = gen /\ overwritten' = overwritten
      /\ \A q \in Req \ {r} : req'[q] = req[q]
      /\ \/ req'[r].phase = "ended"
         \/ SameText(r) /\ u.op = "complete" /\ req[r].phase = "open"
  BY DEF Settles
<1>3. \A q \in Req : ~Running(q)'
  BY <1>2, IdleIsQuiet
<1>4. \A q \in Req \ {r} : ~(req[q].phase = "complete" /\ req[q].gen = gen)
  BY <1>2, RunningIsShown DEF ControlInv, DoneInv
<1>5. ASSUME ~overwritten, req'[r].phase = "complete" PROVE AllShown(Z, r, req'[r].kind, req'[r].text)
  <2>1. SameText(r) /\ u.op = "complete" /\ req[r].phase = "open"
    BY <1>2, <1>5
  <2>2. Received(S[Len(S)], pend.chunks, req[r].kind, req[r].text)
    BY <1>2, <1>5, <2>1 DEF ChunkInv
  <2> QED BY <1>1, <2>1, <2>2 DEF SameText
<1>6. ChunkInv'
  <2> HIDE DEF S
  <2> QED BY <1>2, <1>3, <1>4, <1>5 DEF ChunkInv
<1> QED BY <1>1, <1>6

LEMMA ChunkStep ==
  ASSUME RequestsOK, StreamInv, FlagsOK, ControlInv, ControlInv', ViewInv, ChunkInv,
         FlushTimer \/ \E r \in Req, c \in Char : StreamChunk(r, c)
  PROVE  ViewInv' /\ ChunkInv'
<1>1. CASE FlushTimer
  <2>1. UNCHANGED <<messages, req, count, flags, gen, sgen, saved, overwritten>>
    BY <1>1 DEF FlushTimer
  <2>2. CASE /\ pend.chunks # <<>> /\ pend' = [gen |-> gen, chunks |-> <<>>]
             /\ Enqueue(<<[op |-> "flush", gen |-> gen, chunks |-> pend.chunks]>>)
    <3> DEFINE S == Screen(gen)
               Z == Screen(gen)'
    <3>1. /\ ViewInv' /\ flags # Idle
          /\ \A k, t : Received(S[Len(S)], pend.chunks, k, t) => Received(Z[Len(Z)], <<>>, k, t)
      BY <2>1, <2>2, FlushTimerView
    <3>2. pend'.chunks = <<>>
      BY <2>2
    <3>3. \A q \in Req : ~(req[q].phase = "complete" /\ req[q].gen = gen)
      BY <3>1 DEF ControlInv, DoneInv
    <3>4. \A q \in Req : Running(q)' <=> Running(q)
      BY <2>1 DEF Running
    <3>5. ASSUME ~overwritten, NEW q \in Req, Running(q), req[q].phase \in {"headers", "open", "silent"}
          PROVE  Received(Z[Len(Z)], <<>>, req[q].kind, req[q].text)
      BY <3>1, <3>5 DEF ChunkInv
    <3> HIDE DEF S
    <3>6. ChunkInv'
      BY <2>1, <3>2, <3>3, <3>4, <3>5 DEF ChunkInv
    <3> QED BY <3>1, <3>6
  <2>3. CASE UNCHANGED <<queue, latest, pend>>
    <3>1. \A q \in Req : Running(q)' <=> Running(q)
      BY <2>1 DEF Running
    <3> QED BY <2>1, <2>3, <3>1, ViewsRest DEF SameText
  <2> QED BY <1>1, <2>2, <2>3, FlushControl
<1>2. ASSUME NEW r \in Req, NEW c \in Char, StreamChunk(r, c) PROVE ViewInv' /\ ChunkInv'
  <2>1. UNCHANGED <<messages, queue, latest, count, flags, gen, sgen, saved, overwritten>>
    BY <1>2 DEF StreamChunk, view
  <2>2. ViewInv' /\ Screen(gen)' = Screen(gen)
    BY <2>1, QuietView
  <2>3. /\ Running(r) /\ req[r].phase = "open" /\ req'[r].phase = "open"
        /\ req'[r].kind = req[r].kind /\ req'[r].text = Append(req[r].text, c)
        /\ \A q \in Req \ {r} : req'[q] = req[q]
        /\ pend' = [gen |-> gen, chunks |-> PendingWith(r, c)]
    BY <1>2, ChunkControl
  <2> DEFINE S == Screen(gen)
             m == S[Len(S)]
  <2>4. m.content \in Seq(Glyph)
    <3>1. S \in Seq(Message) /\ S # <<>>
      BY <2>3, RunningIsShown DEF ViewInv, Live, Sound, Good, Target
    <3> HIDE DEF S
    <3>2. S[Len(S)] \in Message
      BY <3>1
    <3> QED BY <3>2 DEF Message
  <2> HIDE DEF S, m
  <2>5. Received(m, pend.chunks, req[r].kind, req[r].text) =>
          Received(m, PendingWith(r, c), req[r].kind, Append(req[r].text, c))
    <3>1. req[r].text \in Seq(Char) /\ pend.chunks \in Seq(Glyph)
      BY DEF RequestsOK, Request, FlagsOK
    <3>2. Carries(m.content, pend.chunks, req[r].kind, req[r].text) =>
            Carries(m.content, PendingWith(r, c), req[r].kind, Append(req[r].text, c))
      BY <2>4, <3>1, ChunkCarries DEF PendingWith, NewChunk
    <3> QED BY <3>2 DEF Received
  <2>6. ~overwritten => Received(m, pend.chunks, req[r].kind, req[r].text)
    BY <2>3 DEF ChunkInv, S, m
  <2>7. \A q \in Req : Running(q)' => q = r
    BY <2>1, <2>3, OneRuns DEF Running
  <2>8. pend'.chunks = PendingWith(r, c)
    BY <2>3
  <2>9. ~overwritten => Received(m, pend'.chunks, req'[r].kind, req'[r].text)
    BY <2>3, <2>5, <2>6, <2>8
  <2>10. ChunkInv'
    <3>1. \A q \in Req : req'[q].phase = "complete" => req'[q] = req[q]
      BY <2>3
    <3> QED BY <2>1, <2>2, <2>7, <2>9, <3>1 DEF ChunkInv, S, m
  <2> QED BY <2>2, <2>10
<1> QED BY <1>1, <1>2

LEMMA RestStep ==
  ASSUME RequestsOK, StreamInv, FlagsOK, ControlInv, ControlInv', ViewInv, ChunkInv,
         \/ Save \/ CancelEdit \/ (\E i \in DOMAIN messages : EditMessage(i)) \/ UNCHANGED vars
         \/ \E r \in Req : \/ Headers(r) \/ (HeadersFail(r) /\ req[r].sgen # sgen)
                           \/ StreamSilent(r) \/ VideoPending(r) \/ PollVideo(r)
  PROVE  ViewInv' /\ ChunkInv'
<1>1. CASE Save \/ CancelEdit \/ (\E i \in DOMAIN messages : EditMessage(i)) \/ UNCHANGED vars
  <2>1. UNCHANGED <<messages, queue, latest, count, req, gen, sgen, pend, flags, overwritten>>
        /\ saved' \in {saved, latest}
    BY <1>1 DEF Save, CancelEdit, EditMessage, vars, view, chat
  <2>2. \A q \in Req : Running(q)' <=> Running(q)
    BY <2>1 DEF Running
  <2> QED BY <2>1, <2>2, ViewsRest DEF SameText
<1>2. ASSUME NEW r \in Req, Headers(r) PROVE ViewInv' /\ ChunkInv'
  <2>1. req[r].phase = "headers" /\ UNCHANGED <<messages, queue, latest, count, gen, sgen, pend, saved, overwritten>>
    BY <1>2 DEF Headers, view
  <2>2. CASE req[r].sgen # sgen
    <3>1. Ends(r) /\ flags' = flags
      BY <1>2, <2>2 DEF Headers
    <3>2. req'[r].phase = "ended" /\ \A q \in Req \ {r} : req'[q] = req[q]
      BY <3>1, EndsPhase
    <3>3. \A q \in Req \ {r} : Running(q)' <=> Running(q)
      BY <2>1, <3>2 DEF Running
    <3> QED BY <2>1, <3>1, <3>2, <3>3, ViewsRest DEF SameText
  <2>3. CASE req[r].sgen = sgen
    <3>1. Moves(r, "open") /\ flags' = [flags EXCEPT !.streaming = TRUE] /\ Running(r)
      BY <1>2, <2>1, <2>3 DEF Headers, Running
    <3>2. req'[r].phase = "open" /\ (\A q \in Req \ {r} : req'[q] = req[q])
      BY <3>1, PhaseMoved DEF Phases
    <3>3. SameText(r)
      BY <3>1, MovesText
    <3>4. flags # Idle /\ flags' # Idle
      <4>1. flags'.streaming
        BY <3>1 DEF FlagsOK
      <4> QED BY <3>1, <4>1, RunningIsShown, FlagValues
    <3>5. \A q \in Req \ {r} : Running(q)' <=> Running(q)
      BY <2>1, <3>2 DEF Running
    <3> QED BY <2>1, <3>1, <3>2, <3>3, <3>4, <3>5, ViewsRest DEF SameText
  <2> QED BY <2>2, <2>3
<1>3. ASSUME NEW r \in Req, HeadersFail(r), req[r].sgen # sgen PROVE ViewInv' /\ ChunkInv'
  <2>1. Ends(r) /\ UNCHANGED <<view, chat, count, saved, overwritten>>
    BY <1>3 DEF HeadersFail
  <2>2. UNCHANGED <<messages, queue, latest, flags, gen, sgen, pend, count, saved, overwritten>>
    BY <2>1 DEF view, chat
  <2>3. req'[r].phase = "ended" /\ \A q \in Req \ {r} : req'[q] = req[q]
    BY <2>1, EndsPhase
  <2>4. \A q \in Req \ {r} : Running(q)' <=> Running(q)
    BY <2>2, <2>3 DEF Running
  <2> QED BY <2>2, <2>3, <2>4, ViewsRest DEF SameText
<1>4. ASSUME NEW r \in Req, StreamSilent(r) \/ VideoPending(r) \/ PollVideo(r) PROVE ViewInv' /\ ChunkInv'
  <2>1. UNCHANGED <<view, chat, count, saved, overwritten>>
    BY <1>4 DEF StreamSilent, VideoPending, PollVideo
  <2>2. UNCHANGED <<messages, queue, latest, flags, gen, sgen, pend, count, saved, overwritten>>
    BY <2>1 DEF view, chat
  <2>3. /\ Running(r) /\ \A q \in Req \ {r} : req'[q] = req[q]
        /\ \/ req[r].phase = "open" /\ req'[r].phase = "silent" /\ SameText(r)
           \/ {req[r].phase, req'[r].phase} \subseteq {"await", "sleep"}
    BY <1>4, MovesControl
  <2>4. \A q \in Req \ {r} : Running(q)' <=> Running(q)
    BY <2>2, <2>3 DEF Running
  <2> QED BY <2>2, <2>3, <2>4, ViewsRest DEF SameText
<1> QED BY <1>1, <1>2, <1>3, <1>4

ChatInv == RequestsOK /\ StreamInv /\ FlagsOK /\ ControlInv /\ ViewInv /\ ChunkInv

LEMMA ChatStep == ChatInv /\ [Next]_vars => ChatInv'
<1> SUFFICES ASSUME ChatInv, [Next]_vars PROVE ChatInv'
  OBVIOUS
<1>0. RequestsOK /\ StreamInv /\ FlagsOK /\ ControlInv /\ ViewInv /\ ChunkInv
  BY DEF ChatInv
<1>1. RequestsOK' /\ StreamInv' /\ FlagsOK' /\ ControlInv'
  BY <1>0, StreamStep, ControlStep
<1>2. CASE \/ Render \/ ClearMessages
           \/ \E i \in DOMAIN messages : SaveEdit(i) \/ DeleteMessage(i)
  BY <1>0, <1>1, <1>2, RenderedStep DEF ChatInv
<1>3. ASSUME NEW kind \in Kind,
             SendMessage(kind) \/ \E i \in DOMAIN messages : RegenerateMessage(i, kind) \/ SubmitEdit(i, kind)
      PROVE  ChatInv'
  BY <1>0, <1>1, <1>3, StartedStep DEF ChatInv
<1>4. CASE StopGeneration \/ Leave \/ Close
  BY <1>0, <1>1, <1>4, StoppedStep DEF ChatInv
<1>5. CASE FlushTimer \/ \E r \in Req, c \in Char : StreamChunk(r, c)
  BY <1>0, <1>1, <1>5, ChunkStep DEF ChatInv
<1>6. CASE \/ Save \/ CancelEdit \/ (\E i \in DOMAIN messages : EditMessage(i)) \/ UNCHANGED vars
           \/ \E r \in Req : \/ Headers(r) \/ (HeadersFail(r) /\ req[r].sgen # sgen)
                             \/ StreamSilent(r) \/ VideoPending(r) \/ PollVideo(r)
  BY <1>0, <1>1, <1>6, RestStep DEF ChatInv
<1>7. ASSUME NEW r \in Req, \/ HeadersFail(r) /\ req[r].sgen = sgen
                            \/ StreamDone(r) \/ StreamError(r) \/ Answer(r) \/ AnswerFails(r)
      PROVE  ChatInv'
  <2>1. PICK u : Settles(r, u)
    BY <1>0, <1>7, AnswersSettle
  <2> QED BY <1>0, <1>1, <2>1, AnsweredStep DEF ChatInv
<1>8. ASSUME NEW r \in Req,
             Answers(r) \/ VideoPending(r) \/ PollVideo(r) \/ \E c \in Char : StreamChunk(r, c)
      PROVE  ChatInv'
  BY <1>5, <1>6, <1>7, <1>8 DEF Answers
<1> QED BY <1>2, <1>3, <1>4, <1>5, <1>6, <1>8 DEF Next

LEMMA ChatInit == Init => ChatInv
<1> SUFFICES ASSUME Init PROVE ChatInv
  OBVIOUS
<1>1. NoRequest \in Request /\ NoRequest.phase = "none"
  BY DEF NoRequest, Request, Phases
<1>2. \A r \in Req : req[r] = NoRequest
  BY DEF Init
<1>3. RequestsOK /\ StreamInv
  BY <1>1 DEF Init, RequestsOK, StreamInv, StreamsAreWanted, HeadersOK, Req
<1>4. FlagsOK
  BY FlagValues, NoChunks DEF Init, FlagsOK
<1>5. ControlInv
  <2>1. PendInv /\ ShownInv
    BY DEF Init, PendInv, ShownInv
  <2> QED BY <1>1, <1>2, <2>1 DEF ControlInv, RunInv, DoneInv, Running
<1>6. ViewInv
  <2>1. Screen(gen) = <<>> /\ Screen(gen + 1) = <<>> /\ messages = <<>>
    BY ApplyNone DEF Init, Screen
  <2>2. Good(<<>>, count) /\ Settled(<<>>) /\ OnlyLast(<<>>) /\ queue \in Seq(Update)
    BY EmptyView, SettledIsLast DEF Init
  <2> QED BY <2>1, <2>2 DEF Init, ViewInv, Live, Sound
<1>7. ChunkInv
  BY <1>1, <1>2 DEF ChunkInv, Running
<1> QED BY <1>3, <1>4, <1>5, <1>6, <1>7 DEF ChatInv

LEMMA ChatHolds == Spec => []ChatInv
BY ChatInit, ChatStep, PTL DEF Spec

\* Every variable keeps its type.
THEOREM TypeCorrect == Spec => []TypeOK
<1>1. ChatInv => TypeOK
  <2> SUFFICES ASSUME ChatInv PROVE TypeOK
    OBVIOUS
  <2>1. \A ms \in {messages, latest, saved} : ms \in Seq(Message)
    BY DEF ChatInv, ViewInv, Live, Sound, Good
  <2>2. \A i \in DOMAIN queue : queue[i].op \in {"set", "flush", "complete", "error", "response", "video",
                                                 "stop", "remove"}
    <3>1. \A u \in Update : u.op \in {"set", "flush", "complete", "error", "response", "video"}
      BY DEF Update
    <3>2. queue \in Seq(Update)
      BY DEF ChatInv, ViewInv
    <3>3. \A i \in DOMAIN queue : queue[i] \in Update
      BY <3>2
    <3> QED BY <3>1, <3>3
  <2> QED BY <2>1, <2>2 DEF ChatInv, RequestsOK, FlagsOK, TypeOK, Request, Phases
<1> QED BY <1>1, ChatHolds, PTL

\* A message never shows a chunk or an answer of another request, whatever is
\* stopped, edited, deleted, reloaded or answered late in between.
THEOREM ChunksBelongHolds == Spec => []ChunksBelong
<1>1. ChatInv => ChunksBelong
  <2> SUFFICES ASSUME ChatInv PROVE ChunksBelong
    OBVIOUS
  <2>1. messages \in Seq(Message) /\ \A i \in 1..Len(messages) : ContentOK(messages[i])
    BY DEF ChatInv, ViewInv, Live, Sound, Good
  <2>2. \A i \in 1..Len(messages) : messages[i].content \in Seq(Glyph)
    <3>1. \A m \in Message : m.content \in Seq(Glyph)
      BY DEF Message
    <3> QED BY <2>1, <3>1
  <2> QED BY <2>1, <2>2 DEF ChunksBelong, ContentOK
<1> QED BY <1>1, ChatHolds, PTL

\* No message is left loading or streaming once nothing is generated and
\* everything is rendered.
THEOREM NothingStuckHolds == Spec => []NothingStuck
<1>1. ChatInv => NothingStuck
  <2> SUFFICES ASSUME ChatInv, queue = <<>>, flags = Idle, ~overwritten
               PROVE  \A i \in DOMAIN messages : ~Pending(messages[i])
    BY DEF NothingStuck
  <2>1. Screen(gen) = messages
    BY ApplyNone DEF Screen
  <2>2. Settled(messages) /\ messages \in Seq(Message)
    BY <2>1 DEF ChatInv, ViewInv, Live, Sound, Good
  <2> QED BY <2>2 DEF Settled
<1> QED BY <1>1, ChatHolds, PTL

\* A stream that was done has left its whole text in its message, however long it
\* is and however it was cut by flushes and renders.
THEOREM AllChunksShownHolds == Spec => []AllChunksShown
<1>1. ChatInv => AllChunksShown
  <2> SUFFICES ASSUME ChatInv, queue = <<>>, ~overwritten, NEW r \in Req,
                      req[r].phase = "complete", req[r].gen = gen,
                      req[r].kind = "snapshots" \/ NothingRepeats(req[r].text), NEW i \in DOMAIN messages,
                      Key(messages[i]) = <<"assistant", r>>,
                      \A j \in DOMAIN messages[i].content : messages[i].content[j].of # 0
               PROVE  messages[i].status = "complete" /\ Spells(messages[i].content, req[r].text)
    BY DEF AllChunksShown
  <2>1. Screen(gen) = messages
    BY ApplyNone DEF Screen
  <2>2. AllShown(messages, r, req[r].kind, req[r].text) /\ messages \in Seq(Message)
    BY <2>1 DEF ChatInv, ChunkInv, ViewInv, Live, Sound, Good
  <2>3. i \in 1..Len(messages) /\ messages[i].from = "assistant" /\ messages[i].req = r
    BY <2>2 DEF Key
  <2>4. ~Edits(messages[i])
    <3>1. messages[i] \in Message
      BY <2>2
    <3>2. messages[i].content \in Seq(Glyph)
      BY <3>1 DEF Message
    <3> QED BY <3>2 DEF Edits
  <2> QED BY <2>2, <2>3, <2>4 DEF AllShown
<1> QED BY <1>1, ChatHolds, PTL
=============================================================================
