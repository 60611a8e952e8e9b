-------------------------- MODULE AuthClientProofs --------------------------
(***************************************************************************)
(* Theorems about AuthClient, for any pages of the three applications, any *)
(* number of login sessions and of faults.                                 *)
(***************************************************************************)
EXTENDS AuthClient, WellFoundedInduction, SequenceTheorems, TLAPS

USE PagesAssumption

-----------------------------------------------------------------------------
(* Invariants                                                              *)

Pending(p) == flight[p].phase \in {"sent", "answered"}

\* An answer that carries a token carries one of the session that was presented.
AnswerOK(p) ==
  flight[p].phase = "answered" =>
    \/ /\ flight[p].answer.kind = "bundle" /\ flight[p].answer.set # {}
       /\ \A t \in flight[p].answer.set : t.sid \in Sid /\ t.sid = flight[p].token.sid
    \/ flight[p].answer.kind = "mismatch" /\ flight[p].answer.set = {}
    \/ flight[p].answer.kind = "unauthorized" /\ flight[p].answer.set = {NoToken}

\* The refresh that a dashboard still counts as its own was asked for the
\* session it shows, and is answered with no other.
AskedFor(d) ==
  flight[d].current =>
    /\ flight[d].phase = "sent" => flight[d].expected = page[d].sid
    /\ flight[d].phase = "answered" /\ flight[d].answer.kind = "bundle" =>
         \A t \in flight[d].answer.set : page[d].sid \in {NoSid, t.sid}

\* A refresh of the dashboard or the site is under way only while it holds the lock.
LockHeld(p) == Pending(p) /\ p \notin Console => lock # <<>> /\ Head(lock) = p

\* A session that no console overlapped is refreshed by one page at a time.
Alone(s) ==
  \A p, q \in Page :
    Pending(p) /\ Pending(q) /\ flight[p].token.sid = s /\ flight[q].token.sid = s => p = q

\* The refresh of such a session presents its newest token, and so is answered.
Newest(s) ==
  \A p \in Page : flight[p].token.sid = s =>
    /\ flight[p].phase = "sent" => flight[p].token.age = 0
    /\ flight[p].phase = "answered" => \A t \in flight[p].answer.set : t.age = 0

\* The cookie of such a session is its newest token, or the newest is on its way.
CookieFollows(s) ==
  cookie.sid = s /\ cookie.age > 0 =>
    \E p \in Page : /\ flight[p].phase = "answered" /\ flight[p].answer.kind = "bundle"
                     /\ flight[p].token.sid = s

\* A request that its page abandoned counts its session as lost.
AdriftLost == \A i \in 1..Len(adrift) : adrift[i].sid \in lost

ClientInv ==
  /\ TypeOK /\ AdriftLost
  /\ \A p \in Page : AnswerOK(p) /\ LockHeld(p)

SwitchInv == ClientInv /\ \A d \in Dashboard : AskedFor(d)

RotationInv ==
  /\ ClientInv
  /\ \A s \in Sid \ overlapped : Alone(s)
  /\ \A s \in Sid \ (lost \cup overlapped) : Newest(s) /\ CookieFollows(s)
  /\ NotForcedOut

-----------------------------------------------------------------------------
(* Types                                                                   *)

Row == [status : {"none", "active", "revoked", "reused"}, grace : BOOLEAN]
PageState == [sid : AnySid, boot : {"idle", "checking", "complete"}, limited : BOOLEAN]
Flight == [phase : {"idle", "queued", "sent", "answered"}, current : BOOLEAN,
           expected : AnySid, token : Token, retry : BOOLEAN, answer : Answer]
Logout == [phase : {"none", "answered", "refreshing", "again"},
           retry : BOOLEAN, mismatch : BOOLEAN, clears : BOOLEAN]
Entry == [kind : {"login", "rotation"}, sid : Sid] \cup {NoEntry}
Event == [kind : {"authenticated", "signed_out"}, sid : Sid]

\* The records the actions write have their types.
LEMMA Constants ==
  /\ NoToken \in Token /\ NoToken.sid = NoSid /\ NoToken.age = 0
  /\ NoAnswer \in Answer /\ NoAnswer.kind = "none" /\ NoAnswer.set = {}
  /\ Fresh \in PageState /\ Fresh.sid = NoSid
  /\ Cleared \in PageState /\ Cleared.sid = NoSid
  /\ NoLogout \in Logout /\ NoEntry \in Entry
<1>1. NoToken \in Token /\ NoToken.sid = NoSid /\ NoToken.age = 0
  BY DEF NoToken, Token
<1>2. NoAnswer \in Answer /\ NoAnswer.kind = "none" /\ NoAnswer.set = {}
  BY DEF NoAnswer, Answer
<1>3. Fresh \in PageState /\ Fresh.sid = NoSid
  BY DEF Fresh, PageState, AnySid
<1>4. Cleared \in PageState /\ Cleared.sid = NoSid
  BY DEF Cleared, PageState, AnySid
<1>5. NoLogout \in Logout /\ NoEntry \in Entry
  BY DEF NoLogout, Logout, NoEntry, Entry, AnySid
<1> QED BY <1>1, <1>2, <1>3, <1>4, <1>5

LEMMA IdleTyped ==
  /\ Idle \in Flight /\ Idle.phase = "idle" /\ Idle.answer = NoAnswer /\ Idle.token = NoToken
BY Constants DEF Idle, Flight, AnySid

\* The flight of a request that is being sent.
LEMMA RequestTyped ==
  ASSUME cookie \in Token, NEW e \in AnySid, NEW b \in BOOLEAN, NEW c \in BOOLEAN
  PROVE  /\ Request(e, b, c) \in Flight
         /\ Request(e, b, c).phase = "sent" /\ Request(e, b, c).token = cookie
         /\ Request(e, b, c).expected = e /\ Request(e, b, c).current = c
         /\ Request(e, b, c).answer = NoAnswer
BY Constants DEF Request, Idle, Flight, AnySid

\* A token keeps its session as it grows older.
LEMMA AgedTyped ==
  ASSUME NEW t \in Token, NEW s \in Sid
  PROVE  /\ Aged(t, s) \in Token /\ Aged(t, s).sid = t.sid
         /\ t.sid # s => Aged(t, s) = t
         /\ t.sid = s => Aged(t, s).age > 0
<1>1. CASE t = NoToken
  BY <1>1, Constants DEF Aged
<1>2. CASE t \in [sid : Sid, age : 0..2]
  BY <1>2 DEF Aged, Token
<1> QED BY <1>1, <1>2 DEF Token

LEMMA SupersededTyped ==
  ASSUME NEW f \in Flight
  PROVE  /\ Superseded(f) \in Flight
         /\ Superseded(f).phase # "idle" => ~Superseded(f).current
         /\ Superseded(f).phase = f.phase /\ Superseded(f).token = f.token
         /\ Superseded(f).answer = f.answer
BY DEF Superseded, Flight

\* A set of naturals that is not empty has a least element, and Min chooses it.
LEMMA MinIsLeast ==
  ASSUME NEW I, I \subseteq Nat, I # {}
  PROVE  Min(I) \in I /\ \A j \in I : Min(I) <= j
<1> DEFINE less == {ss \in Nat \X Nat : ss[1] < ss[2]}
<1>1. IsWellFoundedOn(less, Nat)
  BY NatLessThanWellFounded, Zenon DEF OpToRel
<1> HIDE DEF less
<1>2. PICK m \in I : \A j \in I : <<j, m>> \notin less
  BY <1>1, WFMin, Zenon
<1>3. ASSUME NEW j \in I, j < m PROVE FALSE
  <2>1. <<j, m>> \in Nat \X Nat /\ <<j, m>>[1] = j /\ <<j, m>>[2] = m
    OBVIOUS
  <2>2. <<j, m>> \in less
    BY <1>3, <2>1 DEF less
  <2> QED BY <1>2, <2>2
<1>4. \A j \in I : m <= j
  BY <1>3
<1> QED BY <1>4 DEF Min

\* The lock's queue without one page: still a queue of pages, and its head is
\* the same unless the head left.
LEMMA LeaveTyped ==
  ASSUME lock \in Seq(Dashboard \cup Site), NEW p
  PROVE  /\ Leave(p) \in Seq(Dashboard \cup Site)
         /\ lock # <<>> /\ Head(lock) # p => Leave(p) # <<>> /\ Head(Leave(p)) = Head(lock)
<1>1. CASE ~\E i \in 1..Len(lock) : lock[i] = p
  BY <1>1 DEF Leave, RemoveFirst
<1>2. CASE \E i \in 1..Len(lock) : lock[i] = p
  <2> DEFINE I == {k \in 1..Len(lock) : lock[k] = p}
             i == SelectInSeq(lock, LAMBDA v : v = p)
             front == SubSeq(lock, 1, i - 1)
             back == SubSeq(lock, i + 1, Len(lock))
  <2>1. i \in 1..Len(lock) /\ lock[i] = p
    <3>1. I # {} /\ I \subseteq Nat
      BY <1>2
    <3>2. Min(I) \in I
      BY <3>1, MinIsLeast
    <3>3. i = Min(I)
      BY <3>1 DEF SelectInSeq
    <3> QED BY <3>2, <3>3
  <2>2. Leave(p) = front \o back
    BY <1>2 DEF Leave, RemoveFirst, RemoveAt
  <2>3. Len(lock) \in Nat /\ \A k \in 1..Len(lock) : lock[k] \in Dashboard \cup Site
    OBVIOUS
  <2> HIDE DEF i
  <2>4. /\ front \in Seq(Dashboard \cup Site) /\ Len(front) = i - 1
        /\ \A k \in 1..i - 1 : front[k] = lock[k]
    <3>1. 1 \in Int /\ i - 1 \in Int /\ \A k \in 1..i - 1 : lock[k] \in Dashboard \cup Site
      BY <2>1, <2>3
    <3>2. /\ front \in Seq(Dashboard \cup Site)
          /\ Len(front) = IF 1 <= i - 1 THEN i - 1 - 1 + 1 ELSE 0
          /\ \A k \in 1..i - 1 - 1 + 1 : front[k] = lock[1 + k - 1]
      BY <3>1, SubSeqProperties
    <3> HIDE DEF front
    <3> QED BY <2>1, <3>2
  <2>5. back \in Seq(Dashboard \cup Site)
    <3>1. i + 1 \in Int /\ Len(lock) \in Int
          /\ \A k \in i + 1..Len(lock) : lock[k] \in Dashboard \cup Site
      BY <2>1, <2>3
    <3> QED BY <3>1, SubSeqProperties
  <2> HIDE DEF front, back
  <2>6. /\ front \o back \in Seq(Dashboard \cup Site)
        /\ Len(front \o back) = Len(front) + Len(back)
        /\ 1 <= Len(front) => (front \o back)[1] = front[1]
    <3>1. /\ front \o back \in Seq(Dashboard \cup Site)
          /\ Len(front \o back) = Len(front) + Len(back)
          /\ \A k \in 1..Len(front) + Len(back) :
               (front \o back)[k] = IF k <= Len(front) THEN front[k] ELSE back[k - Len(front)]
      <4> DEFINE S == Dashboard \cup Site
      <4>1. front \in Seq(S) /\ back \in Seq(S)
        BY <2>4, <2>5
      <4> HIDE DEF S
      <4> QED BY <4>1, ConcatProperties DEF S
    <3>2. Len(front) \in Nat /\ Len(back) \in Nat
      BY <2>4, <2>5
    <3> QED BY <3>1, <3>2
  <2>7. ASSUME lock # <<>>, Head(lock) # p
        PROVE  Leave(p) # <<>> /\ Head(Leave(p)) = Head(lock)
    <3>1. Head(lock) = lock[1]
      BY <2>7
    <3>2. 1 <= i - 1
      BY <2>1, <2>7, <3>1
    <3>3. (front \o back)[1] = lock[1] /\ Len(front \o back) > 0
      BY <2>4, <2>5, <2>6, <3>2
    <3> QED BY <2>2, <2>6, <3>1, <3>3
  <2> QED BY <2>2, <2>6, <2>7
<1> QED BY <1>1, <1>2

LEMMA TypeParts ==
  TypeOK <=>
    /\ row \in [Sid -> Row] /\ cookie \in Token /\ lock \in Seq(Dashboard \cup Site)
    /\ page \in [Page -> PageState] /\ flight \in [Page -> Flight]
    /\ call \in [Dashboard -> {"none", "waiting"} \cup Sid]
    /\ entry \in [Dashboard \cup Console -> Entry] /\ adrift \in Seq(Token)
    /\ out \in [Dashboard \cup Console -> Logout] /\ inbox \in [Dashboard -> Seq(Event)]
    /\ faults \in 0..MaxFaults /\ acts \in 0..MaxActs /\ lost \subseteq Sid /\ overlapped \subseteq Sid
BY DEF TypeOK, Row, PageState, Flight, Entry, Logout, Event

LEMMA TypePartsNext ==
  TypeOK' <=>
    /\ row' \in [Sid -> Row] /\ cookie' \in Token /\ lock' \in Seq(Dashboard \cup Site)
    /\ page' \in [Page -> PageState] /\ flight' \in [Page -> Flight]
    /\ call' \in [Dashboard -> {"none", "waiting"} \cup Sid]
    /\ entry' \in [Dashboard \cup Console -> Entry] /\ adrift' \in Seq(Token)
    /\ out' \in [Dashboard \cup Console -> Logout] /\ inbox' \in [Dashboard -> Seq(Event)]
    /\ faults' \in 0..MaxFaults /\ acts' \in 0..MaxActs /\ lost' \subseteq Sid
    /\ overlapped' \subseteq Sid
BY DEF TypeOK, Row, PageState, Flight, Entry, Logout, Event

\* What a refresh that settles does to its page and to the others.
LEMMA FinishTyped ==
  ASSUME TypeOK, NEW p \in Page, NEW outcome, NEW to \in PageState,
         NEW box \in [Dashboard -> Seq(Event)],
         outcome = "authenticated" => to.sid \in Sid, Finish(p, outcome, to, box)
  PROVE  /\ flight' \in [Page -> Flight] /\ lock' \in Seq(Dashboard \cup Site)
         /\ page' \in [Page -> PageState]
         /\ call' \in [Dashboard -> {"none", "waiting"} \cup Sid]
         /\ entry' \in [Dashboard \cup Console -> Entry]
         /\ out' \in [Dashboard \cup Console -> Logout]
         /\ inbox' \in [Dashboard -> Seq(Event)]
         /\ flight'[p] = Idle /\ \A q \in Page \ {p} : flight'[q] = flight[q]
         /\ page'[p] \in {Fresh, to} /\ \A q \in Page \ {p} : page'[q] = page[q]
         /\ lock' = Leave(p)
<1> USE TypeParts, Constants, IdleTyped
<1>1. flight' \in [Page -> Flight] /\ flight'[p] = Idle /\ \A q \in Page \ {p} : flight'[q] = flight[q]
  BY DEF Finish
<1>2. lock' = Leave(p) /\ lock' \in Seq(Dashboard \cup Site)
  BY LeaveTyped DEF Finish
<1>3. call' \in [Dashboard -> {"none", "waiting"} \cup Sid]
  BY DEF Finish
<1> DEFINE goes == [q \in DOMAIN out |->
             IF q # p \/ out[q].phase # "refreshing" THEN out[q]
             ELSE IF outcome = "authenticated" THEN [out[q] EXCEPT !.phase = "again"] ELSE NoLogout]
<1>4. goes \in [Dashboard \cup Console -> Logout]
  <2>1. \A q \in Dashboard \cup Console : [out[q] EXCEPT !.phase = "again"] \in Logout
    BY DEF Logout
  <2> QED BY <2>1
<1>5. /\ page' \in {[page EXCEPT ![p] = to], [page EXCEPT ![p] = Fresh]}
      /\ out' \in {goes, [out EXCEPT ![p] = NoLogout]}
      /\ inbox' \in {box, [box EXCEPT ![p] = <<>>]}
      /\ entry' \in {entry, [entry EXCEPT ![p] = NoEntry]}
  BY DEF Finish
<1> HIDE DEF goes
<1>6. page' \in [Page -> PageState] /\ page'[p] \in {Fresh, to} /\ \A q \in Page \ {p} : page'[q] = page[q]
  <2>1. page \in [Page -> PageState] /\ Fresh \in PageState
    OBVIOUS
  <2>2. CASE page' = [page EXCEPT ![p] = to]
    BY ONLY <2>1, <2>2, to \in PageState, p \in Page
  <2>3. CASE page' = [page EXCEPT ![p] = Fresh]
    BY ONLY <2>1, <2>3, p \in Page
  <2> QED BY <1>5, <2>2, <2>3
<1>7. out' \in [Dashboard \cup Console -> Logout]
  <2>1. out \in [Dashboard \cup Console -> Logout]
    OBVIOUS
  <2> QED BY <1>4, <1>5, <2>1
<1>8. entry' \in [Dashboard \cup Console -> Entry]
  <2>1. entry \in [Dashboard \cup Console -> Entry]
    OBVIOUS
  <2> QED BY <1>5, <2>1
<1>9. inbox' \in [Dashboard -> Seq(Event)]
  <2>1. <<>> \in Seq(Event)
    OBVIOUS
  <2> QED BY <1>5, <2>1
<1> QED BY <1>1, <1>2, <1>3, <1>6, <1>7, <1>8, <1>9

\* A page that joins the queue leaves its head in place.
LEMMA JoinTyped ==
  ASSUME NEW S, NEW queue \in Seq(S), NEW p \in S
  PROVE  /\ Append(queue, p) \in Seq(S) /\ Append(queue, p) # <<>>
         /\ queue # <<>> => Head(Append(queue, p)) = Head(queue)
<1>1. Append(queue, p) \in Seq(S) /\ Append(queue, p) # <<>>
  BY AppendProperties
<1>2. queue # <<>> => Head(Append(queue, p)) = Head(queue)
  BY HeadTailAppend
<1> QED BY <1>1, <1>2

\* What starting a refresh does: a request of the console goes out, the others
\* queue for the lock behind the page that holds it.
LEMMA RefreshTyped ==
  ASSUME TypeOK, NEW p \in Page, Refresh(p)
  PROVE  /\ flight' \in [Page -> Flight] /\ lock' \in Seq(Dashboard \cup Site)
         /\ \A q \in Page \ {p} : flight'[q] = flight[q]
         /\ flight[p].phase # "idle" => flight'[p] = flight[p]
         /\ flight[p].phase = "idle" /\ p \in Console => flight'[p] = Request(page[p].sid, TRUE, TRUE)
         /\ flight[p].phase = "idle" /\ p \notin Console => flight'[p].phase = "queued"
         /\ p \in Console => lock' = lock
         /\ lock # <<>> => lock' # <<>> /\ Head(lock') = Head(lock)
<1> USE TypeParts, Constants, IdleTyped
<1> DEFINE queued == [Idle EXCEPT !.phase = "queued"]
<1>1. queued \in Flight /\ queued.phase = "queued"
  BY DEF Idle, Flight, AnySid
<1>2. Request(page[p].sid, TRUE, TRUE) \in Flight
  <2>1. page[p].sid \in AnySid
    BY DEF PageState
  <2> QED BY <2>1, RequestTyped
<1> HIDE DEF queued
<1>3. flight' = [flight EXCEPT ![p] =
        IF flight[p].phase # "idle" THEN flight[p]
        ELSE IF p \in Console THEN Request(page[p].sid, TRUE, TRUE) ELSE queued]
  BY DEF Refresh, queued
<1>4. lock' = lock \/ (p \in Dashboard \cup Site /\ lock' = Append(lock, p))
  BY DEF Refresh, Page
<1>5. p \in Console => lock' = lock
  BY DEF Refresh
<1>6. lock \in Seq(Dashboard \cup Site)
  BY TypeParts
<1>7. lock' \in Seq(Dashboard \cup Site) /\ (lock # <<>> => lock' # <<>> /\ Head(lock') = Head(lock))
  <2>1. CASE lock' = lock
    BY <1>6, <2>1
  <2>2. CASE p \in Dashboard \cup Site /\ lock' = Append(lock, p)
    <3> DEFINE S == Dashboard \cup Site
    <3>1. lock \in Seq(S) /\ p \in S
      BY <1>6, <2>2
    <3> HIDE DEF S
    <3>2. /\ Append(lock, p) \in Seq(S) /\ Append(lock, p) # <<>>
          /\ lock # <<>> => Head(Append(lock, p)) = Head(lock)
      BY <3>1, JoinTyped
    <3> QED BY <2>2, <3>2 DEF S
  <2> QED BY <1>4, <2>1, <2>2
<1> QED BY <1>1, <1>2, <1>3, <1>5, <1>7

LEMMA PublishTyped ==
  ASSUME TypeOK, NEW p, NEW kind \in {"authenticated", "signed_out"}, NEW s \in Sid
  PROVE  publish(p, kind, s) \in [Dashboard -> Seq(Event)]
<1>1. [kind |-> kind, sid |-> s] \in Event
  BY DEF Event
<1>2. \A d \in Dashboard : Append(inbox[d], [kind |-> kind, sid |-> s]) \in Seq(Event)
  BY <1>1, TypeParts
<1> QED BY <1>2, TypeParts DEF publish

LEMMA SignedOutTyped ==
  ASSUME TypeOK, NEW p \in Page
  PROVE  SignedOutBox(p) \in [Dashboard -> Seq(Event)]
<1>1. page[p].sid # NoSid => page[p].sid \in Sid
  BY TypeParts DEF PageState, AnySid
<1> QED BY <1>1, PublishTyped, TypeParts DEF SignedOutBox

LEMMA StoreTyped ==
  ASSUME cookie \in Token, NEW c, c \subseteq Token, Store(c)
  PROVE  /\ cookie' \in Token
         /\ c = {} => cookie' = cookie
         /\ c # {} => cookie' \in c
BY DEF Store

\* The events that wait for a dashboard.
LEMMA InboxTyped ==
  ASSUME TypeOK, NEW d \in Dashboard, inbox[d] # <<>>
  PROVE  Head(inbox[d]) \in Event /\ [inbox EXCEPT ![d] = Tail(@)] \in [Dashboard -> Seq(Event)]
<1>1. inbox[d] \in Seq(Event)
  BY TypeParts
<1>2. Head(inbox[d]) \in Event /\ Tail(inbox[d]) \in Seq(Event)
  BY <1>1, HeadTailProperties
<1> QED BY <1>2, TypeParts

LEMMA ReloadTyped ==
  ASSUME TypeOK, NEW p \in Page, Reload(p)
  PROVE  /\ flight' \in [Page -> Flight] /\ lock' \in Seq(Dashboard \cup Site)
         /\ page' \in [Page -> PageState]
         /\ call' \in [Dashboard -> {"none", "waiting"} \cup Sid]
         /\ entry' \in [Dashboard \cup Console -> Entry]
         /\ out' \in [Dashboard \cup Console -> Logout]
         /\ inbox' \in [Dashboard -> Seq(Event)]
         /\ flight'[p] = Idle /\ \A q \in Page \ {p} : flight'[q] = flight[q]
         /\ page'[p] = Fresh /\ \A q \in Page \ {p} : page'[q] = page[q]
         /\ lock' = Leave(p)
<1> USE TypeParts, Constants, IdleTyped
<1>1. flight' \in [Page -> Flight] /\ flight'[p] = Idle /\ \A q \in Page \ {p} : flight'[q] = flight[q]
  BY DEF Reload
<1>2. lock' = Leave(p) /\ lock' \in Seq(Dashboard \cup Site)
  BY LeaveTyped DEF Reload
<1>3. page' \in [Page -> PageState] /\ page'[p] = Fresh /\ \A q \in Page \ {p} : page'[q] = page[q]
  BY DEF Reload
<1>4. call' \in [Dashboard -> {"none", "waiting"} \cup Sid]
  BY DEF Reload
<1>5. /\ entry' \in [Dashboard \cup Console -> Entry]
      /\ out' \in [Dashboard \cup Console -> Logout]
  BY DEF Reload
<1>6. inbox' \in [Dashboard -> Seq(Event)]
  <2>1. <<>> \in Seq(Event)
    OBVIOUS
  <2> QED BY <2>1 DEF Reload
<1> QED BY <1>1, <1>2, <1>3, <1>4, <1>5, <1>6

-----------------------------------------------------------------------------
(* The kinds of steps.  A step either sends one request, or answers one, or *)
(* is quiet: no refresh gets further, though some may end.                  *)

Kept(q) ==
  /\ flight'[q].phase = flight[q].phase /\ flight'[q].token = flight[q].token
  /\ flight'[q].answer = flight[q].answer /\ flight'[q].expected = flight[q].expected
  /\ flight'[q].current => flight[q].current

Granted(q) == flight[q].phase = "answered" /\ flight[q].answer.kind = "bundle"

QuietFlights ==
  \A q \in Page : Pending(q)' =>
    /\ Kept(q)
    /\ q \notin Console /\ lock # <<>> /\ Head(lock) = q => lock' # <<>> /\ Head(lock') = q

\* The cookie is replaced by a first token, by no token or by the token of an
\* answer; an answer with a token is stored or counted as lost.
QuietTokens ==
  /\ lost \subseteq lost' /\ overlapped \subseteq overlapped'
  /\ \/ cookie' = cookie \/ cookie'.age = 0
     \/ \E q \in Page : flight[q].phase = "answered" /\ cookie' \in flight[q].answer.set
  /\ \A q \in Page : Granted(q) /\ ~Pending(q)' =>
       flight[q].token.sid \in lost' \/ cookie' \in flight[q].answer.set
  /\ \A s \in Sid : row'[s].status = "reused" => row[s].status = "reused"
  /\ AdriftLost => AdriftLost'

\* A dashboard's session changes only with the end of the refresh it counts on,
\* or by its own login.
PageMoves(d) ==
  \/ page'[d].sid = page[d].sid
  \/ /\ ~(Pending(d)' /\ flight'[d].current)
     /\ \/ page'[d].sid = NoSid \/ page[d].sid = NoSid
        \/ /\ Granted(d) /\ flight[d].current
           /\ \E t \in flight[d].answer.set : page'[d].sid = t.sid
        \/ entry[d] = [kind |-> "login", sid |-> page'[d].sid]

Quiet == QuietFlights /\ QuietTokens /\ \A d \in Dashboard : PageMoves(d)

\* Page p sends a refresh request with the cookie of this moment.
Send(p) ==
  /\ flight[p].phase # "sent" /\ ~Granted(p)
  /\ flight'[p].phase = "sent" /\ flight'[p].token = cookie
  /\ \A q \in Page \ {p} : flight'[q] = flight[q]
  /\ p \notin Console => lock # <<>> /\ Head(lock) = p
  /\ lock' = lock /\ cookie' = cookie /\ row' = row /\ lost' = lost /\ adrift' = adrift /\ NoteOverlap
  /\ p \in Dashboard => page'[p].sid = flight'[p].expected
  /\ \A d \in Dashboard : page'[d].sid = page[d].sid \/ (d = p /\ page'[d].sid = NoSid)

\* The page p's refresh ends.
LEMMA EndIsQuiet ==
  ASSUME TypeOK, NEW p \in Page, flight'[p] = Idle,
         \A q \in Page \ {p} : flight'[q] = flight[q], lock' \in {lock, Leave(p)}
  PROVE  QuietFlights /\ ~Pending(p)' /\ \A q \in Page \ {p} : Granted(q) => Pending(q)'
<1>1. ~Pending(p)'
  BY IdleTyped DEF Pending
<1>2. lock \in Seq(Dashboard \cup Site)
  BY TypeParts
<1>3. \A q \in Page \ {p} : lock # <<>> /\ Head(lock) = q => lock' # <<>> /\ Head(lock') = q
  BY <1>2, LeaveTyped
<1>4. \A q \in Page \ {p} : Kept(q)
  BY DEF Kept
<1>5. \A q \in Page \ {p} : Granted(q) => Pending(q)'
  BY DEF Granted, Pending
<1>6. QuietFlights
  BY <1>1, <1>3, <1>4 DEF QuietFlights
<1> QED BY <1>1, <1>5, <1>6

\* An answer to a login or a security change is about a session.
LEMMA EntryTyped ==
  ASSUME TypeOK, NEW p \in Dashboard \cup Console, entry[p].kind \in {"login", "rotation"}
  PROVE  entry[p].sid \in Sid /\ entry[p] = [kind |-> entry[p].kind, sid |-> entry[p].sid]
<1>1. entry[p] \in Entry /\ entry[p] # NoEntry
  BY TypeParts DEF NoEntry
<1> QED BY <1>1 DEF Entry

\* Nothing happens to the refreshes, or one of them is superseded.
LEMMA StayIsQuiet ==
  ASSUME TypeOK, \A q \in Page : flight'[q] \in {flight[q], Superseded(flight[q])}, lock' = lock
  PROVE  QuietFlights /\ \A q \in Page : Granted(q) => Pending(q)'
<1>1. \A q \in Page : flight[q] \in Flight
  BY TypeParts
<1>2. \A q \in Page : Kept(q)
  BY <1>1, SupersededTyped DEF Kept, Superseded, Flight
<1>3. \A q \in Page : Granted(q) => Pending(q)'
  BY <1>2 DEF Granted, Pending, Kept
<1> QED BY <1>2, <1>3 DEF QuietFlights

\* The page p leaves the refresh it has under way behind.
LEMMA LeftBehind ==
  ASSUME TypeOK, NEW p \in Page, flight' = [flight EXCEPT ![p] = Superseded(@)], lock' = lock
  PROVE  /\ flight' \in [Page -> Flight] /\ ~(Pending(p)' /\ flight'[p].current)
         /\ QuietFlights /\ \A q \in Page : Granted(q) => Pending(q)'
<1>1. flight \in [Page -> Flight] /\ flight[p] \in Flight
  BY TypeParts
<1>2. /\ Superseded(flight[p]) \in Flight
      /\ Superseded(flight[p]).phase # "idle" => ~Superseded(flight[p]).current
  BY <1>1, SupersededTyped
<1>3. flight'[p] = Superseded(flight[p]) /\ flight' \in [Page -> Flight]
  BY <1>1, <1>2
<1>4. \A q \in Page : flight'[q] \in {flight[q], Superseded(flight[q])}
  BY <1>1
<1>5. QuietFlights /\ \A q \in Page : Granted(q) => Pending(q)'
  BY <1>4, StayIsQuiet
<1> QED BY <1>2, <1>3, <1>5 DEF Pending

\* A refresh of the dashboard or the site starts by waiting for the lock.
LEMMA QueueIsQuiet ==
  ASSUME TypeOK, NEW p \in Page \ Console, Refresh(p)
  PROVE  QuietFlights /\ \A q \in Page : Granted(q) => Pending(q)'
<1>1. /\ \A q \in Page \ {p} : flight'[q] = flight[q]
      /\ flight[p].phase # "idle" => flight'[p] = flight[p]
      /\ flight[p].phase = "idle" => flight'[p].phase = "queued"
      /\ lock # <<>> => lock' # <<>> /\ Head(lock') = Head(lock)
  BY RefreshTyped
<1>2. \A q \in Page : Pending(q)' => Kept(q)
  BY <1>1 DEF Kept, Pending
<1>3. \A q \in Page : Granted(q) => Pending(q)'
  BY <1>1 DEF Granted, Pending
<1> QED BY <1>1, <1>2, <1>3 DEF QuietFlights

\* Quiet steps keep what an answer may carry.
LEMMA QuietAnswers ==
  ASSUME \A p \in Page : AnswerOK(p), QuietFlights
  PROVE  \A p \in Page : AnswerOK(p)'
<1> SUFFICES ASSUME NEW p \in Page, flight'[p].phase = "answered" PROVE AnswerOK(p)'
  BY DEF AnswerOK
<1>1. Kept(p)
  BY DEF QuietFlights, Pending
<1> QED BY <1>1 DEF AnswerOK, Kept

\* Tokens that no step of the rotation touches.
LEMMA TokensStay ==
  ASSUME \A q \in Page : Granted(q) => Pending(q)', UNCHANGED <<adrift, lost, overlapped>>,
         cookie' = cookie \/ cookie'.age = 0,
         \A s \in Sid : row'[s].status = "reused" => row[s].status = "reused"
  PROVE  QuietTokens
BY DEF QuietTokens, AdriftLost

\* The session of a refresh that is given up counts as lost.
LEMMA AbandonTyped ==
  ASSUME ClientInv, NEW p \in Page, Abandon(flight[p])
  PROVE  /\ adrift' \in Seq(Token) /\ lost \subseteq lost' /\ lost' \subseteq Sid
         /\ Granted(p) => flight[p].token.sid \in lost'
         /\ AdriftLost'
<1>0. TypeOK /\ AnswerOK(p) /\ AdriftLost
  BY DEF ClientInv
<1>1. /\ adrift \in Seq(Token) /\ lost \subseteq Sid /\ flight[p].token \in Token
      /\ flight[p].answer.set \subseteq Token
  BY <1>0, TypeParts DEF Flight, Answer
<1>2. \A t \in Token \ {NoToken} : t.sid \in Sid
  BY DEF Token
<1>3. CASE Reaches(flight[p])
  <2> DEFINE tok == flight[p].token
  <2>1. /\ adrift' = Append(adrift, tok) /\ tok \in Token \ {NoToken} /\ flight[p].phase = "sent"
        /\ lost' = lost \cup {t.sid : t \in {tok} \ {NoToken}}
    BY <1>1, <1>3 DEF Abandon, Reaches
  <2> HIDE DEF tok
  <2>2. lost' = lost \cup {tok.sid}
    BY <2>1
  <2>3. /\ adrift' \in Seq(Token) /\ Len(adrift') = Len(adrift) + 1
        /\ \A i \in 1..Len(adrift) : adrift'[i] = adrift[i]
        /\ adrift'[Len(adrift) + 1] = tok
    BY <1>1, <2>1, AppendProperties
  <2>4. AdriftLost'
    <3> SUFFICES ASSUME NEW i \in 1..Len(adrift') PROVE adrift'[i].sid \in lost'
      BY DEF AdriftLost
    <3>1. Len(adrift) \in Nat
      BY <1>1
    <3>2. CASE i \in 1..Len(adrift)
      BY <1>0, <2>2, <2>3, <3>2 DEF AdriftLost
    <3>3. CASE i = Len(adrift) + 1
      BY <2>2, <2>3, <3>3
    <3> QED BY <2>3, <3>1, <3>2, <3>3
  <2> QED BY <1>1, <1>2, <2>1, <2>2, <2>3, <2>4 DEF Granted
<1>4. CASE ~Reaches(flight[p])
  <2>1. adrift' = adrift /\ lost' = lost \cup {t.sid : t \in flight[p].answer.set \ {NoToken}}
    BY <1>4 DEF Abandon
  <2>2. lost' \subseteq Sid
    BY <1>1, <1>2, <2>1
  <2>3. ASSUME Granted(p) PROVE flight[p].token.sid \in lost'
    <3>1. PICK t \in flight[p].answer.set : t.sid \in Sid /\ t.sid = flight[p].token.sid
      BY <1>0, <2>3 DEF AnswerOK, Granted
    <3> QED BY <2>1, <3>1, Constants
  <2>4. AdriftLost'
    BY <1>0, <2>1 DEF AdriftLost
  <2> QED BY <1>1, <2>1, <2>2, <2>3, <2>4
<1> QED BY <1>3, <1>4

-----------------------------------------------------------------------------
(* One lemma per action                                                    *)

LEMMA ActTyped == ASSUME TypeOK, Act PROVE acts' \in 0..MaxActs
BY TypeParts DEF Act

LEMMA FaultTyped ==
  ASSUME TypeOK, faults < MaxFaults, faults' = faults + 1 PROVE faults' \in 0..MaxFaults
BY TypeParts

LEMMA BootstrapStep ==
  ASSUME TypeOK, NEW d \in Dashboard, Bootstrap(d)
  PROVE  TypeOK' /\ Quiet
<1> USE TypeParts
<1>1. d \in Page \ Console
  BY DEF Page
<1>2. page' \in [Page -> PageState] /\ \A q \in Page : page'[q].sid = page[q].sid
  <2>1. page' = [page EXCEPT ![d] = [page[d] EXCEPT !.boot = "checking"]]
    BY DEF Bootstrap
  <2>2. [page[d] EXCEPT !.boot = "checking"] \in PageState
        /\ [page[d] EXCEPT !.boot = "checking"].sid = page[d].sid
    <3>1. page[d] \in PageState
      BY <1>1
    <3> QED BY <3>1 DEF PageState
  <2> QED BY <1>1, <2>1, <2>2
<1>3. /\ flight' \in [Page -> Flight] /\ lock' \in Seq(Dashboard \cup Site)
      /\ QuietFlights /\ \A q \in Page : Granted(q) => Pending(q)'
  <2>1. CASE Refresh(d)
    BY <1>1, <2>1, RefreshTyped, QueueIsQuiet
  <2>2. CASE UNCHANGED <<flight, lock>>
    BY <2>2, StayIsQuiet
  <2> QED BY <2>1, <2>2 DEF Bootstrap
<1>4. acts' \in 0..MaxActs
  BY ActTyped DEF Bootstrap
<1>5. UNCHANGED <<row, adrift, lost, overlapped, cookie, call, entry, out, inbox, faults>>
  BY DEF Bootstrap, server
<1>6. TypeOK'
  BY <1>2, <1>3, <1>4, <1>5, TypePartsNext
<1>7. QuietTokens
  BY <1>3, <1>5, TokensStay
<1>8. \A q \in Dashboard : PageMoves(q)
  BY <1>2 DEF PageMoves, Page
<1> QED BY <1>3, <1>6, <1>7, <1>8 DEF Quiet

LEMMA UnauthorizedStep ==
  ASSUME TypeOK, NEW d \in Dashboard, Unauthorized(d)
  PROVE  TypeOK' /\ Quiet
<1> USE TypeParts
<1>1. d \in Page \ Console
  BY DEF Page
<1>2. call' \in [Dashboard -> {"none", "waiting"} \cup Sid]
  BY DEF Unauthorized
<1>3. /\ flight' \in [Page -> Flight] /\ lock' \in Seq(Dashboard \cup Site)
      /\ QuietFlights /\ \A q \in Page : Granted(q) => Pending(q)'
  BY <1>1, RefreshTyped, QueueIsQuiet DEF Unauthorized
<1>4. acts' \in 0..MaxActs
  BY ActTyped DEF Unauthorized
<1>5. UNCHANGED <<row, adrift, lost, overlapped, cookie, page, entry, out, inbox, faults>>
  BY DEF Unauthorized, server
<1>6. TypeOK'
  BY <1>2, <1>3, <1>4, <1>5, TypePartsNext
<1>7. QuietTokens
  BY <1>3, <1>5, TokensStay
<1>8. \A q \in Dashboard : PageMoves(q)
  BY <1>5 DEF PageMoves
<1> QED BY <1>3, <1>6, <1>7, <1>8 DEF Quiet

LEMMA ViewerRefreshStep ==
  ASSUME TypeOK, NEW p \in Site, ViewerRefresh(p)
  PROVE  TypeOK' /\ Quiet
<1> USE TypeParts
<1>1. p \in Page \ Console
  BY DEF Page
<1>2. /\ flight' \in [Page -> Flight] /\ lock' \in Seq(Dashboard \cup Site)
      /\ QuietFlights /\ \A q \in Page : Granted(q) => Pending(q)'
  BY <1>1, RefreshTyped, QueueIsQuiet DEF ViewerRefresh
<1>3. acts' \in 0..MaxActs
  BY ActTyped DEF ViewerRefresh
<1>4. UNCHANGED <<row, adrift, lost, overlapped, cookie, page, call, entry, out, inbox, faults>>
  BY DEF ViewerRefresh, server
<1>5. TypeOK'
  BY <1>2, <1>3, <1>4, TypePartsNext
<1>6. QuietTokens
  BY <1>2, <1>4, TokensStay
<1>7. \A q \in Dashboard : PageMoves(q)
  BY <1>4 DEF PageMoves
<1> QED BY <1>2, <1>5, <1>6, <1>7 DEF Quiet

LEMMA LimitPassesStep ==
  ASSUME TypeOK, NEW d \in Dashboard, LimitPasses(d)
  PROVE  TypeOK' /\ Quiet
<1> USE TypeParts
<1>1. page' \in [Page -> PageState] /\ \A q \in Page : page'[q].sid = page[q].sid
  BY DEF LimitPasses, PageState, Page
<1>2. UNCHANGED <<acts, row, adrift, lost, overlapped, cookie, lock, flight, call, entry, out, inbox,
                 faults>>
  BY DEF LimitPasses, server
<1>3. TypeOK'
  BY <1>1, <1>2, TypePartsNext
<1>4. QuietFlights /\ \A q \in Page : Granted(q) => Pending(q)'
  BY <1>2, StayIsQuiet
<1>5. QuietTokens
  BY <1>2, <1>4, TokensStay
<1>6. \A q \in Dashboard : PageMoves(q)
  BY <1>1 DEF PageMoves, Page
<1> QED BY <1>3, <1>4, <1>5, <1>6 DEF Quiet

\* A step that touches neither pages nor refreshes nor tokens.
LEMMA ElsewhereStep ==
  ASSUME TypeOK, UNCHANGED <<cookie, lock, page, flight, adrift, lost, overlapped>>,
         entry' \in [Dashboard \cup Console -> Entry],
         row' \in [Sid -> Row], call' \in [Dashboard -> {"none", "waiting"} \cup Sid],
         out' \in [Dashboard \cup Console -> Logout], inbox' \in [Dashboard -> Seq(Event)],
         faults' \in 0..MaxFaults, acts' \in 0..MaxActs,
         \A s \in Sid : row'[s].status = "reused" => row[s].status = "reused"
  PROVE  TypeOK' /\ Quiet
<1>1. TypeOK'
  BY TypeParts, TypePartsNext
<1>2. QuietFlights /\ \A q \in Page : Granted(q) => Pending(q)'
  BY StayIsQuiet
<1>3. QuietTokens
  BY <1>2, TokensStay
<1>4. \A q \in Dashboard : PageMoves(q)
  BY DEF PageMoves
<1> QED BY <1>1, <1>2, <1>3, <1>4 DEF Quiet

LEMMA MissEventStep ==
  ASSUME TypeOK, NEW d \in Dashboard, MissEvent(d)
  PROVE  TypeOK' /\ Quiet
<1>1. inbox' \in [Dashboard -> Seq(Event)]
  BY InboxTyped DEF MissEvent
<1>2. faults' \in 0..MaxFaults
  BY FaultTyped DEF MissEvent
<1>3. UNCHANGED <<acts, row, adrift, lost, overlapped, cookie, lock, page, flight, call, entry, out>>
  BY DEF MissEvent, server
<1> QED BY <1>1, <1>2, <1>3, ElsewhereStep, TypeParts

LEMMA LogoutLostStep ==
  ASSUME TypeOK, NEW p \in Dashboard \cup Console, LogoutLost(p)
  PROVE  TypeOK' /\ Quiet
<1>1. out' \in [Dashboard \cup Console -> Logout]
  BY TypeParts, Constants DEF LogoutLost
<1>2. faults' \in 0..MaxFaults
  BY FaultTyped DEF LogoutLost
<1>3. UNCHANGED <<acts, row, adrift, lost, overlapped, cookie, lock, page, flight, call, entry, inbox>>
  BY DEF LogoutLost, server
<1> QED BY <1>1, <1>2, <1>3, ElsewhereStep, TypeParts

\* A revoked row keeps its type and is not marked as reused.
LEMMA RevokedTyped ==
  ASSUME TypeOK, NEW s \in Sid
  PROVE  /\ Revoked(s) \in [Sid -> Row]
         /\ \A x \in Sid : Revoked(s)[x].status = "reused" => row[x].status = "reused"
<1>1. [status |-> "revoked", grace |-> FALSE] \in Row
  BY DEF Row
<1> QED BY <1>1, TypeParts DEF Revoked

LEMMA GraceEndsStep ==
  ASSUME TypeOK, NEW s \in Sid, GraceEnds(s)
  PROVE  TypeOK' /\ Quiet
<1>1. row' \in [Sid -> Row] /\ \A x \in Sid : row'[x].status = row[x].status
  BY TypeParts DEF GraceEnds, Row
<1>2. UNCHANGED <<acts, cookie, lock, page, flight, call, entry, out, inbox, adrift, faults, lost,
                 overlapped>>
  BY DEF GraceEnds
<1> QED BY <1>1, <1>2, ElsewhereStep, TypeParts

LEMMA RevokedElsewhereStep ==
  ASSUME TypeOK, NEW s \in Sid, RevokedElsewhere(s)
  PROVE  TypeOK' /\ Quiet
<1>1. row' = Revoked(s) /\ acts' \in 0..MaxActs
  BY ActTyped DEF RevokedElsewhere
<1>2. UNCHANGED <<cookie, lock, page, flight, call, entry, out, inbox, adrift, faults, lost, overlapped>>
  BY DEF RevokedElsewhere
<1> QED BY <1>1, <1>2, RevokedTyped, ElsewhereStep, TypeParts

LEMMA LogoutRequestStep ==
  ASSUME TypeOK, NEW p \in Dashboard \cup Console, LogoutRequest(p)
  PROVE  TypeOK' /\ Quiet
<1> USE TypeParts
<1>1. page[p].sid \in Sid
  BY DEF LogoutRequest, Page, PageState, AnySid
<1>2. row' \in {row, Revoked(page[p].sid)}
  BY DEF LogoutRequest
<1>3. acts' \in 0..MaxActs
  BY ActTyped DEF LogoutRequest
<1>4. out' \in [Dashboard \cup Console -> Logout]
  <2> DEFINE mismatch == cookie # NoToken /\ cookie.sid # page[p].sid
  <2>1. PICK tokenValid \in BOOLEAN :
          out' = [out EXCEPT ![p] =
                [phase |-> "answered", retry |-> out[p].phase = "none", mismatch |-> mismatch,
                 clears |-> ~mismatch /\ (tokenValid => cookie # NoToken)]]
    BY DEF LogoutRequest
  <2>2. mismatch \in BOOLEAN /\ (out[p].phase = "none") \in BOOLEAN
        /\ (~mismatch /\ (tokenValid => cookie # NoToken)) \in BOOLEAN
    OBVIOUS
  <2> HIDE DEF mismatch
  <2>3. \A r, m, c \in BOOLEAN :
          [phase |-> "answered", retry |-> r, mismatch |-> m, clears |-> c] \in Logout
    BY DEF Logout
  <2> QED BY <2>1, <2>2, <2>3
<1>5. UNCHANGED <<cookie, lock, page, flight, call, entry, inbox, adrift, faults, lost, overlapped>>
  BY DEF LogoutRequest
<1> QED BY <1>1, <1>2, <1>3, <1>4, <1>5, RevokedTyped, ElsewhereStep

LEMMA LogoutMismatchStep ==
  ASSUME TypeOK, NEW p \in Dashboard \cup Console, LogoutMismatch(p)
  PROVE  TypeOK' /\ Quiet
<1> USE TypeParts
<1>1. UNCHANGED <<acts, row, adrift, lost, overlapped, cookie, page, call, entry, inbox, faults>>
  BY DEF LogoutMismatch, server
<1>2. out' \in [Dashboard \cup Console -> Logout]
  <2>1. NoLogout \in Logout /\ [NoLogout EXCEPT !.phase = "refreshing"] \in Logout
    BY DEF NoLogout, Logout
  <2> QED BY <2>1 DEF LogoutMismatch
<1>3. /\ flight' \in [Page -> Flight] /\ lock' \in Seq(Dashboard \cup Site)
      /\ QuietFlights /\ \A q \in Page : Granted(q) => Pending(q)'
  <2>1. CASE p \in Dashboard /\ Refresh(p)
    <3>1. p \in Page \ Console
      BY <2>1 DEF Page
    <3> QED BY <2>1, <3>1, RefreshTyped, QueueIsQuiet
  <2>2. CASE UNCHANGED <<flight, lock>>
    BY <2>2, StayIsQuiet
  <2> QED BY <2>1, <2>2 DEF LogoutMismatch
<1>4. TypeOK'
  BY <1>1, <1>2, <1>3, TypePartsNext
<1>5. QuietTokens
  BY <1>1, <1>3, TokensStay
<1>6. \A q \in Dashboard : PageMoves(q)
  BY <1>1 DEF PageMoves
<1> QED BY <1>3, <1>4, <1>5, <1>6 DEF Quiet

LEMMA LoginStep ==
  ASSUME TypeOK, NEW p \in Dashboard \cup Console, NEW s \in Sid, Login(p, s)
  PROVE  TypeOK' /\ Quiet
<1>1. row' \in [Sid -> Row] /\ \A x \in Sid : row'[x].status = "reused" => row[x].status = "reused"
  BY TypeParts DEF Login, Row
<1>2. entry' \in [Dashboard \cup Console -> Entry]
  <2>1. [kind |-> "login", sid |-> s] \in Entry
    BY DEF Entry, AnySid
  <2> QED BY <2>1, TypeParts DEF Login
<1>3. /\ UNCHANGED <<cookie, lock, page, flight, call, out, inbox, adrift, faults, lost, overlapped>>
      /\ acts' \in 0..MaxActs
  BY ActTyped DEF Login
<1> QED BY <1>1, <1>2, <1>3, ElsewhereStep, TypeParts

LEMMA SecurityChangeStep ==
  ASSUME TypeOK, NEW p \in Dashboard \cup Console, SecurityChange(p)
  PROVE  TypeOK' /\ Quiet
<1>1. row' \in [Sid -> Row] /\ \A x \in Sid : row'[x].status = "reused" => row[x].status = "reused"
  <2>1. [status |-> "revoked", grace |-> FALSE] \in Row
    BY DEF Row
  <2>2. PICK others : row' = [x \in Sid |->
          IF x \in others THEN [status |-> "revoked", grace |-> FALSE] ELSE row[x]]
    BY DEF SecurityChange
  <2> QED BY <2>1, <2>2, TypeParts
<1>2. entry' \in [Dashboard \cup Console -> Entry]
  <2>1. page[p].sid \in Sid
    BY TypeParts DEF PageState, Page, AnySid, SecurityChange
  <2>2. [kind |-> "rotation", sid |-> page[p].sid] \in Entry
    BY <2>1 DEF Entry
  <2> QED BY <2>2, TypeParts DEF SecurityChange
<1>3. /\ UNCHANGED <<cookie, lock, page, flight, call, out, inbox, adrift, faults, lost, overlapped>>
      /\ acts' \in 0..MaxActs
  BY ActTyped DEF SecurityChange
<1> QED BY <1>1, <1>2, <1>3, ElsewhereStep, TypeParts

LEMMA EntryLostStep ==
  ASSUME TypeOK, NEW p \in Dashboard \cup Console, EntryLost(p)
  PROVE  TypeOK' /\ Quiet
<1>1. entry' \in [Dashboard \cup Console -> Entry]
  BY TypeParts, Constants DEF EntryLost
<1>2. faults' \in 0..MaxFaults
  BY FaultTyped DEF EntryLost
<1>3. UNCHANGED <<acts, row, adrift, lost, overlapped, cookie, lock, page, flight, call, out, inbox>>
  BY DEF EntryLost, server
<1> QED BY <1>1, <1>2, <1>3, ElsewhereStep, TypeParts

\* The page p takes another state and leaves its refresh behind, while the
\* cookie stays or takes a first token.
LEMMA LeaveBehindStep ==
  ASSUME TypeOK, NEW p \in Page, NEW to \in PageState, page' = [page EXCEPT ![p] = to],
         flight' = [flight EXCEPT ![p] = Superseded(@)],
         UNCHANGED <<acts, lock, row, faults, adrift, lost, overlapped>>,
         cookie' \in Token, cookie' = cookie \/ cookie'.age = 0,
         call' \in [Dashboard -> {"none", "waiting"} \cup Sid],
         entry' \in [Dashboard \cup Console -> Entry],
         out' \in [Dashboard \cup Console -> Logout], inbox' \in [Dashboard -> Seq(Event)],
         p \in Dashboard =>
           to.sid \in {page[p].sid, NoSid} \/ entry[p] = [kind |-> "login", sid |-> to.sid]
  PROVE  TypeOK' /\ Quiet
<1> USE TypeParts
<1>1. /\ flight' \in [Page -> Flight] /\ ~(Pending(p)' /\ flight'[p].current)
      /\ QuietFlights /\ \A q \in Page : Granted(q) => Pending(q)'
  BY LeftBehind
<1>2. page' \in [Page -> PageState] /\ page'[p] = to /\ \A q \in Page \ {p} : page'[q] = page[q]
  OBVIOUS
<1>3. TypeOK'
  BY <1>1, <1>2, TypePartsNext
<1>4. QuietTokens
  BY <1>1, TokensStay
<1>5. ASSUME NEW d \in Dashboard PROVE PageMoves(d)
  <2>1. d \in Page
    BY DEF Page
  <2>2. CASE d # p
    BY <1>2, <2>1, <2>2 DEF PageMoves
  <2>3. CASE d = p
    BY <1>1, <1>2, <2>3 DEF PageMoves
  <2> QED BY <2>2, <2>3
<1> QED BY <1>1, <1>3, <1>4, <1>5 DEF Quiet

LEMMA SignedInStep ==
  ASSUME TypeOK, NEW p \in Dashboard \cup Console, SignedIn(p)
  PROVE  TypeOK' /\ Quiet
<1> USE TypeParts, Constants
<1> DEFINE s == entry[p].sid
           to == [sid |-> s, boot |-> "complete", limited |-> FALSE]
<1>1. p \in Page /\ s \in Sid /\ entry[p] = [kind |-> "login", sid |-> s]
  BY EntryTyped DEF Page, SignedIn
<1>2. to \in PageState /\ to.sid = s
  BY <1>1 DEF PageState, AnySid
<1>3. page' = [page EXCEPT ![p] = to] /\ flight' = [flight EXCEPT ![p] = Superseded(@)]
  BY DEF SignedIn, SetBundle
<1>4. UNCHANGED <<acts, row, lock, call, out, adrift, faults, lost, overlapped>>
  BY DEF SignedIn
<1>5. cookie' \in Token /\ cookie'.age = 0
  BY <1>1 DEF SignedIn, Token
<1>6. entry' \in [Dashboard \cup Console -> Entry]
  BY DEF SignedIn
<1>7. inbox' \in [Dashboard -> Seq(Event)]
  BY <1>1, PublishTyped DEF SignedIn
<1> HIDE DEF to, s
<1> QED BY <1>1, <1>2, <1>3, <1>4, <1>5, <1>6, <1>7, LeaveBehindStep

LEMMA RotatedStep ==
  ASSUME TypeOK, NEW p \in Dashboard \cup Console, Rotated(p)
  PROVE  TypeOK' /\ Quiet
<1> USE TypeParts, Constants
<1> DEFINE s == entry[p].sid
           to == [sid |-> s, boot |-> "complete", limited |-> FALSE]
<1>1. p \in Page /\ s \in AnySid
  BY EntryTyped DEF Page, Rotated, AnySid
<1>2. to \in PageState /\ to.sid = s
  BY <1>1 DEF PageState
<1>3. UNCHANGED <<acts, row, adrift, lost, overlapped, cookie, lock, call, out, inbox, faults>>
  BY DEF Rotated, server
<1>4. entry' \in [Dashboard \cup Console -> Entry]
  BY DEF Rotated
<1>5. CASE UNCHANGED <<page, flight>>
  BY <1>3, <1>4, <1>5, ElsewhereStep
<1>6. CASE /\ p \in Dashboard => page[p].sid = s
           /\ page' = [page EXCEPT ![p] = to] /\ flight' = [flight EXCEPT ![p] = Superseded(@)]
  <2> HIDE DEF to, s
  <2> QED BY <1>1, <1>2, <1>3, <1>4, <1>6, LeaveBehindStep
<1> QED BY <1>5, <1>6 DEF Rotated, SetBundle

LEMMA LoggedOutStep ==
  ASSUME ClientInv, NEW p \in Dashboard \cup Console, LoggedOut(p)
  PROVE  TypeOK' /\ Quiet
<1> USE TypeParts, Constants
<1>0. TypeOK /\ p \in Page
  BY DEF ClientInv, Page
<1>1. UNCHANGED <<acts, row, overlapped, lock, call, entry, faults>>
  BY DEF LoggedOut
<1>2. cookie' \in Token /\ (cookie' = cookie \/ cookie'.age = 0)
  <2>1. CASE out[p].clears
    <3>1. Store({NoToken})
      BY <2>1 DEF LoggedOut
    <3>2. cookie' = CHOOSE t \in {NoToken} : TRUE
      BY <3>1, Zenon DEF Store
    <3> QED BY <3>2
  <2>2. CASE ~out[p].clears
    BY <1>0, <2>2, StoreTyped DEF LoggedOut
  <2> QED BY <2>1, <2>2
<1>3. page' = [page EXCEPT ![p] = Cleared]
  BY DEF LoggedOut, Forget
<1>4. out' \in [Dashboard \cup Console -> Logout]
  BY <1>0 DEF LoggedOut
<1>5. inbox' \in [Dashboard -> Seq(Event)]
  BY <1>0, SignedOutTyped DEF LoggedOut
<1>6. CASE p \in Console
  <2>1. flight' = [flight EXCEPT ![p] = Idle] /\ Abandon(flight[p])
    BY <1>6 DEF LoggedOut
  <2>2. flight' \in [Page -> Flight] /\ flight'[p] = Idle /\ \A q \in Page \ {p} : flight'[q] = flight[q]
    <3>1. flight \in [Page -> Flight] /\ Idle \in Flight
      BY <1>0, IdleTyped
    <3> QED BY <1>0, <2>1, <3>1
  <2>3. QuietFlights /\ ~Pending(p)' /\ \A q \in Page \ {p} : Granted(q) => Pending(q)'
    BY <1>0, <1>1, <2>2, EndIsQuiet
  <2>4. /\ adrift' \in Seq(Token) /\ lost \subseteq lost' /\ lost' \subseteq Sid
        /\ Granted(p) => flight[p].token.sid \in lost'
        /\ AdriftLost'
    BY <1>0, <2>1, AbandonTyped
  <2>5. page' \in [Page -> PageState] /\ page'[p].sid = NoSid /\ \A q \in Page \ {p} : page'[q] = page[q]
    BY <1>0, <1>3
  <2>6. TypeOK'
    BY <1>0, <1>1, <1>2, <1>4, <1>5, <2>2, <2>4, <2>5, TypePartsNext
  <2>7. QuietTokens
    BY <1>1, <1>2, <2>3, <2>4 DEF QuietTokens
  <2>8. \A d \in Dashboard : PageMoves(d)
    BY <1>6, <2>5 DEF PageMoves, Page
  <2> QED BY <2>3, <2>6, <2>7, <2>8 DEF Quiet
<1>7. CASE p \notin Console
  <2>1. flight' = [flight EXCEPT ![p] = Superseded(@)] /\ UNCHANGED <<adrift, lost>>
    BY <1>7 DEF LoggedOut, Forget
  <2>2. entry' \in [Dashboard \cup Console -> Entry]
        /\ call' \in [Dashboard -> {"none", "waiting"} \cup Sid]
    BY <1>0, <1>1
  <2> QED BY <1>0, <1>1, <1>2, <1>3, <1>4, <1>5, <2>1, <2>2, LeaveBehindStep
<1> QED BY <1>6, <1>7

LEMMA ReloadQuiet ==
  ASSUME ClientInv, NEW p \in Page, Reload(p), UNCHANGED <<row, overlapped, cookie, faults>>,
         acts' \in 0..MaxActs
  PROVE  TypeOK' /\ Quiet
<1> USE TypeParts, Constants
<1>0. TypeOK
  BY DEF ClientInv
<1>1. /\ flight' \in [Page -> Flight] /\ lock' \in Seq(Dashboard \cup Site)
      /\ page' \in [Page -> PageState]
      /\ call' \in [Dashboard -> {"none", "waiting"} \cup Sid]
      /\ entry' \in [Dashboard \cup Console -> Entry]
      /\ out' \in [Dashboard \cup Console -> Logout]
      /\ inbox' \in [Dashboard -> Seq(Event)]
      /\ flight'[p] = Idle /\ \A q \in Page \ {p} : flight'[q] = flight[q]
      /\ page'[p] = Fresh /\ \A q \in Page \ {p} : page'[q] = page[q]
      /\ lock' = Leave(p)
  BY <1>0, ReloadTyped
<1>2. /\ adrift' \in Seq(Token) /\ lost \subseteq lost' /\ lost' \subseteq Sid
      /\ Granted(p) => flight[p].token.sid \in lost'
      /\ AdriftLost'
  BY AbandonTyped DEF Reload
<1>3. TypeOK'
  BY <1>0, <1>1, <1>2, TypePartsNext
<1>4. QuietFlights /\ ~Pending(p)' /\ \A q \in Page \ {p} : Granted(q) => Pending(q)'
  BY <1>0, <1>1, EndIsQuiet
<1>5. QuietTokens
  BY <1>2, <1>4 DEF QuietTokens
<1>6. \A q \in Dashboard : PageMoves(q)
  BY <1>1, <1>4 DEF PageMoves, Page
<1> QED BY <1>3, <1>4, <1>5, <1>6 DEF Quiet

LEMMA UserReloadStep ==
  ASSUME ClientInv, NEW p \in Page, UserReload(p)
  PROVE  TypeOK' /\ Quiet
<1>1. TypeOK /\ acts' \in 0..MaxActs
  BY ActTyped DEF UserReload, ClientInv
<1> QED BY <1>1, ReloadQuiet DEF UserReload

LEMMA ReceiveStep ==
  ASSUME ClientInv, NEW d \in Dashboard, Receive(d)
  PROVE  TypeOK' /\ Quiet
<1> USE TypeParts, Constants
<1>0. TypeOK /\ d \in Page
  BY DEF ClientInv, Page
<1>1. UNCHANGED <<acts, row, overlapped, cookie, faults>>
  BY DEF Receive
<1> DEFINE rest == [inbox EXCEPT ![d] = Tail(inbox[d])]
<1>2. rest \in [Dashboard -> Seq(Event)]
  BY <1>0, InboxTyped DEF Receive
<1>3. CASE Reload(d)
  BY <1>0, <1>1, <1>3, ReloadQuiet
<1>4. CASE Forget(d) /\ inbox' = rest /\ UNCHANGED <<lock, call, entry, out, adrift, lost>>
  <2>1. page' = [page EXCEPT ![d] = Cleared] /\ flight' = [flight EXCEPT ![d] = Superseded(@)]
    BY <1>4 DEF Forget
  <2> QED BY <1>0, <1>1, <1>2, <1>4, <2>1, LeaveBehindStep
<1>5. CASE inbox' = rest /\ UNCHANGED <<page, flight, lock, call, entry, out, adrift, lost>>
  BY <1>0, <1>1, <1>2, <1>5, ElsewhereStep
<1> QED BY <1>3, <1>4, <1>5 DEF Receive

LEMMA RepeatedStep ==
  ASSUME ClientInv, NEW d \in Dashboard, Repeated(d)
  PROVE  TypeOK' /\ Quiet
<1>0. TypeOK /\ d \in Page
  BY DEF ClientInv, Page
<1>1. UNCHANGED <<acts, row, overlapped, cookie, faults>>
  BY DEF Repeated
<1>2. CASE Reload(d)
  BY <1>0, <1>1, <1>2, ReloadQuiet, TypeParts
<1>3. CASE /\ call' = [call EXCEPT ![d] = "none"]
           /\ UNCHANGED <<page, flight, lock, entry, out, inbox, adrift, lost>>
  <2>1. call' \in [Dashboard -> {"none", "waiting"} \cup Sid]
    BY <1>0, <1>3, TypeParts
  <2> QED BY <1>0, <1>1, <1>3, <2>1, ElsewhereStep, TypeParts
<1>4. CASE /\ Forget(d) /\ call' = [call EXCEPT ![d] = "none"]
           /\ UNCHANGED <<lock, entry, out, inbox, adrift, lost>>
  <2>1. call' \in [Dashboard -> {"none", "waiting"} \cup Sid]
    BY <1>0, <1>4, TypeParts
  <2>2. page' = [page EXCEPT ![d] = Cleared] /\ flight' = [flight EXCEPT ![d] = Superseded(@)]
    BY <1>4 DEF Forget
  <2> QED BY <1>0, <1>1, <1>4, <2>1, <2>2, LeaveBehindStep, TypeParts, Constants
<1> QED BY <1>2, <1>3, <1>4 DEF Repeated

\* A refresh that settles while the cookie stays or takes the token of its answer.
LEMMA FinishQuiet ==
  ASSUME TypeOK, NEW p \in Page, NEW outcome, NEW to \in PageState,
         NEW box \in [Dashboard -> Seq(Event)], Finish(p, outcome, to, box),
         outcome = "authenticated" => to.sid \in Sid,
         to.sid \in {page[p].sid, NoSid}
           \/ (Granted(p) /\ flight[p].current /\ \E t \in flight[p].answer.set : to.sid = t.sid)
           \/ p \notin Dashboard,
         cookie' \in Token,
         cookie' = cookie \/ (flight[p].phase = "answered" /\ cookie' \in flight[p].answer.set),
         Granted(p) => flight[p].token.sid \in lost' \/ cookie' \in flight[p].answer.set,
         row' = row, acts' = acts, faults' \in 0..MaxFaults,
         adrift' \in Seq(Token), AdriftLost => AdriftLost',
         lost \subseteq lost', lost' \subseteq Sid, overlapped \subseteq overlapped',
         overlapped' \subseteq Sid
  PROVE  TypeOK' /\ Quiet
<1> USE TypeParts, Constants
<1>1. /\ flight' \in [Page -> Flight] /\ lock' \in Seq(Dashboard \cup Site)
      /\ page' \in [Page -> PageState]
      /\ call' \in [Dashboard -> {"none", "waiting"} \cup Sid]
      /\ entry' \in [Dashboard \cup Console -> Entry]
      /\ out' \in [Dashboard \cup Console -> Logout]
      /\ inbox' \in [Dashboard -> Seq(Event)]
      /\ flight'[p] = Idle /\ \A q \in Page \ {p} : flight'[q] = flight[q]
      /\ page'[p] \in {Fresh, to} /\ \A q \in Page \ {p} : page'[q] = page[q]
      /\ lock' = Leave(p)
  BY FinishTyped
<1>2. TypeOK'
  BY <1>1, TypePartsNext
<1>3. QuietFlights /\ ~Pending(p)' /\ \A q \in Page \ {p} : Granted(q) => Pending(q)'
  BY <1>1, EndIsQuiet
<1>4. QuietTokens
  BY <1>3 DEF QuietTokens
<1>5. ASSUME NEW d \in Dashboard PROVE PageMoves(d)
  <2>1. d \in Page
    BY DEF Page
  <2>2. CASE d # p
    BY <1>1, <2>1, <2>2 DEF PageMoves
  <2>3. CASE d = p
    BY <1>1, <1>3, <2>3 DEF PageMoves
  <2> QED BY <2>2, <2>3
<1> QED BY <1>2, <1>3, <1>4, <1>5 DEF Quiet

\* Requests adrift stay as they are.
LEMMA AdriftStays ==
  ASSUME TypeOK, UNCHANGED <<adrift, lost>>
  PROVE  adrift' \in Seq(Token) /\ (AdriftLost => AdriftLost')
BY TypeParts DEF AdriftLost

LEMMA RateLimitedStep ==
  ASSUME ClientInv, NEW d \in Dashboard, RateLimited(d)
  PROVE  TypeOK' /\ Quiet
<1> USE TypeParts, Constants
<1>0. TypeOK /\ d \in Page
  BY DEF ClientInv, Page
<1>1. UNCHANGED <<acts, row, adrift, lost, overlapped, cookie>> /\ faults' \in 0..MaxFaults
  BY <1>0, FaultTyped DEF RateLimited, server
<1> DEFINE to == IF flight[d].current
                   THEN [page[d] EXCEPT !.boot = "idle", !.limited = TRUE] ELSE page[d]
<1>2. to \in PageState /\ to.sid = page[d].sid
  BY <1>0 DEF PageState
<1>3. Finish(d, "transient_error", to, inbox)
  BY DEF RateLimited
<1> HIDE DEF to
<1>4. ~Granted(d)
  BY DEF RateLimited, Granted
<1> QED BY <1>0, <1>1, <1>2, <1>3, <1>4, AdriftStays, FinishQuiet

LEMMA UnavailableStep ==
  ASSUME ClientInv, NEW p \in Page, Unavailable(p)
  PROVE  TypeOK' /\ Quiet
<1> USE TypeParts, Constants
<1>0. TypeOK
  BY DEF ClientInv
<1>1. UNCHANGED <<acts, row, overlapped, cookie>> /\ faults' \in 0..MaxFaults
  BY <1>0, FaultTyped DEF Unavailable
<1> DEFINE to == IF p \in Dashboard /\ flight[p].current THEN [page[p] EXCEPT !.boot = "idle"] ELSE page[p]
<1>2. to \in PageState /\ to.sid = page[p].sid
  BY <1>0 DEF PageState
<1>3. Finish(p, "transient_error", to, inbox)
  BY DEF Unavailable
<1> HIDE DEF to
<1>4. /\ adrift' \in Seq(Token) /\ lost \subseteq lost' /\ lost' \subseteq Sid
      /\ Granted(p) => flight[p].token.sid \in lost'
      /\ AdriftLost'
  BY AbandonTyped DEF Unavailable
<1> HIDE DEF ClientInv
<1> QED BY <1>0, <1>1, <1>2, <1>3, <1>4, FinishQuiet

\* An answer that arrives leaves the cookie as it was or sets one of its own.
LEMMA AnswerStored ==
  ASSUME TypeOK, NEW p \in Page, Store(flight[p].answer.set)
  PROVE  /\ cookie' \in Token
         /\ flight[p].answer.set = {} => cookie' = cookie
         /\ flight[p].answer.set # {} => cookie' \in flight[p].answer.set
<1>1. cookie \in Token /\ flight[p].answer.set \subseteq Token
  BY TypeParts DEF Flight, Answer
<1> QED BY <1>1, StoreTyped

LEMMA SupersedeStep ==
  ASSUME ClientInv, NEW p \in Page, Supersede(p)
  PROVE  TypeOK' /\ Quiet
<1> USE TypeParts
<1>0. TypeOK /\ AnswerOK(p)
  BY DEF ClientInv
<1>1. UNCHANGED <<acts, row, adrift, lost, overlapped, faults>>
  BY DEF Supersede, server
<1>2. flight[p].phase = "answered" /\ Finish(p, "superseded", page[p], inbox) /\ page[p] \in PageState
  BY <1>0 DEF Supersede
<1>3. /\ cookie' \in Token
      /\ flight[p].answer.set = {} => cookie' = cookie
      /\ flight[p].answer.set # {} => cookie' \in flight[p].answer.set
  BY <1>0, AnswerStored DEF Supersede
<1>4. Granted(p) => flight[p].answer.set # {}
  BY <1>0 DEF AnswerOK, Granted
<1> QED BY <1>0, <1>1, <1>2, <1>3, <1>4, AdriftStays, FinishQuiet

LEMMA AcceptBundleStep ==
  ASSUME ClientInv, NEW p \in Page, AcceptBundle(p)
  PROVE  TypeOK' /\ Quiet
<1> USE TypeParts
<1>0. TypeOK /\ AnswerOK(p)
  BY DEF ClientInv
<1>1. UNCHANGED <<acts, row, adrift, lost, overlapped, faults>>
  BY DEF AcceptBundle, server
<1>2. Granted(p) /\ flight[p].phase = "answered" /\ Store(flight[p].answer.set)
  BY DEF AcceptBundle, Arrived, Granted
<1>3. flight[p].answer.set # {} /\ \A t \in flight[p].answer.set : t.sid \in Sid
  BY <1>0, <1>2 DEF AnswerOK, Granted
<1>4. cookie' \in Token /\ cookie' \in flight[p].answer.set
  BY <1>0, <1>2, <1>3, AnswerStored
<1> DEFINE to == [sid |-> cookie'.sid, boot |-> "complete", limited |-> FALSE]
<1>5. to \in PageState /\ to.sid = cookie'.sid /\ to.sid \in Sid
  BY <1>3, <1>4 DEF PageState, AnySid
<1>6. Finish(p, "authenticated", to, inbox)
  BY DEF AcceptBundle
<1> HIDE DEF to
<1>7. p \in Dashboard => flight[p].current
  BY DEF AcceptBundle, Supersedes
<1> QED BY <1>0, <1>1, <1>2, <1>4, <1>5, <1>6, <1>7, AdriftStays, FinishQuiet

LEMMA AnonymousStep ==
  ASSUME ClientInv, NEW p \in Page, Anonymous(p)
  PROVE  TypeOK' /\ Quiet
<1> USE TypeParts, Constants
<1>0. TypeOK /\ AnswerOK(p)
  BY DEF ClientInv
<1>1. UNCHANGED <<acts, row, adrift, lost, overlapped, faults>>
  BY DEF Anonymous, server
<1>2. /\ flight[p].phase = "answered" /\ flight[p].answer.kind = "unauthorized"
      /\ Store(flight[p].answer.set) /\ Finish(p, "anonymous", Cleared, SignedOutBox(p))
  BY DEF Anonymous, Arrived
<1>3. flight[p].answer.set # {}
  BY <1>0, <1>2 DEF AnswerOK
<1>4. cookie' \in Token /\ cookie' \in flight[p].answer.set
  BY <1>0, <1>2, <1>3, AnswerStored
<1>5. SignedOutBox(p) \in [Dashboard -> Seq(Event)]
  BY <1>0, SignedOutTyped
<1> QED BY <1>0, <1>1, <1>2, <1>4, <1>5, AdriftStays, FinishQuiet

LEMMA OverlapTyped ==
  ASSUME TypeOK, NoteOverlap
  PROVE  overlapped \subseteq overlapped' /\ overlapped' \subseteq Sid
BY TypeParts DEF NoteOverlap

\* A request goes out, and the types are kept.
LEMMA SendTyped ==
  ASSUME TypeOK, NEW p \in Page, NEW e \in AnySid, NEW b \in BOOLEAN,
         flight' = [flight EXCEPT ![p] = Request(e, b, flight[p].current)]
  PROVE  /\ flight' \in [Page -> Flight] /\ \A q \in Page \ {p} : flight'[q] = flight[q]
         /\ flight'[p].phase = "sent" /\ flight'[p].token = cookie /\ flight'[p].expected = e
<1>1. cookie \in Token /\ flight \in [Page -> Flight]
  BY TypeParts
<1>2. flight[p].current \in BOOLEAN
  BY <1>1 DEF Flight
<1>3. /\ Request(e, b, flight[p].current) \in Flight
      /\ Request(e, b, flight[p].current).phase = "sent"
      /\ Request(e, b, flight[p].current).token = cookie
      /\ Request(e, b, flight[p].current).expected = e
  BY <1>1, <1>2, RequestTyped
<1> QED BY <1>1, <1>3

LEMMA AcquireStep ==
  ASSUME ClientInv, NEW p \in Page, p \notin Console, Acquire(p)
  PROVE  TypeOK' /\ (Quiet \/ Send(p))
<1> USE TypeParts
<1>0. TypeOK
  BY DEF ClientInv
<1>1. UNCHANGED <<acts, row, adrift, lost, cookie, faults>> /\ NoteOverlap
  BY DEF Acquire, server
<1>2. lock # <<>> /\ Head(lock) = p /\ flight[p].phase = "queued"
  BY DEF Acquire
<1>3. overlapped \subseteq overlapped' /\ overlapped' \subseteq Sid
  BY <1>0, <1>1, OverlapTyped
<1>4. ~Granted(p)
  BY <1>2 DEF Granted
<1>5. page[p] \in PageState /\ page[p].sid \in AnySid
  BY <1>0 DEF PageState
<1>6. CASE Finish(p, "superseded", page[p], inbox)
  BY <1>0, <1>1, <1>3, <1>4, <1>5, <1>6, AdriftStays, FinishQuiet
<1>7. CASE /\ flight' = [flight EXCEPT ![p] = Request(page[p].sid, TRUE, flight[p].current)]
           /\ UNCHANGED <<lock, page, call, entry, out, inbox>>
  <2>1. /\ flight' \in [Page -> Flight] /\ \A q \in Page \ {p} : flight'[q] = flight[q]
        /\ flight'[p].phase = "sent" /\ flight'[p].token = cookie
        /\ flight'[p].expected = page[p].sid
    BY <1>0, <1>5, <1>7, SendTyped
  <2>2. TypeOK'
    BY <1>0, <1>1, <1>3, <1>7, <2>1, TypePartsNext
  <2> QED BY <1>1, <1>2, <1>4, <1>7, <2>1, <2>2 DEF Send
<1> QED BY <1>6, <1>7 DEF Acquire

LEMMA SessionQueryStep ==
  ASSUME ClientInv, NEW p \in Console, SessionQuery(p)
  PROVE  TypeOK' /\ Send(p)
<1> USE TypeParts
<1>0. TypeOK /\ p \in Page
  BY DEF ClientInv, Page
<1>1. UNCHANGED <<row, adrift, lost, cookie, page, call, entry, out, inbox, faults>> /\ NoteOverlap
      /\ flight[p].phase = "idle" /\ Refresh(p)
  BY DEF SessionQuery, server
<1>2. acts' \in 0..MaxActs
  BY <1>0, ActTyped DEF SessionQuery
<1>3. overlapped' \subseteq Sid
  BY <1>0, <1>1, OverlapTyped
<1>4. /\ flight' \in [Page -> Flight] /\ \A q \in Page \ {p} : flight'[q] = flight[q]
      /\ flight'[p] = Request(page[p].sid, TRUE, TRUE) /\ lock' = lock
  BY <1>0, <1>1, RefreshTyped
<1>5. cookie \in Token /\ page[p].sid \in AnySid
  BY <1>0 DEF PageState
<1>6. flight'[p].phase = "sent" /\ flight'[p].token = cookie
  <2>1. /\ Request(page[p].sid, TRUE, TRUE).phase = "sent"
        /\ Request(page[p].sid, TRUE, TRUE).token = cookie
    BY DEF Request, Idle
  <2> QED BY <1>4, <2>1
<1>7. TypeOK'
  BY <1>0, <1>1, <1>2, <1>3, <1>4, TypePartsNext
<1>8. ~Granted(p) /\ p \notin Dashboard
  BY <1>1 DEF Granted
<1> QED BY <1>1, <1>4, <1>6, <1>7, <1>8 DEF Send

LEMMA MismatchStep ==
  ASSUME ClientInv, NEW p \in Page, Mismatch(p)
  PROVE  TypeOK' /\ (Quiet \/ Send(p))
<1> USE TypeParts, Constants
<1>0. TypeOK /\ AnswerOK(p)
  BY DEF ClientInv
<1>1. UNCHANGED <<acts, row, adrift, lost, faults>> /\ NoteOverlap
  BY DEF Mismatch, server
<1>2. /\ flight[p].phase = "answered" /\ flight[p].answer.kind = "mismatch"
      /\ Store(flight[p].answer.set)
  BY DEF Mismatch, Arrived
<1>3. flight[p].answer.set = {}
  BY <1>0, <1>2 DEF AnswerOK
<1>4. cookie' = cookie /\ cookie' \in Token
  BY <1>0, <1>2, <1>3, AnswerStored
<1>5. overlapped \subseteq overlapped' /\ overlapped' \subseteq Sid
  BY <1>0, <1>1, OverlapTyped
<1>6. ~Granted(p)
  BY <1>2 DEF Granted
<1>7. page[p] \in PageState /\ page[p].sid \in AnySid
  BY <1>0 DEF PageState
<1>8. CASE Finish(p, "transient_error", page[p], inbox)
  BY <1>0, <1>1, <1>4, <1>5, <1>6, <1>7, <1>8, AdriftStays, FinishQuiet
<1>9. CASE Finish(p, "out_of_sync", Cleared, inbox)
  BY <1>0, <1>1, <1>4, <1>5, <1>6, <1>9, AdriftStays, FinishQuiet
<1>10. CASE /\ p \notin Console /\ page' = [page EXCEPT ![p].sid = NoSid, ![p].boot = "idle"]
            /\ flight' = [flight EXCEPT ![p] = Request(NoSid, FALSE, flight[p].current)]
            /\ UNCHANGED <<lock, call, entry, out, inbox>>
  <2>1. /\ flight' \in [Page -> Flight] /\ \A q \in Page \ {p} : flight'[q] = flight[q]
        /\ flight'[p].phase = "sent" /\ flight'[p].token = cookie /\ flight'[p].expected = NoSid
    <3>1. NoSid \in AnySid
      BY DEF AnySid
    <3> QED BY <1>0, <1>10, <3>1, SendTyped
  <2>2. page' \in [Page -> PageState] /\ page'[p].sid = NoSid /\ \A q \in Page \ {p} : page'[q] = page[q]
    <3>1. page' = [page EXCEPT ![p] = [page[p] EXCEPT !.sid = NoSid, !.boot = "idle"]]
      BY <1>0, <1>10
    <3>2. /\ [page[p] EXCEPT !.sid = NoSid, !.boot = "idle"] \in PageState
          /\ [page[p] EXCEPT !.sid = NoSid, !.boot = "idle"].sid = NoSid
      BY <1>7 DEF PageState, AnySid
    <3> QED BY <1>0, <3>1, <3>2
  <2>3. TypeOK'
    BY <1>0, <1>1, <1>4, <1>5, <1>10, <2>1, <2>2, TypePartsNext
  <2>4. lock # <<>> /\ Head(lock) = p
    BY <1>2, <1>10 DEF ClientInv, LockHeld, Pending
  <2>5. \A d \in Dashboard : page'[d].sid = page[d].sid \/ (d = p /\ page'[d].sid = NoSid)
    BY <2>2 DEF Page
  <2>6. p \in Dashboard => page'[p].sid = flight'[p].expected
    BY <2>1, <2>2
  <2> QED BY <1>1, <1>2, <1>4, <1>6, <1>10, <2>1, <2>3, <2>4, <2>5, <2>6 DEF Send
<1> QED BY <1>8, <1>9, <1>10 DEF Mismatch

-----------------------------------------------------------------------------
(* The answer of the server                                                *)

\* When a refresh yields a token, and when it is taken for a reuse.
LEMMA Outcome ==
  ASSUME NEW tok \in Token, NEW e
  PROVE  /\ RefreshOutcome(tok, e) \in {"rotate", "replay"} =>
              tok.sid \in Sid /\ e \in {NoSid, tok.sid}
         /\ RefreshOutcome(tok, e) = "rotate" => tok.sid \in Sid
         /\ RefreshOutcome(tok, e) = "reuse" => tok.sid \in Sid /\ tok.age = 1
<1>1. tok # NoToken => tok.sid \in Sid
  BY DEF Token
<1>2. RefreshOutcome(tok, e) \in {"rotate", "replay"} => tok # NoToken /\ e \in {NoSid, tok.sid}
  BY DEF RefreshOutcome
<1>3. RefreshOutcome(tok, e) = "reuse" => tok # NoToken /\ tok.age = 1
  BY DEF RefreshOutcome
<1> QED BY <1>1, <1>2, <1>3

\* A token keeps its session whatever a refresh brings, and grows older only by
\* a rotation of its session.
LEMMA AfterTyped ==
  ASSUME NEW o, NEW s, o = "rotate" => s \in Sid, NEW x \in Token
  PROVE  /\ After(o, s, x) \in Token /\ After(o, s, x).sid = x.sid
         /\ x.sid # s => After(o, s, x) = x
         /\ o # "rotate" => After(o, s, x) = x
<1>1. CASE o = "rotate"
  BY <1>1, AgedTyped DEF After
<1>2. CASE o # "rotate"
  BY <1>2 DEF After
<1> QED BY <1>1, <1>2

LEMMA RowAfterTyped ==
  ASSUME row \in [Sid -> Row], NEW o, NEW s, o \in {"rotate", "reuse"} => s \in Sid
  PROVE  /\ RowAfter(o, s) \in [Sid -> Row]
         /\ \A x \in Sid : RowAfter(o, s)[x].status = "reused" =>
              row[x].status = "reused" \/ (x = s /\ o = "reuse")
<1>1. CASE o = "rotate"
  BY <1>1 DEF RowAfter, Row
<1>2. CASE o = "reuse"
  BY <1>2 DEF RowAfter, Row
<1>3. CASE o \notin {"rotate", "reuse"}
  BY <1>3 DEF RowAfter
<1> QED BY <1>1, <1>2, <1>3

\* The tokens of session s that the flight of page q holds may have grown older.
Older(q, s) ==
  /\ flight'[q].phase = flight[q].phase /\ flight'[q].current = flight[q].current
  /\ flight'[q].expected = flight[q].expected
  /\ flight'[q].answer.kind = flight[q].answer.kind
  /\ flight'[q].token.sid = flight[q].token.sid
  /\ flight[q].token.sid # s => flight'[q].token = flight[q].token
  /\ \A t \in flight'[q].answer.set :
       \E u \in flight[q].answer.set : t.sid = u.sid /\ (u.sid # s => t = u)

LEMMA OlderFlight ==
  ASSUME TypeOK, NEW o, NEW s, o = "rotate" => s \in Sid, NEW q \in Page, AnswerOK(q),
         flight'[q] = [flight[q] EXCEPT !.token = After(o, s, @),
                                        !.answer.set = {After(o, s, x) : x \in @}]
  PROVE  flight'[q] \in Flight /\ Older(q, s) /\ AnswerOK(q)'
<1> DEFINE aged == {After(o, s, x) : x \in flight[q].answer.set}
           reply == [flight[q].answer EXCEPT !.set = aged]
<1>1. /\ flight[q] \in Flight /\ flight[q].token \in Token /\ flight[q].answer \in Answer
      /\ flight[q].answer.set \subseteq Token
  BY TypeParts DEF Flight, Answer
<1>2. ASSUME NEW x \in Token
      PROVE  /\ After(o, s, x) \in Token /\ After(o, s, x).sid = x.sid
             /\ x.sid # s => After(o, s, x) = x
  BY AfterTyped
<1>3. After(o, s, flight[q].token) \in Token /\ aged \subseteq Token
  BY <1>1, <1>2
<1>4. \A t \in aged : \E u \in flight[q].answer.set : t.sid = u.sid /\ (u.sid # s => t = u)
  BY <1>1, <1>2
<1>5. flight[q].answer.set # {} => aged # {}
  OBVIOUS
<1>6. flight[q].answer.set = {NoToken} => aged = {NoToken}
  <2>1. After(o, s, NoToken) = NoToken
    BY Constants, AfterTyped
  <2> QED BY <2>1
<1>7. flight[q].answer.set = {} => aged = {}
  OBVIOUS
<1> HIDE DEF aged
<1>8. reply \in Answer /\ reply.kind = flight[q].answer.kind /\ reply.set = aged
  BY <1>1, <1>3 DEF Answer
<1>9. flight'[q] = [flight[q] EXCEPT !.token = After(o, s, flight[q].token), !.answer = reply]
  BY <1>1 DEF Flight, Answer, aged
<1> HIDE DEF reply
<1>10. /\ flight'[q] \in Flight /\ flight'[q].phase = flight[q].phase
       /\ flight'[q].current = flight[q].current /\ flight'[q].expected = flight[q].expected
       /\ flight'[q].token = After(o, s, flight[q].token) /\ flight'[q].answer = reply
  BY ONLY <1>1, <1>3, <1>8, <1>9 DEF Flight
<1>11. /\ flight'[q].token.sid = flight[q].token.sid
       /\ flight[q].token.sid # s => flight'[q].token = flight[q].token
  BY <1>1, <1>2, <1>10
<1>12. Older(q, s)
  BY <1>4, <1>8, <1>10, <1>11 DEF Older
<1>13. AnswerOK(q)'
  <2>1. ASSUME flight[q].answer.set # {},
               \A t \in flight[q].answer.set : t.sid \in Sid /\ t.sid = flight[q].token.sid
        PROVE  aged # {} /\ \A t \in aged : t.sid \in Sid /\ t.sid = flight'[q].token.sid
    BY <1>4, <1>5, <1>11, <2>1
  <2> QED BY <1>6, <1>7, <1>8, <1>10, <2>1 DEF AnswerOK
<1> QED BY <1>10, <1>12, <1>13

\* The requests adrift, their tokens aged, are still of lost sessions.
LostToken == {t \in Token : t.sid \in lost}

LEMMA AdriftAged ==
  ASSUME TypeOK, AdriftLost, NEW o, NEW s, o = "rotate" => s \in Sid
  PROVE  [i \in DOMAIN adrift |-> After(o, s, adrift[i])] \in Seq(LostToken)
<1>1. /\ adrift \in Seq(Token) /\ Len(adrift) \in Nat /\ DOMAIN adrift = 1..Len(adrift)
      /\ \A i \in 1..Len(adrift) : adrift[i] \in Token /\ adrift[i].sid \in lost
  BY TypeParts DEF AdriftLost
<1>2. \A i \in 1..Len(adrift) : After(o, s, adrift[i]) \in LostToken
  <2> SUFFICES ASSUME NEW i \in 1..Len(adrift) PROVE After(o, s, adrift[i]) \in LostToken
    OBVIOUS
  <2>1. After(o, s, adrift[i]) \in Token /\ After(o, s, adrift[i]).sid = adrift[i].sid
    BY <1>1, AfterTyped
  <2> QED BY <1>1, <2>1 DEF LostToken
<1>3. \A n \in Nat : \A f \in [1..n -> LostToken] : f \in Seq(LostToken)
  OBVIOUS
<1>4. [i \in 1..Len(adrift) |-> After(o, s, adrift[i])] \in [1..Len(adrift) -> LostToken]
  BY <1>2
<1> QED BY <1>1, <1>3, <1>4

LEMMA RemoveTyped ==
  ASSUME NEW S, NEW queue \in Seq(S), NEW i \in 1..Len(queue)
  PROVE  RemoveAt(queue, i) \in Seq(S)
<1> DEFINE front == SubSeq(queue, 1, i - 1)
           back == SubSeq(queue, i + 1, Len(queue))
<1>1. Len(queue) \in Nat /\ \A k \in 1..Len(queue) : queue[k] \in S
  OBVIOUS
<1>2. front \in Seq(S)
  <2>1. 1 \in Int /\ i - 1 \in Int /\ \A k \in 1..i - 1 : queue[k] \in S
    BY <1>1
  <2> QED BY <2>1, SubSeqProperties
<1>3. back \in Seq(S)
  <2>1. i + 1 \in Int /\ Len(queue) \in Int /\ \A k \in i + 1..Len(queue) : queue[k] \in S
    BY <1>1
  <2> QED BY <2>1, SubSeqProperties
<1> HIDE DEF front, back
<1>4. front \o back \in Seq(S)
  BY <1>2, <1>3, ConcatProperties
<1> QED BY <1>4 DEF RemoveAt, front, back

LEMMA LostTokens ==
  ASSUME adrift' \in Seq(LostToken), lost' = lost
  PROVE  adrift' \in Seq(Token) /\ AdriftLost'
<1>1. \A i \in 1..Len(adrift') : adrift'[i] \in LostToken
  OBVIOUS
<1>2. adrift' \in Seq(Token)
  BY DEF LostToken
<1> QED BY <1>1, <1>2 DEF LostToken, AdriftLost

\* What the answer to page p's request changes: its own flight, and the age of
\* the tokens of its session when it is rotated.
Served(p) ==
  LET s == flight[p].token.sid
  IN  /\ flight[p].phase = "sent" /\ flight'[p].phase = "answered"
      /\ flight'[p].token = flight[p].token /\ flight'[p].current = flight[p].current
      /\ UNCHANGED <<lock, page, lost, overlapped>>
      /\ Granted(p)' => /\ s \in Sid /\ flight[p].expected \in {NoSid, s}
                        /\ flight'[p].answer.set = {[sid |-> s, age |-> 0]}
      /\ ~Granted(p)' => \A t \in flight'[p].answer.set : t = NoToken
      /\ \A q \in Page \ {p} : Older(q, s)
      /\ cookie' = cookie \/ (Granted(p)' /\ cookie.sid = s /\ cookie'.sid = s)
      /\ \A x \in Sid : row'[x].status = "reused" =>
           row[x].status = "reused" \/ (x = s /\ flight[p].token.age = 1)

LEMMA ServeStep ==
  ASSUME ClientInv, NEW p \in Page, Serve(p)
  PROVE  TypeOK' /\ AdriftLost' /\ Served(p) /\ \A q \in Page : AnswerOK(q)'
<1> DEFINE f == flight[p]
           s == flight[p].token.sid
           o == RefreshOutcome(f.token, f.expected)
           grant == [kind |-> "bundle", set |-> {[sid |-> s, age |-> 0]}]
           answer == CASE o \in {"rotate", "replay"} -> grant
                       [] o = "mismatch" -> [kind |-> "mismatch", set |-> {}]
                       [] OTHER -> [kind |-> "unauthorized", set |-> {NoToken}]
           mine == [f EXCEPT !.phase = "answered", !.expected = NoSid, !.answer = answer]
<1>0. TypeOK /\ AdriftLost
  BY DEF ClientInv
<1>1. /\ f.phase = "sent" /\ cookie' = After(o, s, cookie) /\ row' = RowAfter(o, s)
      /\ adrift' = [i \in DOMAIN adrift |-> After(o, s, adrift[i])]
      /\ UNCHANGED <<acts, lock, page, call, entry, out, inbox, faults, lost, overlapped>>
  BY DEF Serve
<1>2. flight' = [q \in Page |->
         IF q = p THEN mine
         ELSE [flight[q] EXCEPT !.token = After(o, s, @),
                                !.answer.set = {After(o, s, x) : x \in @}]]
  BY DEF Serve
<1>3. f \in Flight /\ f.token \in Token /\ cookie \in Token /\ row \in [Sid -> Row]
  BY <1>0, TypeParts DEF Flight
<1>4. /\ o \in {"rotate", "replay"} => s \in Sid /\ f.expected \in {NoSid, s}
      /\ o = "rotate" => s \in Sid
      /\ o = "reuse" => s \in Sid /\ f.token.age = 1
  BY <1>3, Outcome
<1> HIDE DEF o
<1>5. /\ cookie' \in Token /\ cookie'.sid = cookie.sid
      /\ cookie' = cookie \/ (o = "rotate" /\ cookie.sid = s)
  BY <1>1, <1>3, <1>4, AfterTyped
<1>6. /\ answer \in Answer
      /\ o \in {"rotate", "replay"} => answer.kind = "bundle" /\ answer.set = {[sid |-> s, age |-> 0]}
      /\ o \notin {"rotate", "replay"} =>
           \/ answer.kind = "mismatch" /\ answer.set = {}
           \/ answer.kind = "unauthorized" /\ answer.set = {NoToken}
  <2>1. CASE o \in {"rotate", "replay"}
    <3>1. [sid |-> s, age |-> 0] \in Token
      BY <1>4, <2>1 DEF Token
    <3>2. answer = grant
      BY <2>1
    <3>3. grant \in Answer /\ grant.kind = "bundle" /\ grant.set = {[sid |-> s, age |-> 0]}
      BY <3>1 DEF Answer
    <3> HIDE DEF grant, answer
    <3> QED BY <2>1, <3>2, <3>3
  <2>2. CASE o \notin {"rotate", "replay"}
    <3>1. answer \in {[kind |-> "mismatch", set |-> {}], [kind |-> "unauthorized", set |-> {NoToken}]}
      BY <2>2
    <3> HIDE DEF answer
    <3> QED BY <2>2, <3>1, Constants DEF Answer
  <2> QED BY <2>1, <2>2
<1> HIDE DEF answer
<1>7. /\ mine \in Flight /\ mine.phase = "answered" /\ mine.token = f.token
      /\ mine.current = f.current /\ mine.answer = answer
  BY <1>3, <1>6 DEF Flight, AnySid
<1> HIDE DEF mine
<1>8. ASSUME NEW q \in Page \ {p}
      PROVE  flight'[q] \in Flight /\ Older(q, s) /\ AnswerOK(q)'
  <2>1. flight'[q] = [flight[q] EXCEPT !.token = After(o, s, @),
                                       !.answer.set = {After(o, s, x) : x \in @}]
    BY <1>2
  <2>2. AnswerOK(q)
    BY DEF ClientInv
  <2>3. q \in Page /\ (o = "rotate" => s \in Sid)
    BY <1>4
  <2> HIDE DEF s
  <2> QED BY <1>0, <2>1, <2>2, <2>3, OlderFlight
<1>9. flight'[p] = mine /\ flight' \in [Page -> Flight]
  <2>1. flight'[p] = mine /\ DOMAIN flight' = Page /\ flight' = [q \in Page |-> flight'[q]]
    BY <1>2
  <2>2. \A q \in Page : flight'[q] \in Flight
    BY <1>7, <1>8, <2>1
  <2> QED BY <2>1, <2>2
<1>10. /\ row' \in [Sid -> Row]
       /\ \A x \in Sid : row'[x].status = "reused" =>
            row[x].status = "reused" \/ (x = s /\ f.token.age = 1)
  BY <1>1, <1>3, <1>4, RowAfterTyped
<1>11. adrift' \in Seq(Token) /\ AdriftLost'
  BY <1>0, <1>1, <1>4, AdriftAged, LostTokens
<1>12. TypeOK'
  BY <1>0, <1>1, <1>5, <1>9, <1>10, <1>11, TypeParts, TypePartsNext
<1>13. Granted(p)' <=> o \in {"rotate", "replay"}
  BY <1>6, <1>7, <1>9 DEF Granted
<1>14. cookie' = cookie \/ (Granted(p)' /\ cookie.sid = s /\ cookie'.sid = s)
  BY <1>5, <1>13
<1>15. /\ Granted(p)' => /\ s \in Sid /\ f.expected \in {NoSid, s}
                         /\ flight'[p].answer.set = {[sid |-> s, age |-> 0]}
       /\ ~Granted(p)' => \A t \in flight'[p].answer.set : t = NoToken
  BY <1>4, <1>6, <1>7, <1>9, <1>13
<1>16. AnswerOK(p)'
  <2>1. /\ flight'[p].answer = answer /\ flight'[p].token.sid = s
    BY <1>7, <1>9
  <2>2. \/ /\ answer.kind = "bundle" /\ answer.set # {}
           /\ \A t \in answer.set : t.sid \in Sid /\ t.sid = s
        \/ answer.kind = "mismatch" /\ answer.set = {}
        \/ answer.kind = "unauthorized" /\ answer.set = {NoToken}
    <3>1. CASE o \in {"rotate", "replay"}
      <4> DEFINE t == [sid |-> s, age |-> 0]
      <4>1. t.sid = s
        OBVIOUS
      <4> HIDE DEF t, s
      <4>2. s \in Sid /\ answer.kind = "bundle" /\ answer.set = {t}
        BY <1>4, <1>6, <3>1 DEF t
      <4> QED BY <4>1, <4>2
    <3>2. CASE o \notin {"rotate", "replay"}
      BY <1>6, <3>2
    <3> QED BY <3>1, <3>2
  <2> QED BY <2>1, <2>2, <1>7, <1>9 DEF AnswerOK
<1> QED BY <1>1, <1>7, <1>8, <1>9, <1>10, <1>11, <1>12, <1>14, <1>15, <1>16 DEF Served

\* The server answers a request that its page abandoned: what grows older or is
\* revoked is of a lost session.
Drifted ==
  \E s \in lost :
    /\ UNCHANGED <<lock, page, lost, overlapped>>
    /\ \A q \in Page : Older(q, s)
    /\ cookie' = cookie \/ (cookie.sid = s /\ cookie'.sid = s)
    /\ \A x \in Sid : row'[x].status = "reused" => row[x].status = "reused" \/ x = s

LEMMA ServeAdriftStep ==
  ASSUME ClientInv, NEW i \in DOMAIN adrift, ServeAdrift(i)
  PROVE  TypeOK' /\ AdriftLost' /\ Drifted /\ \A q \in Page : AnswerOK(q)'
<1> DEFINE s == adrift[i].sid
           o == RefreshOutcome(adrift[i], NoSid)
           aged == [j \in DOMAIN adrift |-> After(o, s, adrift[j])]
<1>0. TypeOK /\ AdriftLost
  BY DEF ClientInv
<1>1. /\ cookie' = After(o, s, cookie) /\ row' = RowAfter(o, s) /\ adrift' = RemoveAt(aged, i)
      /\ UNCHANGED <<acts, lock, page, call, entry, out, inbox, faults, lost, overlapped>>
  BY DEF ServeAdrift
<1>2. flight' = [q \in Page |-> [flight[q] EXCEPT !.token = After(o, s, @),
                                                !.answer.set = {After(o, s, x) : x \in @}]]
  BY DEF ServeAdrift
<1>3. /\ i \in 1..Len(adrift) /\ adrift[i] \in Token /\ cookie \in Token /\ row \in [Sid -> Row]
      /\ s \in lost /\ s \in Sid /\ adrift \in Seq(Token)
  BY <1>0, TypeParts DEF AdriftLost
<1> HIDE DEF o, s
<1>4. cookie' \in Token /\ (cookie' = cookie \/ (cookie.sid = s /\ cookie'.sid = s))
  BY <1>1, <1>3, AfterTyped
<1>5. /\ row' \in [Sid -> Row]
      /\ \A x \in Sid : row'[x].status = "reused" => row[x].status = "reused" \/ x = s
  BY <1>1, <1>3, RowAfterTyped
<1>6. ASSUME NEW q \in Page
      PROVE  flight'[q] \in Flight /\ Older(q, s) /\ AnswerOK(q)'
  <2>1. flight'[q] = [flight[q] EXCEPT !.token = After(o, s, @),
                                       !.answer.set = {After(o, s, x) : x \in @}]
    BY <1>2
  <2>2. AnswerOK(q)
    BY DEF ClientInv
  <2> QED BY <1>0, <1>3, <2>1, <2>2, OlderFlight
<1>7. flight' \in [Page -> Flight]
  BY <1>2, <1>6
<1>8. adrift' \in Seq(Token) /\ AdriftLost'
  <2>1. aged \in Seq(LostToken)
    BY <1>0, <1>3, AdriftAged
  <2>2. Len(aged) = Len(adrift)
    <3>1. DOMAIN adrift = 1..Len(adrift) /\ Len(adrift) \in Nat
      BY <1>3
    <3> QED BY <2>1, <3>1
  <2> HIDE DEF aged
  <2>3. adrift' \in Seq(LostToken)
    BY <1>1, <1>3, <2>1, <2>2, RemoveTyped
  <2> QED BY <1>1, <2>3, LostTokens
<1>9. TypeOK'
  BY <1>0, <1>1, <1>4, <1>5, <1>7, <1>8, TypeParts, TypePartsNext
<1>10. Drifted
  BY <1>1, <1>3, <1>4, <1>5, <1>6 DEF Drifted
<1> QED BY <1>6, <1>8, <1>9, <1>10

-----------------------------------------------------------------------------
(* Every step                                                              *)

Step == Quiet \/ (\E p \in Page : Send(p)) \/ (\E p \in Page : Served(p)) \/ Drifted

LEMMA NextIsStep ==
  ASSUME ClientInv, Next
  PROVE  ClientInv' /\ Step
<1>0. TypeOK
  BY DEF ClientInv
<1>1. ASSUME TypeOK', Quiet PROVE ClientInv' /\ Step
  <2>0. AdriftLost'
    BY <1>1 DEF ClientInv, Quiet, QuietTokens
  <2>1. \A p \in Page : AnswerOK(p)'
    BY <1>1, QuietAnswers DEF ClientInv, Quiet
  <2>2. ASSUME NEW p \in Page PROVE LockHeld(p)'
    BY <1>1 DEF Quiet, QuietFlights, ClientInv, LockHeld, Pending, Kept
  <2> QED BY <1>1, <2>0, <2>1, <2>2 DEF ClientInv, Step
<1>2. ASSUME TypeOK', NEW p \in Page, Send(p) PROVE ClientInv' /\ Step
  <2>1. ASSUME NEW q \in Page PROVE AnswerOK(q)' /\ LockHeld(q)'
    BY <1>2 DEF Send, ClientInv, AnswerOK, LockHeld, Pending
  <2>2. AdriftLost'
    BY <1>2 DEF Send, ClientInv, AdriftLost
  <2> QED BY <1>2, <2>1, <2>2 DEF ClientInv, Step
<1>3. ASSUME TypeOK', AdriftLost', NEW p \in Page, Served(p), \A q \in Page : AnswerOK(q)'
      PROVE  ClientInv' /\ Step
  <2>1. ASSUME NEW q \in Page PROVE LockHeld(q)'
    BY <1>3 DEF Served, Older, ClientInv, LockHeld, Pending
  <2> QED BY <1>3, <2>1 DEF ClientInv, Step
<1>3a. ASSUME TypeOK', AdriftLost', Drifted, \A q \in Page : AnswerOK(q)'
      PROVE  ClientInv' /\ Step
  <2>1. ASSUME NEW q \in Page PROVE LockHeld(q)'
    BY <1>3a DEF Drifted, Older, ClientInv, LockHeld, Pending
  <2> QED BY <1>3a, <2>1 DEF ClientInv, Step
<1>4. ASSUME NEW d \in Dashboard,
             Bootstrap(d) \/ Unauthorized(d) \/ RateLimited(d) \/ LimitPasses(d) \/ Repeated(d)
             \/ Receive(d) \/ MissEvent(d)
      PROVE  ClientInv' /\ Step
  BY <1>0, <1>1, <1>4, BootstrapStep, UnauthorizedStep, RateLimitedStep, LimitPassesStep,
     RepeatedStep, ReceiveStep, MissEventStep
<1>5. ASSUME NEW p \in Site, ViewerRefresh(p) PROVE ClientInv' /\ Step
  BY <1>0, <1>1, <1>5, ViewerRefreshStep
<1>6. ASSUME NEW p \in Console, SessionQuery(p) PROVE ClientInv' /\ Step
  BY <1>2, <1>6, SessionQueryStep DEF Page
<1>7. ASSUME NEW p \in Page, Network(p) \/ Unavailable(p) \/ UserReload(p) PROVE ClientInv' /\ Step
  <2>1. CASE p \notin Console /\ Acquire(p)
    BY <1>1, <1>2, <2>1, AcquireStep
  <2>2. CASE Serve(p)
    BY <1>3, <2>2, ServeStep
  <2>3. CASE Supersede(p)
    BY <1>1, <2>3, SupersedeStep
  <2>4. CASE AcceptBundle(p)
    BY <1>1, <2>4, AcceptBundleStep
  <2>5. CASE Mismatch(p)
    BY <1>1, <1>2, <2>5, MismatchStep
  <2>6. CASE Anonymous(p)
    BY <1>1, <2>6, AnonymousStep
  <2>7. CASE Unavailable(p)
    BY <1>1, <2>7, UnavailableStep
  <2>8. CASE UserReload(p)
    BY <1>1, <2>8, UserReloadStep
  <2> QED BY <1>7, <2>1, <2>2, <2>3, <2>4, <2>5, <2>6, <2>7, <2>8 DEF Network
<1>8. ASSUME NEW p \in Dashboard \cup Console,
             LogoutRequest(p) \/ LoggedOut(p) \/ LogoutMismatch(p) \/ LogoutLost(p)
             \/ SignedIn(p) \/ SecurityChange(p) \/ Rotated(p) \/ EntryLost(p)
      PROVE  ClientInv' /\ Step
  BY <1>0, <1>1, <1>8, LogoutRequestStep, LoggedOutStep, LogoutMismatchStep, LogoutLostStep,
     SignedInStep, SecurityChangeStep, RotatedStep, EntryLostStep
<1>9. ASSUME NEW p \in Dashboard \cup Console, NEW s \in Sid, Login(p, s) PROVE ClientInv' /\ Step
  BY <1>0, <1>1, <1>9, LoginStep
<1>10. ASSUME NEW s \in Sid, GraceEnds(s) \/ RevokedElsewhere(s) PROVE ClientInv' /\ Step
  BY <1>0, <1>1, <1>10, GraceEndsStep, RevokedElsewhereStep
<1>11. ASSUME NEW i \in DOMAIN adrift, ServeAdrift(i) PROVE ClientInv' /\ Step
  BY <1>3a, <1>11, ServeAdriftStep
<1> QED BY <1>4, <1>5, <1>6, <1>7, <1>8, <1>9, <1>10, <1>11 DEF Next

\* Without a step nothing moves, which is quiet too.
LEMMA StutterIsStep ==
  ASSUME ClientInv, UNCHANGED vars
  PROVE  ClientInv' /\ Step
<1>1. TypeOK' /\ Quiet
  BY ElsewhereStep, TypeParts DEF vars, ClientInv
<1>2. ClientInv'
  BY DEF vars, ClientInv, TypeOK, AdriftLost, AnswerOK, LockHeld, Pending
<1> QED BY <1>1, <1>2 DEF Step

LEMMA ClientInit == Init => SwitchInv /\ RotationInv
<1> SUFFICES ASSUME Init PROVE SwitchInv /\ RotationInv
  OBVIOUS
<1> USE Constants, IdleTyped
<1>1. TypeOK
  <2>1. [status |-> "none", grace |-> FALSE] \in Row
    BY DEF Row
  <2>2. row \in [Sid -> Row] /\ cookie \in Token /\ lock \in Seq(Dashboard \cup Site)
    BY <2>1 DEF Init
  <2>3. page \in [Page -> PageState] /\ flight \in [Page -> Flight]
    BY DEF Init
  <2>4. /\ call \in [Dashboard -> {"none", "waiting"} \cup Sid]
        /\ entry \in [Dashboard \cup Console -> Entry] /\ adrift \in Seq(Token)
        /\ out \in [Dashboard \cup Console -> Logout] /\ inbox \in [Dashboard -> Seq(Event)]
    BY DEF Init
  <2>5. faults \in 0..MaxFaults /\ acts \in 0..MaxActs /\ lost \subseteq Sid /\ overlapped \subseteq Sid
    BY DEF Init
  <2> QED BY <2>2, <2>3, <2>4, <2>5, TypeParts
<1>2. \A p \in Page : flight[p] = Idle /\ ~Pending(p)
  BY DEF Init, Pending
<1>3. ClientInv
  <2>1. AdriftLost
    BY DEF Init, AdriftLost
  <2> QED BY <1>1, <1>2, <2>1 DEF ClientInv, AnswerOK, LockHeld
<1>4. \A d \in Dashboard : AskedFor(d)
  BY <1>2 DEF AskedFor, Page
<1>5. \A s \in Sid : Alone(s) /\ Newest(s)
  BY <1>2 DEF Alone, Newest
<1>6. \A s \in Sid : CookieFollows(s) /\ row[s].status # "reused"
  BY DEF CookieFollows, Init
<1> QED BY <1>3, <1>4, <1>5, <1>6 DEF SwitchInv, RotationInv, NotForcedOut

LEMMA ClientNext == ClientInv /\ [Next]_vars => ClientInv' /\ Step
BY NextIsStep, StutterIsStep

\* The types of the browser's state, and of the server's rows behind it, are
\* kept by every action, whatever the number of pages, sessions and faults.
THEOREM TypeCorrect == Spec => []TypeOK
<1>1. Init => ClientInv
  BY ClientInit DEF SwitchInv
<1>2. ClientInv /\ [Next]_vars => ClientInv'
  BY ClientNext
<1>3. ClientInv => TypeOK
  BY DEF ClientInv
<1> QED BY <1>1, <1>2, <1>3, PTL DEF Spec

-----------------------------------------------------------------------------
(* A dashboard never changes its session but by its own login              *)

Unswitched(d) ==
  page[d].sid # NoSid /\ page'[d].sid \notin {NoSid, page[d].sid} =>
    entry[d] = [kind |-> "login", sid |-> page'[d].sid]

LEMMA SwitchStep ==
  ASSUME SwitchInv, [Next]_vars
  PROVE  /\ SwitchInv'
         /\ \A d \in Dashboard : Unswitched(d)
<1>1. ClientInv' /\ Step
  BY ClientNext DEF SwitchInv
<1> SUFFICES ASSUME NEW d \in Dashboard PROVE AskedFor(d)' /\ Unswitched(d)
  BY <1>1 DEF SwitchInv
<1>2. d \in Page /\ AskedFor(d)
  BY DEF Page, SwitchInv
<1>3. CASE Quiet
  <2>1. PageMoves(d) /\ (Pending(d)' => Kept(d))
    BY <1>2, <1>3 DEF Quiet, QuietFlights
  <2>2. Unswitched(d)
    BY <1>2, <2>1 DEF PageMoves, AskedFor, Granted, Unswitched
  <2>3. AskedFor(d)'
    <3> SUFFICES ASSUME flight'[d].current, Pending(d)' PROVE AskedFor(d)'
      BY DEF AskedFor, Pending
    <3>1. Kept(d) /\ flight[d].current /\ page'[d].sid = page[d].sid
      BY <2>1 DEF Kept, PageMoves
    <3> QED BY <1>2, <3>1 DEF AskedFor, Kept
  <2> QED BY <2>2, <2>3
<1>4. ASSUME NEW p \in Page, Send(p) PROVE AskedFor(d)' /\ Unswitched(d)
  <2>1. page'[d].sid = page[d].sid \/ (d = p /\ page'[d].sid = NoSid)
    BY <1>4 DEF Send
  <2>2. CASE d = p
    <3>1. flight'[d].phase = "sent" /\ flight'[d].expected = page'[d].sid
      BY <1>4, <2>2 DEF Send
    <3> QED BY <2>1, <3>1 DEF AskedFor, Unswitched
  <2>3. CASE d # p
    <3>1. flight'[d] = flight[d]
      BY <1>2, <1>4, <2>3 DEF Send
    <3> QED BY <1>2, <2>1, <2>3, <3>1 DEF AskedFor, Unswitched
  <2> QED BY <2>2, <2>3
<1>5. ASSUME NEW p \in Page, Served(p) PROVE AskedFor(d)' /\ Unswitched(d)
  <2>1. page' = page
    BY <1>5 DEF Served
  <2>2. CASE d = p
    <3>1. /\ flight[d].phase = "sent" /\ flight'[d].phase = "answered"
          /\ flight'[d].current = flight[d].current
          /\ Granted(d)' => /\ flight[d].expected \in {NoSid, flight[d].token.sid}
                            /\ flight'[d].answer.set = {[sid |-> flight[d].token.sid, age |-> 0]}
      BY <1>5, <2>2 DEF Served
    <3>2. ASSUME flight'[d].current, Granted(d)', NEW t \in flight'[d].answer.set
          PROVE  page'[d].sid \in {NoSid, t.sid}
      <4>1. flight[d].expected = page[d].sid
        BY <1>2, <3>1, <3>2 DEF AskedFor
      <4>2. t.sid = flight[d].token.sid
        BY <3>1, <3>2
      <4> QED BY <2>1, <3>1, <3>2, <4>1, <4>2
    <3> QED BY <2>1, <3>1, <3>2 DEF AskedFor, Granted, Unswitched
  <2>3. CASE d # p
    <3>1. /\ flight'[d].phase = flight[d].phase /\ flight'[d].current = flight[d].current
          /\ flight'[d].expected = flight[d].expected
          /\ flight'[d].answer.kind = flight[d].answer.kind
          /\ \A t \in flight'[d].answer.set : \E u \in flight[d].answer.set : t.sid = u.sid
      BY <1>2, <1>5, <2>3 DEF Served, Older
    <3> QED BY <1>2, <2>1, <3>1 DEF AskedFor, Unswitched
  <2> QED BY <2>2, <2>3
<1>6. CASE Drifted
  <2>1. page' = page /\ \E s \in lost : Older(d, s)
    BY <1>2, <1>6 DEF Drifted
  <2>2. /\ flight'[d].phase = flight[d].phase /\ flight'[d].current = flight[d].current
        /\ flight'[d].expected = flight[d].expected
        /\ flight'[d].answer.kind = flight[d].answer.kind
        /\ \A t \in flight'[d].answer.set : \E u \in flight[d].answer.set : t.sid = u.sid
    BY <2>1 DEF Older
  <2> QED BY <1>2, <2>1, <2>2 DEF AskedFor, Unswitched
<1> QED BY <1>1, <1>3, <1>4, <1>5, <1>6 DEF Step

\* Only the answer to a dashboard's own login replaces the session it shows by
\* another one at once.  The answer to a refresh does not, whatever login,
\* sign-out, rotation or reload came between the request and the answer and
\* whatever session the shared cookie is by then; nor does the access token
\* issued for another session.  For any number of pages and sessions.
THEOREM NeverSwitchedHolds == Spec => NeverSwitched
<1>1. Init => SwitchInv
  BY ClientInit
<1>2. SwitchInv /\ [Next]_vars => SwitchInv' /\ [\A d \in Dashboard : Unswitched(d)]_vars
  BY SwitchStep
<1>3. SwitchInv /\ [Next]_vars =>
        /\ SwitchInv'
        /\ [\A d \in Dashboard :
              page[d].sid # NoSid /\ page'[d].sid \notin {NoSid, page[d].sid} =>
                entry[d] = [kind |-> "login", sid |-> page'[d].sid]]_vars
  BY <1>2 DEF Unswitched
<1> QED BY <1>1, <1>3, PTL DEF Spec, NeverSwitched

-----------------------------------------------------------------------------
(* Pages that refresh under the lock do not drive each other out           *)

LEMMA RotationQuiet ==
  ASSUME RotationInv, ClientInv', Quiet
  PROVE  RotationInv'
<1>1. lost \subseteq lost' /\ overlapped \subseteq overlapped'
  BY DEF Quiet, QuietTokens
<1>2. \A q \in Page : Pending(q)' => Kept(q) /\ Pending(q)
  BY DEF Quiet, QuietFlights, Kept, Pending
<1>3. ASSUME NEW s \in Sid \ overlapped' PROVE Alone(s)'
  <2>1. Alone(s)
    BY <1>1 DEF RotationInv
  <2> QED BY <1>2, <2>1 DEF Alone, Kept
<1>4. ASSUME NEW s \in Sid \ (lost' \cup overlapped') PROVE Newest(s)' /\ CookieFollows(s)'
  <2>1. Newest(s) /\ CookieFollows(s)
    BY <1>1 DEF RotationInv
  <2>2. Newest(s)'
    BY <1>2, <2>1 DEF Newest, Kept, Pending
  <2>3. ASSUME cookie'.sid = s, cookie'.age > 0
        PROVE  \E p \in Page : Granted(p)' /\ flight'[p].token.sid = s
    <3>1. ASSUME NEW q \in Page, flight[q].phase = "answered", cookie' \in flight[q].answer.set
          PROVE  FALSE
      <4>1. AnswerOK(q)
        BY DEF RotationInv, ClientInv
      <4>2. cookie' # NoToken
        BY <2>3, Constants
      <4>3. flight[q].token.sid = s
        BY <2>3, <3>1, <4>1, <4>2 DEF AnswerOK
      <4>4. cookie'.age = 0
        BY <2>1, <3>1, <4>3 DEF Newest
      <4> QED BY <2>3, <4>4
    <3>2. cookie' = cookie
      BY <2>3, <3>1 DEF Quiet, QuietTokens
    <3>3. PICK p \in Page : Granted(p) /\ flight[p].token.sid = s
      BY <2>1, <2>3, <3>2 DEF CookieFollows, Granted
    <3>4. Pending(p)'
      BY <3>1, <3>3 DEF Quiet, QuietTokens, Granted
    <3>5. Kept(p)
      BY <1>2, <3>4
    <3> QED BY <3>3, <3>5 DEF Granted, Kept
  <2> QED BY <2>2, <2>3 DEF CookieFollows, Granted
<1>5. NotForcedOut'
  <2> SUFFICES ASSUME NEW s \in Sid, row'[s].status = "reused" PROVE s \in lost' \cup overlapped'
    BY DEF NotForcedOut
  <2>1. row[s].status = "reused"
    BY DEF Quiet, QuietTokens
  <2> QED BY <1>1, <2>1 DEF RotationInv, NotForcedOut
<1> QED BY <1>3, <1>4, <1>5 DEF RotationInv

LEMMA RotationSend ==
  ASSUME RotationInv, ClientInv', NEW p \in Page, Send(p)
  PROVE  RotationInv'
<1>0. TypeOK /\ \A q \in Page : LockHeld(q)
  BY DEF RotationInv, ClientInv
<1>1. /\ lost' = lost /\ cookie' = cookie /\ row' = row /\ ~Granted(p)
      /\ flight'[p].phase = "sent" /\ flight'[p].token = cookie
      /\ \A q \in Page \ {p} : flight'[q] = flight[q]
      /\ p \notin Console => lock # <<>> /\ Head(lock) = p
  BY DEF Send
<1>2. overlapped \subseteq overlapped'
  BY <1>0, OverlapTyped DEF Send
\* A session with another refresh under way is now overlapped.
<1>3. ASSUME NEW s \in Sid \ overlapped', NEW q \in Page \ {p}, Pending(q),
             flight[q].token.sid = s, cookie.sid = s
      PROVE  FALSE
  <2>1. /\ flight'[p].phase \in {"sent", "answered"} /\ flight'[p].token.sid = s
        /\ flight'[q].phase \in {"sent", "answered"} /\ flight'[q].token.sid = s
    BY <1>1, <1>3 DEF Pending
  <2>2. CASE p \in Console
    <3>1. \E x \in Console : \E y \in Page \ {x} :
            \A z \in {x, y} : flight'[z].phase \in {"sent", "answered"} /\ flight'[z].token.sid = s
      BY <2>1, <2>2
    <3> QED BY <3>1 DEF Send, NoteOverlap
  <2>3. CASE q \in Console
    <3>1. \E x \in Console : \E y \in Page \ {x} :
            \A z \in {x, y} : flight'[z].phase \in {"sent", "answered"} /\ flight'[z].token.sid = s
      BY <2>1, <2>3
    <3> QED BY <3>1 DEF Send, NoteOverlap
  <2>4. CASE p \notin Console /\ q \notin Console
    BY <1>0, <1>1, <1>3, <2>4 DEF LockHeld
  <2> QED BY <2>2, <2>3, <2>4
<1>4. ASSUME NEW s \in Sid \ overlapped' PROVE Alone(s)'
  <2>1. Alone(s)
    BY <1>2 DEF RotationInv
  <2> SUFFICES ASSUME NEW x \in Page, NEW y \in Page, Pending(x)', Pending(y)',
                      flight'[x].token.sid = s, flight'[y].token.sid = s, x # y
               PROVE  FALSE
    BY DEF Alone
  <2>2. CASE x # p /\ y # p
    BY <1>1, <2>1, <2>2 DEF Alone, Pending
  <2>3. CASE x = p
    BY <1>1, <1>3, <2>3 DEF Pending
  <2>4. CASE y = p
    BY <1>1, <1>3, <2>4 DEF Pending
  <2> QED BY <2>2, <2>3, <2>4
<1>5. ASSUME NEW s \in Sid \ (lost' \cup overlapped') PROVE Newest(s)' /\ CookieFollows(s)'
  <2>1. Newest(s) /\ CookieFollows(s)
    BY <1>1, <1>2 DEF RotationInv
  <2>2. cookie.sid = s => cookie.age = 0
    <3> SUFFICES ASSUME cookie.sid = s, cookie.age > 0 PROVE FALSE
      <4>1. cookie \in Token
        BY <1>0, TypeParts
      <4>2. cookie.age \in Nat
        BY <4>1 DEF Token, NoToken
      <4> QED BY <4>2
    <3>1. PICK q \in Page : Granted(q) /\ flight[q].token.sid = s
      BY <2>1 DEF CookieFollows, Granted
    <3>2. q # p /\ Pending(q)
      BY <1>1, <3>1 DEF Granted, Pending
    <3> QED BY <1>3, <3>1, <3>2
  <2>3. Newest(s)'
    BY <1>1, <2>1, <2>2 DEF Newest
  <2>4. CookieFollows(s)'
    BY <1>1, <2>2 DEF CookieFollows
  <2> QED BY <2>3, <2>4
<1>6. NotForcedOut'
  BY <1>1, <1>2 DEF RotationInv, NotForcedOut
<1> QED BY <1>4, <1>5, <1>6 DEF RotationInv

LEMMA RotationServed ==
  ASSUME RotationInv, ClientInv', NEW p \in Page, Served(p)
  PROVE  RotationInv'
<1>1. /\ lost' = lost /\ overlapped' = overlapped
      /\ flight[p].phase = "sent" /\ flight'[p].phase = "answered"
      /\ flight'[p].token = flight[p].token
  BY DEF Served
<1>2. ASSUME NEW q \in Page \ {p}
      PROVE  /\ flight'[q].phase = flight[q].phase /\ flight'[q].token.sid = flight[q].token.sid
             /\ flight'[q].answer.kind = flight[q].answer.kind
             /\ flight[q].token.sid # flight[p].token.sid => flight'[q].token = flight[q].token
             /\ \A t \in flight'[q].answer.set : \E u \in flight[q].answer.set :
                  t.sid = u.sid /\ (u.sid # flight[p].token.sid => t = u)
  BY <1>2 DEF Served, Older
<1>3. \A q \in Page : (Pending(q)' <=> Pending(q)) /\ flight'[q].token.sid = flight[q].token.sid
  BY <1>1, <1>2 DEF Pending
<1>4. ASSUME NEW s \in Sid \ overlapped' PROVE Alone(s)'
  BY <1>1, <1>3 DEF RotationInv, Alone
<1>5. ASSUME NEW s \in Sid \ (lost' \cup overlapped') PROVE Newest(s)'
  <2>1. Newest(s) /\ Alone(s)
    BY <1>1 DEF RotationInv
  <2> SUFFICES ASSUME NEW q \in Page, flight'[q].token.sid = s
               PROVE  /\ flight'[q].phase = "sent" => flight'[q].token.age = 0
                      /\ flight'[q].phase = "answered" => \A t \in flight'[q].answer.set : t.age = 0
    BY DEF Newest
  <2>2. CASE q = p
    <3>1. ASSUME NEW t \in flight'[p].answer.set PROVE t.age = 0
      <4>1. CASE Granted(p)'
        BY <3>1, <4>1 DEF Served
      <4>2. CASE ~Granted(p)'
        BY <3>1, <4>2, Constants DEF Served
      <4> QED BY <4>1, <4>2
    <3> QED BY <1>1, <2>2, <3>1
  <2>3. CASE q # p /\ Pending(q)
    <3>1. flight[q].token.sid = s /\ s # flight[p].token.sid
      BY <1>1, <1>3, <2>1, <2>3 DEF Alone, Pending
    <3>2. flight'[q].phase = "sent" => flight'[q].token.age = 0
      BY <1>2, <2>1, <2>3, <3>1 DEF Newest
    <3>3. ASSUME flight'[q].phase = "answered", NEW t \in flight'[q].answer.set PROVE t.age = 0
      <4>1. AnswerOK(q)'
        BY DEF ClientInv
      <4>2. t = NoToken \/ t.sid = s
        BY <3>3, <4>1 DEF AnswerOK
      <4>3. CASE t.sid = s
        <5>1. t \in flight[q].answer.set
          BY <1>2, <2>3, <3>1, <3>3, <4>3
        <5> QED BY <1>2, <2>1, <2>3, <3>1, <3>3, <5>1 DEF Newest
      <4> QED BY <4>2, <4>3, Constants
    <3> QED BY <3>2, <3>3
  <2>4. CASE ~Pending(q) /\ q # p
    BY <1>2, <2>4 DEF Pending
  <2> QED BY <2>2, <2>3, <2>4
<1>6. ASSUME NEW s \in Sid \ (lost' \cup overlapped') PROVE CookieFollows(s)'
  <2> SUFFICES ASSUME cookie'.sid = s, cookie'.age > 0
               PROVE  \E q \in Page : Granted(q)' /\ flight'[q].token.sid = s
    BY DEF CookieFollows, Granted
  <2>1. CASE cookie' = cookie
    <3>1. PICK q \in Page : Granted(q) /\ flight[q].token.sid = s
      BY <1>1, <2>1 DEF RotationInv, CookieFollows, Granted
    <3>2. q # p
      BY <1>1, <3>1 DEF Granted
    <3> QED BY <1>2, <3>1, <3>2 DEF Granted
  <2>2. CASE Granted(p)' /\ cookie'.sid = flight[p].token.sid
    BY <1>1, <2>2
  <2> QED BY <2>1, <2>2 DEF Served
<1>7. NotForcedOut'
  <2> SUFFICES ASSUME NEW s \in Sid, row'[s].status = "reused" PROVE s \in lost' \cup overlapped'
    BY DEF NotForcedOut
  <2>1. CASE row[s].status = "reused"
    BY <1>1, <2>1 DEF RotationInv, NotForcedOut
  <2>2. CASE s = flight[p].token.sid /\ flight[p].token.age = 1
    BY <1>1, <2>2 DEF RotationInv, Newest
  <2> QED BY <2>1, <2>2 DEF Served
<1> QED BY <1>4, <1>5, <1>6, <1>7 DEF RotationInv

\* A request adrift touches the tokens of a lost session only.
LEMMA RotationDrifted ==
  ASSUME RotationInv, ClientInv', Drifted
  PROVE  RotationInv'
<1>1. PICK l \in lost :
        /\ UNCHANGED <<lock, page, lost, overlapped>>
        /\ \A q \in Page : Older(q, l)
        /\ cookie' = cookie \/ (cookie.sid = l /\ cookie'.sid = l)
        /\ \A x \in Sid : row'[x].status = "reused" => row[x].status = "reused" \/ x = l
  BY DEF Drifted
<1>2. \A q \in Page : /\ flight'[q].phase = flight[q].phase
                      /\ flight'[q].token.sid = flight[q].token.sid
                      /\ flight'[q].answer.kind = flight[q].answer.kind
  BY <1>1 DEF Older
<1>3. ASSUME NEW s \in Sid \ overlapped' PROVE Alone(s)'
  BY <1>1, <1>2 DEF RotationInv, Alone, Pending
<1>4. ASSUME NEW s \in Sid \ (lost' \cup overlapped') PROVE Newest(s)'
  <2>1. Newest(s) /\ s # l
    BY <1>1 DEF RotationInv
  <2> SUFFICES ASSUME NEW q \in Page, flight'[q].token.sid = s
               PROVE  /\ flight'[q].phase = "sent" => flight'[q].token.age = 0
                      /\ flight'[q].phase = "answered" => \A t \in flight'[q].answer.set : t.age = 0
    BY DEF Newest
  <2>2. flight[q].token.sid = s /\ flight'[q].token = flight[q].token
    BY <1>1, <1>2, <2>1 DEF Older
  <2>3. ASSUME flight'[q].phase = "answered", NEW t \in flight'[q].answer.set PROVE t.age = 0
    <3>1. t = NoToken \/ t.sid = s
      BY <2>3 DEF ClientInv, AnswerOK
    <3>2. CASE t.sid = s
      <4>1. t \in flight[q].answer.set
        BY <1>1, <2>1, <2>3, <3>2 DEF Older
      <4> QED BY <1>2, <2>1, <2>2, <2>3, <4>1 DEF Newest
    <3> QED BY <3>1, <3>2, Constants
  <2> QED BY <1>2, <2>1, <2>2, <2>3 DEF Newest
<1>5. ASSUME NEW s \in Sid \ (lost' \cup overlapped') PROVE CookieFollows(s)'
  <2>1. CookieFollows(s) /\ s # l
    BY <1>1 DEF RotationInv
  <2> QED BY <1>1, <1>2, <2>1 DEF CookieFollows
<1>6. NotForcedOut'
  BY <1>1 DEF RotationInv, NotForcedOut
<1> QED BY <1>3, <1>4, <1>5, <1>6 DEF RotationInv

LEMMA RotationStep == RotationInv /\ [Next]_vars => RotationInv'
<1> SUFFICES ASSUME RotationInv, [Next]_vars PROVE RotationInv'
  OBVIOUS
<1>1. ClientInv' /\ Step
  BY ClientNext DEF RotationInv
<1> QED BY <1>1, RotationQuiet, RotationSend, RotationServed, RotationDrifted DEF Step

\* A session is revoked for token reuse only if a page abandoned a refresh of it
\* (by a reload, a sign-out or a failure) or a console refreshed it beside
\* another page.  For any number of pages, sessions, slow answers and logins,
\* the browser lock alone keeps every presented token the newest one.
THEOREM NotForcedOutHolds == Spec => []NotForcedOut
<1>1. Init => RotationInv
  BY ClientInit
<1>2. RotationInv => NotForcedOut
  BY DEF RotationInv
<1> QED BY <1>1, <1>2, RotationStep, PTL DEF Spec
=============================================================================
