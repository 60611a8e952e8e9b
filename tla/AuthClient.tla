----------------------------- MODULE AuthClient -----------------------------
(***************************************************************************)
(* The pages of one browser and the login sessions they share.             *)
(*                                                                         *)
(* Three applications are served from one origin and share one refresh     *)
(* cookie: the dashboard (web/), the public site (frontend/apps/site) and  *)
(* the user console (frontend/apps/console).  Each keeps its login session *)
(* in memory and renews it at /api/user/auth/refresh, which rotates the    *)
(* cookie.  The dashboard and the site refresh under a browser lock, the   *)
(* console does not.  Dashboards tell each other of logins and sign-outs.  *)
(*                                                                         *)
(* A request is sent with the cookie of that moment, is answered by the    *)
(* server later, and its answer (with the cookie it sets) arrives later    *)
(* still.  Requests and answers may be lost, and a page that is loaded     *)
(* anew leaves behind requests the server may still answer.                *)
(* A refresh token is known by                                             *)
(* its age: 0 is the token whose digest is refresh_hash, 1 the one before  *)
(* it (previous_refresh_hash), 2 any older one.  The answer 409            *)
(* AUTH_REFRESH_RACE is absent: the successor of a token is derived from   *)
(* it, so a replayed previous token always yields the current one and the  *)
(* clients' wait-and-retry loops are never entered.                        *)
(***************************************************************************)
EXTENDS Naturals, Sequences, FiniteSets, SequencesExt

CONSTANTS
  Dashboard, Site, Console,  \* the open pages of each application
  Sid, NoSid,                \* login sessions, each created by one login
  MaxFaults,                 \* bound: lost requests, answers and messages
  MaxActs                    \* bound: what users, routes and administrators start

Page == Dashboard \cup Site \cup Console

ASSUME PagesAssumption ==
  /\ Dashboard \cap Site = {} /\ Dashboard \cap Console = {} /\ Site \cap Console = {}
  /\ NoSid \notin Sid /\ MaxFaults \in Nat /\ MaxActs \in Nat

VARIABLES
  row,         \* user_sessions: status, and whether previous_valid_until is ahead
  cookie,      \* the browser's refresh cookie
  lock,        \* queue of the lock "new-api:auth-refresh"; its head holds it
  page,        \* in-memory session, bootstrapState, refreshRateLimitedUntil > now
  flight,      \* refreshPromise: the refresh each page has under way
  call,        \* an API call of a dashboard that met a 401
  entry,       \* the answer to a login or a security change, on its way
  out,         \* a sign-out under way
  inbox,       \* authentication events not yet delivered
  adrift,      \* tokens of refreshes that their pages abandoned unserved
  faults, acts,
  lost,        \* sessions of which a refresh was abandoned
  overlapped   \* sessions refreshed by two pages at once

vars == <<row, cookie, lock, page, flight, call, entry, out, inbox, adrift, faults, acts,
          lost, overlapped>>
server == <<row, adrift, lost>>

AnySid == Sid \cup {NoSid}
NoToken == [sid |-> NoSid, age |-> 0]
Token == [sid : Sid, age : 0..2] \cup {NoToken}
NoAnswer == [kind |-> "none", set |-> {}]
Answer == [kind : {"none", "bundle", "mismatch", "unauthorized"}, set : SUBSET Token]
Idle == [phase |-> "idle", current |-> TRUE, expected |-> NoSid, token |-> NoToken,
         retry |-> TRUE, answer |-> NoAnswer]
NoEntry == [kind |-> "none", sid |-> NoSid]
Fresh == [sid |-> NoSid, boot |-> "idle", limited |-> FALSE]
NoLogout == [phase |-> "none", retry |-> TRUE, mismatch |-> FALSE, clears |-> FALSE]

TypeOK ==
  /\ row \in [Sid -> [status : {"none", "active", "revoked", "reused"}, grace : BOOLEAN]]
  /\ cookie \in Token
  /\ lock \in Seq(Dashboard \cup Site)
  /\ page \in [Page -> [sid : AnySid, boot : {"idle", "checking", "complete"}, limited : BOOLEAN]]
  /\ flight \in [Page -> [phase : {"idle", "queued", "sent", "answered"}, current : BOOLEAN,
                          expected : AnySid, token : Token, retry : BOOLEAN, answer : Answer]]
  /\ call \in [Dashboard -> {"none", "waiting"} \cup Sid]
  /\ entry \in [Dashboard \cup Console -> [kind : {"login", "rotation"}, sid : Sid] \cup {NoEntry}]
  /\ out \in [Dashboard \cup Console ->
                [phase : {"none", "answered", "refreshing", "again"},
                 retry : BOOLEAN, mismatch : BOOLEAN, clears : BOOLEAN]]
  /\ inbox \in [Dashboard -> Seq([kind : {"authenticated", "signed_out"}, sid : Sid])]
  /\ adrift \in Seq(Token)
  /\ faults \in 0..MaxFaults /\ acts \in 0..MaxActs
  /\ lost \subseteq Sid /\ overlapped \subseteq Sid

Init ==
  /\ row = [s \in Sid |-> [status |-> "none", grace |-> FALSE]]
  /\ cookie = NoToken
  /\ lock = <<>>
  /\ page = [p \in Page |-> Fresh]
  /\ flight = [p \in Page |-> Idle]
  /\ call = [d \in Dashboard |-> "none"]
  /\ entry = [p \in Dashboard \cup Console |-> NoEntry]
  /\ out = [p \in Dashboard \cup Console |-> NoLogout]
  /\ inbox = [d \in Dashboard |-> <<>>]
  /\ adrift = <<>>
  /\ faults = 0 /\ acts = 0
  /\ lost = {} /\ overlapped = {}

-----------------------------------------------------------------------------
(* Client state                                                            *)

Act == acts < MaxActs /\ acts' = acts + 1

Store(cookies) == cookie' = IF cookies = {} THEN cookie ELSE CHOOSE t \in cookies : TRUE

\* Mutant: the event names the session of the cookie, not the page's.
publishCookie(p, kind, s) ==
  [d \in Dashboard |->
     IF d = p THEN inbox[d] ELSE Append(inbox[d], [kind |-> kind, sid |-> cookie'.sid])]

\* publishAuthSessionEvent: every other dashboard gets the event.
publish(p, kind, s) ==
  [d \in Dashboard |->
     IF d = p THEN inbox[d] ELSE Append(inbox[d], [kind |-> kind, sid |-> s])]

\* applyAuthBundle on the store of page p; the callers publish.
SetBundle(p, s) == page' = [page EXCEPT ![p] = [sid |-> s, boot |-> "complete", limited |-> FALSE]]

\* clearAuthentication on the store of page p.
Cleared == [sid |-> NoSid, boot |-> "complete", limited |-> FALSE]

\* authEpoch += 1: a refresh under way is no longer current.
Superseded(f) == IF f.phase = "idle" THEN f ELSE [f EXCEPT !.current = FALSE]

\* authClient.post, fetch: the cookie is read when the request is sent.
Request(expected, retry, current) ==
  [Idle EXCEPT !.phase = "sent", !.current = current, !.expected = expected,
               !.token = cookie, !.retry = retry]

\* History: two refreshes of one session are under way, one of them a console's.
NoteOverlap ==
  overlapped' = overlapped \cup
    {s \in Sid : \E p \in Console : \E q \in Page \ {p} :
       \A x \in {p, q} : flight'[x].phase \in {"sent", "answered"} /\ flight'[x].token.sid = s}

\* refreshAuthentication, getViewerSession, the session query: one refresh per
\* page, behind the browser lock unless the page is a console.
Refresh(p) ==
  /\ flight' = [flight EXCEPT ![p] =
       IF @.phase # "idle" THEN @
       ELSE IF p \in Console THEN Request(page[p].sid, TRUE, TRUE)
       ELSE [Idle EXCEPT !.phase = "queued"]]
  /\ lock' = IF flight[p].phase = "idle" /\ p \notin Console THEN Append(lock, p) ELSE lock

Leave(p) == RemoveFirst(lock, p)

\* Page p gives up its refresh f.  A request that is on its way reaches the
\* server all the same; an answer that is on its way is lost.
Reaches(f) ==
  f.phase = "sent" /\ f.token # NoToken /\ f.expected \in {NoSid, f.token.sid}

Abandon(f) ==
  /\ adrift' = IF Reaches(f) THEN Append(adrift, f.token) ELSE adrift
  /\ lost' = lost \cup
       {t.sid : t \in (IF Reaches(f) THEN {f.token} ELSE f.answer.set) \ {NoToken}}

\* Mutant: a refresh that ends keeps the lock.
FinishLocked(p, outcome, to, box) ==
  /\ flight' = [flight EXCEPT ![p] = Idle]
  /\ lock' = IF outcome = "superseded" THEN lock ELSE Leave(p)
  /\ call' = [d \in Dashboard |->
       IF d # p \/ call[d] # "waiting" THEN call[d]
       ELSE IF outcome = "authenticated" THEN to.sid ELSE "none"]
  /\ LET goes == [q \in DOMAIN out |->
           IF q # p \/ out[q].phase # "refreshing" THEN out[q]
           ELSE IF outcome = "authenticated" THEN [out[q] EXCEPT !.phase = "again"] ELSE NoLogout]
     IN  \/ /\ page' = [page EXCEPT ![p] = to]
            /\ out' = goes /\ inbox' = box /\ UNCHANGED entry
         \/ /\ p \in Dashboard /\ outcome \in {"anonymous", "out_of_sync"} /\ call[p] = "waiting"
            /\ page' = [page EXCEPT ![p] = Fresh]
            /\ out' = [out EXCEPT ![p] = NoLogout]
            /\ inbox' = [box EXCEPT ![p] = <<>>]
            /\ entry' = [entry EXCEPT ![p] = NoEntry]

\* The refresh of page p settles and leaves the page in state "to" and the
\* events as in "box": the lock is released, an API call that waited for it is
\* repeated with the new access token or fails, and a sign-out that waited for
\* it goes on.  When the session is given up, a call that fails loads the
\* sign-in page anew, unless it is the page already shown (redirectToSignIn).
Finish(p, outcome, to, box) ==
  /\ flight' = [flight EXCEPT ![p] = Idle]
  /\ lock' = Leave(p)
  /\ call' = [d \in Dashboard |->
       IF d # p \/ call[d] # "waiting" THEN call[d]
       ELSE IF outcome = "authenticated" THEN to.sid ELSE "none"]
  /\ LET goes == [q \in DOMAIN out |->
           IF q # p \/ out[q].phase # "refreshing" THEN out[q]
           ELSE IF outcome = "authenticated" THEN [out[q] EXCEPT !.phase = "again"] ELSE NoLogout]
     IN  \/ /\ page' = [page EXCEPT ![p] = to]
            /\ out' = goes /\ inbox' = box /\ UNCHANGED entry
         \/ /\ p \in Dashboard /\ outcome \in {"anonymous", "out_of_sync"} /\ call[p] = "waiting"
            /\ page' = [page EXCEPT ![p] = Fresh]
            /\ out' = [out EXCEPT ![p] = NoLogout]
            /\ inbox' = [box EXCEPT ![p] = <<>>]
            /\ entry' = [entry EXCEPT ![p] = NoEntry]

-----------------------------------------------------------------------------
(* Refreshing                                                              *)

\* bootstrapAuthentication before a route is loaded; while refreshes are rate
\* limited it only marks the state.
Bootstrap(d) ==
  /\ Act
  /\ page[d].boot # "complete" \/ page[d].sid # NoSid
  /\ flight[d].phase = "idle"
  /\ page' = [page EXCEPT ![d].boot = "checking"]
  /\ IF page[d].limited THEN UNCHANGED <<flight, lock>> ELSE Refresh(d)
  /\ UNCHANGED <<server, overlapped, cookie, call, entry, out, inbox, faults>>

\* An API call is answered 401: its access token has expired, its session is
\* gone, or the page has none (the response interceptor of http-client.ts).
Unauthorized(d) ==
  /\ Act
  /\ call[d] = "none" /\ ~page[d].limited
  /\ call' = [call EXCEPT ![d] = "waiting"]
  /\ Refresh(d)
  /\ UNCHANGED <<server, overlapped, cookie, page, entry, out, inbox, faults>>

\* The site asks for its viewer session.
ViewerRefresh(p) ==
  /\ Act
  /\ flight[p].phase = "idle"
  /\ Refresh(p)
  /\ UNCHANGED <<server, overlapped, cookie, page, call, entry, out, inbox, faults>>

\* The session query of the console: on load, by its timer, or retried.
SessionQuery(p) ==
  /\ IF page[p].sid = NoSid THEN Act ELSE UNCHANGED acts
  /\ flight[p].phase = "idle"
  /\ Refresh(p)
  /\ NoteOverlap
  /\ UNCHANGED <<server, cookie, page, call, entry, out, inbox, faults>>

\* Mutant: the refresh does not wait for the lock.
AcquireAnyhow(p) ==
  /\ p \in {lock[i] : i \in DOMAIN lock} /\ flight[p].phase = "queued"
  /\ IF p \in Dashboard /\ ~flight[p].current
       THEN Finish(p, "superseded", page[p], inbox)
       ELSE /\ flight' = [flight EXCEPT ![p] = Request(page[p].sid, TRUE, flight[p].current)]
            /\ UNCHANGED <<lock, page, call, entry, out, inbox>>
  /\ NoteOverlap
  /\ UNCHANGED <<acts, server, cookie, faults>>

\* navigator.locks grants the lock; a dashboard that has meanwhile signed in or
\* out drops the refresh, otherwise the request goes out.
Acquire(p) ==
  /\ lock # <<>> /\ Head(lock) = p /\ flight[p].phase = "queued"
  /\ IF p \in Dashboard /\ ~flight[p].current
       THEN Finish(p, "superseded", page[p], inbox)
       ELSE /\ flight' = [flight EXCEPT ![p] = Request(page[p].sid, TRUE, flight[p].current)]
            /\ UNCHANGED <<lock, page, call, entry, out, inbox>>
  /\ NoteOverlap
  /\ UNCHANGED <<acts, server, cookie, faults>>

\* RefreshLoginSession and RotateUserSessionRefresh on the presented token.
RefreshOutcome(tok, expected) ==
  CASE tok = NoToken -> "invalid"
    [] tok # NoToken /\ expected \notin {NoSid, tok.sid} -> "mismatch"
    [] OTHER ->
         CASE row[tok.sid].status # "active" -> "revoked"
           [] row[tok.sid].status = "active" /\ tok.age = 0 -> "rotate"
           [] row[tok.sid].status = "active" /\ tok.age = 1 ->
                IF row[tok.sid].grace THEN "replay" ELSE "reuse"
           [] OTHER -> "invalid"

\* The tokens of session s grow older by one rotation.
Aged(tok, s) == IF tok.sid = s /\ tok.age < 2 THEN [tok EXCEPT !.age = @ + 1] ELSE tok

\* What the outcome o of a refresh of session s does to any token, and to the
\* row.  A rotation makes the presented token the previous one and starts its
\* grace period; a replay inside it gives the same successor; a previous token
\* after it revokes the session.
After(o, s, tok) == IF o = "rotate" THEN Aged(tok, s) ELSE tok

RowAfter(o, s) == CASE o = "rotate" -> [row EXCEPT ![s].grace = TRUE]
                    [] o = "reuse" -> [row EXCEPT ![s].status = "reused"]
                    [] OTHER -> row

\* RefreshAuth answers.
Serve(p) ==
  LET f == flight[p]
      s == f.token.sid
      o == RefreshOutcome(f.token, f.expected)
      answer == CASE o \in {"rotate", "replay"} ->
                       [kind |-> "bundle", set |-> {[sid |-> s, age |-> 0]}]
                  [] o = "mismatch" -> [kind |-> "mismatch", set |-> {}]
                  [] OTHER -> [kind |-> "unauthorized", set |-> {NoToken}]
  IN  /\ f.phase = "sent"
      /\ row' = RowAfter(o, s)
      /\ cookie' = After(o, s, cookie)
      /\ flight' = [q \in Page |->
           IF q = p THEN [f EXCEPT !.phase = "answered", !.expected = NoSid, !.answer = answer]
           ELSE [flight[q] EXCEPT !.token = After(o, s, @),
                                  !.answer.set = {After(o, s, x) : x \in @}]]
      /\ adrift' = [i \in DOMAIN adrift |-> After(o, s, adrift[i])]
      /\ UNCHANGED <<acts, lock, page, call, entry, out, inbox, faults, lost, overlapped>>

\* RefreshAuth serves a request whose page is gone; nobody hears the answer.
ServeAdrift(i) ==
  LET s == adrift[i].sid
      o == RefreshOutcome(adrift[i], NoSid)
  IN  /\ row' = RowAfter(o, s)
      /\ cookie' = After(o, s, cookie)
      /\ flight' = [q \in Page |-> [flight[q] EXCEPT !.token = After(o, s, @),
                                         !.answer.set = {After(o, s, x) : x \in @}]]
      /\ adrift' = RemoveAt([j \in DOMAIN adrift |-> After(o, s, adrift[j])], i)
      /\ UNCHANGED <<acts, lock, page, call, entry, out, inbox, faults, lost, overlapped>>

\* Mutant: the response is not checked against the epoch.
SupersedesNever(p) == FALSE

\* isCurrent after the request: only dashboards count epochs.
Supersedes(p) == p \in Dashboard /\ ~flight[p].current

Arrived(p, kind) ==
  /\ flight[p].phase = "answered" /\ flight[p].answer.kind = kind
  /\ Store(flight[p].answer.set)

\* The answer to a refresh that the page has left behind: only its cookie counts.
Supersede(p) ==
  /\ Supersedes(p) /\ flight[p].phase = "answered"
  /\ Store(flight[p].answer.set)
  /\ Finish(p, "superseded", page[p], inbox)
  /\ UNCHANGED <<acts, server, overlapped, faults>>

\* acceptBundle, the cached viewer session, mapLiveSessionBundle.
AcceptBundle(p) ==
  /\ ~Supersedes(p) /\ Arrived(p, "bundle")
  /\ LET s == cookie'.sid
     IN  Finish(p, "authenticated", [sid |-> s, boot |-> "complete", limited |-> FALSE], inbox)
  /\ UNCHANGED <<acts, server, overlapped, faults>>

\* 409 AUTH_SESSION_MISMATCH: the dashboard and the site forget their session
\* and ask once more without it, the console reports an error.
Mismatch(p) ==
  /\ ~Supersedes(p) /\ Arrived(p, "mismatch")
  /\ IF p \in Console
       THEN Finish(p, "transient_error", page[p], inbox)
       ELSE IF flight[p].retry
       THEN /\ page' = [page EXCEPT ![p].sid = NoSid, ![p].boot = "idle"]
            /\ flight' = [flight EXCEPT ![p] = Request(NoSid, FALSE, flight[p].current)]
            /\ UNCHANGED <<lock, call, entry, out, inbox>>
       ELSE Finish(p, "out_of_sync", Cleared, inbox)
  /\ NoteOverlap
  /\ UNCHANGED <<acts, server, faults>>

SignedOutBox(p) ==
  IF p \in Dashboard /\ page[p].sid # NoSid
    THEN publish(p, "signed_out", page[p].sid) ELSE inbox

\* Mutant: the console keeps its session on a 401.
AnonymousKeeps(p) ==
  /\ ~Supersedes(p) /\ Arrived(p, "unauthorized")
  /\ Finish(p, "anonymous", IF p \in Console THEN page[p] ELSE Cleared, SignedOutBox(p))
  /\ UNCHANGED <<acts, server, overlapped, faults>>

\* 401: the session is given up; a dashboard tells the others.
Anonymous(p) ==
  /\ ~Supersedes(p) /\ Arrived(p, "unauthorized")
  /\ Finish(p, "anonymous", Cleared, SignedOutBox(p))
  /\ UNCHANGED <<acts, server, overlapped, faults>>

\* The request, the answer or the server fails (status 0 or 5xx).
Unavailable(p) ==
  /\ faults < MaxFaults /\ faults' = faults + 1
  /\ flight[p].phase \in {"sent", "answered"}
  /\ Abandon(flight[p])
  /\ Finish(p, "transient_error",
            IF p \in Dashboard /\ flight[p].current THEN [page[p] EXCEPT !.boot = "idle"] ELSE page[p],
            inbox)
  /\ UNCHANGED <<acts, row, overlapped, cookie>>

\* 429: markRateLimited and markTransient.
RateLimited(d) ==
  /\ faults < MaxFaults /\ faults' = faults + 1
  /\ flight[d].phase = "sent"
  /\ Finish(d, "transient_error",
            IF flight[d].current THEN [page[d] EXCEPT !.boot = "idle", !.limited = TRUE] ELSE page[d],
            inbox)
  /\ UNCHANGED <<acts, server, overlapped, cookie>>

LimitPasses(d) ==
  /\ page[d].limited
  /\ page' = [page EXCEPT ![d].limited = FALSE]
  /\ UNCHANGED <<acts, server, overlapped, cookie, lock, flight, call, entry, out, inbox, faults>>

\* The page is loaded anew: its requests are abandoned and its lock freed.
Reload(p) ==
  /\ page' = [page EXCEPT ![p] = Fresh]
  /\ flight' = [flight EXCEPT ![p] = Idle]
  /\ lock' = Leave(p)
  /\ call' = [d \in Dashboard |-> IF d = p THEN "none" ELSE call[d]]
  /\ entry' = [q \in DOMAIN entry |-> IF q = p THEN NoEntry ELSE entry[q]]
  /\ out' = [q \in DOMAIN out |-> IF q = p THEN NoLogout ELSE out[q]]
  /\ inbox' = [d \in Dashboard |-> IF d = p THEN <<>> ELSE inbox[d]]
  /\ Abandon(flight[p])

\* The user reloads the page, or closes it and opens it again.
UserReload(p) ==
  /\ Act
  /\ Reload(p)
  /\ UNCHANGED <<row, overlapped, cookie, faults>>

\* The page forgets its session and leaves a refresh under way behind.
Forget(d) ==
  /\ page' = [page EXCEPT ![d] = Cleared]
  /\ flight' = [flight EXCEPT ![d] = Superseded(@)]

\* Mutant: a second 401 leaves the session in place.
RepeatedForgiving(d) ==
  /\ call[d] \in Sid
  /\ call' = [call EXCEPT ![d] = "none"]
  /\ UNCHANGED <<acts, server, overlapped, page, flight, lock, entry, out, inbox, cookie, faults>>

\* The repeated API call: it succeeds, or the second 401 clears the page and
\* loads the sign-in page unless it is shown already.
Repeated(d) ==
  /\ call[d] \in Sid
  /\ IF row[call[d]].status = "active"
       THEN /\ call' = [call EXCEPT ![d] = "none"]
            /\ UNCHANGED <<page, flight, lock, entry, out, inbox, adrift, lost>>
       ELSE \/ Reload(d)
            \/ /\ Forget(d)
               /\ call' = [call EXCEPT ![d] = "none"]
               /\ UNCHANGED <<lock, entry, out, inbox, adrift, lost>>
  /\ UNCHANGED <<acts, row, overlapped, cookie, faults>>

-----------------------------------------------------------------------------
(* Signing in and out                                                      *)

\* createLoginSession.  The page may show another session by then: the routes
\* of the OAuth callbacks sign in whatever the refresh cookie has restored.
Login(p, s) ==
  /\ Act
  /\ row[s].status = "none" /\ entry[p].kind = "none"
  /\ row' = [row EXCEPT ![s].status = "active"]
  /\ entry' = [entry EXCEPT ![p] = [kind |-> "login", sid |-> s]]
  /\ UNCHANGED <<cookie, lock, page, flight, call, out, inbox, adrift, faults, lost, overlapped>>

\* The answer to the login: its cookie, applyAuthBundle (the console's
\* applyAuthenticatedSession) and, from a dashboard, the event.
SignedIn(p) ==
  LET s == entry[p].sid
  IN  /\ entry[p].kind = "login"
      /\ entry' = [entry EXCEPT ![p] = NoEntry]
      /\ cookie' = [sid |-> s, age |-> 0]
      /\ SetBundle(p, s)
      /\ flight' = [flight EXCEPT ![p] = Superseded(@)]
      /\ inbox' = IF p \in Dashboard /\ page[p].sid # s THEN publish(p, "authenticated", s) ELSE inbox
      /\ UNCHANGED <<acts, row, lock, call, out, adrift, faults, lost, overlapped>>

\* advanceCurrentSessionToVersion after a change of password or second factor:
\* the page's session stays, other sessions of its user are revoked.
SecurityChange(p) ==
  /\ Act
  /\ entry[p].kind = "none" /\ page[p].sid # NoSid /\ row[page[p].sid].status = "active"
  /\ \E others \in SUBSET {s \in Sid \ {page[p].sid} : row[s].status = "active"} :
       row' = [s \in Sid |-> IF s \in others THEN [status |-> "revoked", grace |-> FALSE] ELSE row[s]]
  /\ entry' = [entry EXCEPT ![p] = [kind |-> "rotation", sid |-> page[p].sid]]
  /\ UNCHANGED <<cookie, lock, page, flight, call, out, inbox, adrift, faults, lost, overlapped>>

\* applyAuthRotation: the new access token is for the session shown, or an
\* error; the console takes the session over instead.
Rotated(p) ==
  /\ entry[p].kind = "rotation"
  /\ entry' = [entry EXCEPT ![p] = NoEntry]
  /\ IF page[p].sid # NoSid /\ (p \in Dashboard => page[p].sid = entry[p].sid)
       THEN SetBundle(p, entry[p].sid) /\ flight' = [flight EXCEPT ![p] = Superseded(@)]
       ELSE UNCHANGED <<page, flight>>
  /\ UNCHANGED <<acts, server, overlapped, cookie, lock, call, out, inbox, faults>>

EntryLost(p) ==
  /\ faults < MaxFaults /\ faults' = faults + 1
  /\ entry[p].kind # "none"
  /\ entry' = [entry EXCEPT ![p] = NoEntry]
  /\ UNCHANGED <<acts, server, overlapped, cookie, lock, page, flight, call, out, inbox>>

Revoked(s) ==
  IF row[s].status = "active"
    THEN [row EXCEPT ![s] = [status |-> "revoked", grace |-> FALSE]] ELSE row

\* AuthLogout.  A valid access token revokes its session; without one the
\* cookie's token must be the current one or the previous one in its grace.
\* The answer clears the cookie unless a valid token came without one.
LogoutRequest(p) ==
  LET s == page[p].sid
      mismatch == cookie # NoToken /\ cookie.sid # s
  IN  /\ IF out[p].phase = "none" THEN Act ELSE UNCHANGED acts
      /\ out[p].phase \in {"none", "again"} /\ s # NoSid
      /\ \E tokenValid \in BOOLEAN :
           /\ row' = IF mismatch THEN row
                     ELSE IF tokenValid \/ (cookie # NoToken /\
                               (cookie.age = 0 \/ (cookie.age = 1 /\ row[s].grace)))
                     THEN Revoked(s) ELSE row
           /\ out' = [out EXCEPT ![p] =
                [phase |-> "answered", retry |-> out[p].phase = "none", mismatch |-> mismatch,
                 clears |-> ~mismatch /\ (tokenValid => cookie # NoToken)]]
      /\ UNCHANGED <<cookie, lock, page, flight, call, entry, inbox, adrift, faults, lost, overlapped>>

\* The sign-out succeeded: executeLogout returns and the page forgets the user.
LoggedOut(p) ==
  /\ out[p].phase = "answered" /\ ~out[p].mismatch
  /\ Store(IF out[p].clears THEN {NoToken} ELSE {})
  /\ out' = [out EXCEPT ![p] = NoLogout]
  /\ IF p \in Console
       THEN /\ page' = [page EXCEPT ![p] = Cleared]
            /\ flight' = [flight EXCEPT ![p] = Idle]
            /\ Abandon(flight[p])
       ELSE Forget(p) /\ UNCHANGED <<adrift, lost>>
  /\ inbox' = SignedOutBox(p)
  /\ UNCHANGED <<acts, row, overlapped, lock, call, entry, faults>>

\* 409 to a sign-out: a dashboard refreshes once and tries again; a second
\* mismatch, and any in the console, is an error.
LogoutMismatch(p) ==
  /\ out[p].phase = "answered" /\ out[p].mismatch
  /\ IF p \in Dashboard /\ out[p].retry /\ ~page[p].limited
       THEN /\ out' = [out EXCEPT ![p] = [NoLogout EXCEPT !.phase = "refreshing"]]
            /\ Refresh(p)
       ELSE /\ out' = [out EXCEPT ![p] = NoLogout]
            /\ UNCHANGED <<flight, lock>>
  /\ UNCHANGED <<acts, server, overlapped, cookie, page, call, entry, inbox, faults>>

LogoutLost(p) ==
  /\ faults < MaxFaults /\ faults' = faults + 1
  /\ out[p].phase = "answered"
  /\ out' = [out EXCEPT ![p] = NoLogout]
  /\ UNCHANGED <<acts, server, overlapped, cookie, lock, page, flight, call, entry, inbox>>

-----------------------------------------------------------------------------
(* Events between dashboards                                               *)

\* The listener of routes/__root.tsx.  Another login reloads the page; the
\* sign-out of the page's own session clears it.
Receive(d) ==
  /\ inbox[d] # <<>>
  /\ LET e == Head(inbox[d])
         rest == [inbox EXCEPT ![d] = Tail(@)]
     IN  IF e.kind = "authenticated" /\ e.sid # page[d].sid
           THEN Reload(d)
         ELSE IF e.kind = "signed_out" /\ e.sid = page[d].sid
           THEN /\ Forget(d)
                /\ inbox' = rest
                /\ UNCHANGED <<lock, call, entry, out, adrift, lost>>
         ELSE inbox' = rest /\ UNCHANGED <<page, flight, lock, call, entry, out, adrift, lost>>
  /\ UNCHANGED <<acts, row, overlapped, cookie, faults>>

\* An event older than a minute, or without a channel to carry it, is ignored.
MissEvent(d) ==
  /\ faults < MaxFaults /\ faults' = faults + 1
  /\ inbox[d] # <<>>
  /\ inbox' = [inbox EXCEPT ![d] = Tail(@)]
  /\ UNCHANGED <<acts, server, overlapped, cookie, lock, page, flight, call, entry, out>>

-----------------------------------------------------------------------------
(* The rest of the system                                                  *)

\* RefreshReplayWindow passes.
GraceEnds(s) ==
  /\ row[s].grace
  /\ row' = [row EXCEPT ![s].grace = FALSE]
  /\ UNCHANGED <<acts, cookie, lock, page, flight, call, entry, out, inbox, adrift, faults, lost,
                 overlapped>>

\* The session is revoked from another browser, by an administrator, or expires.
RevokedElsewhere(s) ==
  /\ Act
  /\ row[s].status = "active"
  /\ row' = Revoked(s)
  /\ UNCHANGED <<cookie, lock, page, flight, call, entry, out, inbox, adrift, faults, lost,
                 overlapped>>

\* What moves a refresh on: at most one of these is possible at a time.
Network(p) ==
  \/ p \notin Console /\ Acquire(p)
  \/ Serve(p) \/ Supersede(p) \/ AcceptBundle(p) \/ Mismatch(p) \/ Anonymous(p)

Next ==
  \/ \E d \in Dashboard :
       Bootstrap(d) \/ Unauthorized(d) \/ RateLimited(d) \/ LimitPasses(d) \/ Repeated(d)
       \/ Receive(d) \/ MissEvent(d)
  \/ \E p \in Site : ViewerRefresh(p)
  \/ \E p \in Console : SessionQuery(p)
  \/ \E p \in Page : Network(p) \/ Unavailable(p) \/ UserReload(p)
  \/ \E i \in DOMAIN adrift : ServeAdrift(i)
  \/ \E p \in Dashboard \cup Console :
       LogoutRequest(p) \/ LoggedOut(p) \/ LogoutMismatch(p) \/ LogoutLost(p)
       \/ SignedIn(p) \/ SecurityChange(p) \/ Rotated(p) \/ EntryLost(p)
  \/ \E p \in Dashboard \cup Console, s \in Sid : Login(p, s)
  \/ \E s \in Sid : GraceEnds(s) \/ RevokedElsewhere(s)

\* The browser grants a free lock and delivers answers and messages, the server
\* answers, and the console's timer runs while it has a session.
Fairness ==
  /\ \A p \in Page : WF_vars(Network(p))
  /\ \A d \in Dashboard : WF_vars(Repeated(d)) /\ WF_vars(Receive(d))
  /\ \A p \in Console : WF_vars(page[p].sid # NoSid /\ SessionQuery(p))

Spec == Init /\ [][Next]_vars /\ Fairness

-----------------------------------------------------------------------------
(* Properties                                                              *)

\* A session is revoked for the reuse of a refresh token only when a page
\* abandoned a refresh of it or a console refreshed it while another page did:
\* pages that refresh under the browser lock never drive each other out, however
\* slow their answers are (RotateUserSessionRefresh against the clients).
NotForcedOut == \A s \in Sid : row[s].status = "reused" => s \in lost \cup overlapped

\* A dashboard passes from one session straight to another only by the answer to
\* its own login: no refresh replaces the session it was not begun for, however
\* late its answer comes (isCurrent in createRefreshRunner), and no rotation of
\* another session's access token does (applyAuthRotation).
NeverSwitched ==
  [][\A d \in Dashboard :
       page[d].sid # NoSid /\ page'[d].sid \notin {NoSid, page[d].sid} =>
         entry[d] = [kind |-> "login", sid |-> page'[d].sid]]_vars

Dead(s) == row[s].status \in {"revoked", "reused"}

\* A dashboard whose API call meets a 401 because its session is gone gives
\* that session up, unless a request fails meanwhile (http-client.ts).  The call
\* must have a refresh of its own to wait for: one that a login or a rotation
\* has superseded, or is about to, ends without a word about the session.
DeadSessionLeft ==
  \A d \in Dashboard, s \in Sid, n \in 0..MaxFaults :
    (/\ call[d] = "waiting" /\ page[d].sid = s /\ Dead(s) /\ faults = n
     /\ flight[d].current /\ entry[d].kind # "rotation")
      ~> (page[d].sid # s \/ faults > n)

HoldsDeadSession(p) == page[p].sid # NoSid /\ Dead(page[p].sid)

Waits(p) == flight[p].phase # "idle" \/ (p \in Dashboard /\ call[p] = "waiting")

\* Every refresh under the lock ends and every API call that waits for one goes
\* on, whatever the other pages do with the lock (performRefreshWithBrowserLock).
RefreshEnds == \A p \in Dashboard \cup Site : Waits(p) ~> ~Waits(p)

\* A console gives up a session that is gone, by its own timer, unless another
\* page has put another session's token in the cookie jar: the 409 it then gets
\* leaves its session in place (getSession in live-session-repository.ts).
ConsoleLeavesDeadSession ==
  \A p \in Console :
    HoldsDeadSession(p) ~> (~HoldsDeadSession(p) \/ cookie.sid \notin {NoSid, page[p].sid})
=============================================================================
