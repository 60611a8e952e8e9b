----------------------------- MODULE Playground -----------------------------
(***************************************************************************)
(* The chat playground of the dashboard (web/src/features/playground).     *)
(*                                                                         *)
(* A prompt appends a user message and a loading assistant message and     *)
(* starts a request: a server-sent stream, one chat completion, or a video *)
(* task that is polled.  Answers are written into the last message by      *)
(* updater functions, which React runs when it renders (or at once, when   *)
(* nothing else is queued).  Generation counters tell late answers from    *)
(* current ones.  A user event is rendered before the next event; network  *)
(* events may pile up before a render.                                     *)
(*                                                                         *)
(* A message is known by its author and the request it was made for.  Its  *)
(* content is a sequence of characters, each with the request that it came *)
(* from, 0 standing for the editor.  Text that is never cut into pieces is *)
(* one character; an error text is not kept.  Reasoning, which is streamed *)
(* beside the content in the same way, is left out.                        *)
(***************************************************************************)
EXTENDS Naturals, Sequences, FiniteSets, SequencesExt

CONSTANTS
  Kind,        \* what the models in use answer with
  Char,        \* the characters of a streamed answer
  MaxSends,    \* bound: requests started
  MaxChunks,   \* bound: chunks of a stream
  Later,       \* bound: the kinds of the requests after the first
  History      \* bound: the texts there are when another request is started,
               \* and of its stream

\* Streams, by what a chunk holds: the next piece of the text, or all of it so far.
Streams == {"pieces", "snapshots"}

ASSUME PlaygroundAssumption ==
  /\ MaxSends \in Nat \ {0} /\ MaxChunks \in Nat
  /\ Kind \subseteq Streams \cup {"chat", "video"}

Req == 1..MaxSends

VARIABLES
  messages,   \* the messages React last rendered
  queue,      \* updates of the messages not yet rendered
  flags,      \* isStreaming and isRequesting, as last set
  shown,      \* isGenerating, as last rendered
  editing,    \* editingMessageKey: the message in the editor, or <<>>
  req,        \* the requests
  count,      \* requests started so far
  gen,        \* requestGenerationRef
  sgen,       \* generation of the stream controller
  source,     \* the controller's event source, 0 for null
  abort,      \* abortControllerRef, 0 for null
  pend,       \* pendingStreamChunksRef: the text of the chunks not yet flushed
  timer,      \* generation of streamFlushTimerRef, 0 for null
  latest,     \* latestMessagesRef
  saving,     \* messagesSaveTimerRef is set
  saved,      \* the messages in localStorage
  overwritten \* history: an edit was saved over updates not yet rendered

view == <<messages, queue, latest, saving>>
chat == <<flags, gen, sgen, source, abort, pend, timer>>
vars == <<view, shown, editing, req, count, chat, saved, overwritten>>

Glyph == [of : 0..MaxSends, c : Char \cup {"typed", "answer", "video"}]
Message == [from : {"user", "assistant"}, req : Req,
            status : {"none", "loading", "streaming", "complete", "error"}, content : Seq(Glyph)]
NoRequest == [kind |-> "none", gen |-> 0, sgen |-> 0, phase |-> "none", text |-> <<>>]
Idle == [streaming |-> FALSE, requesting |-> FALSE]

TypeOK ==
  /\ \A ms \in {messages, latest, saved} : ms \in Seq(Message)
  /\ \A i \in DOMAIN queue : queue[i].op \in {"set", "flush", "complete", "error", "response", "video",
                                              "stop", "remove"}
  /\ flags \in [streaming : BOOLEAN, requesting : BOOLEAN] /\ shown \in BOOLEAN
  /\ req \in [Req -> [kind : Kind \cup {"none"}, gen : Nat, sgen : Nat, text : Seq(Char),
                      phase : {"none", "headers", "open", "silent", "await", "sleep",
                               "complete", "ended"}]]
  /\ count \in 0..MaxSends /\ gen \in Nat /\ sgen \in Nat
  /\ source \in 0..MaxSends /\ abort \in 0..MaxSends
  /\ pend \in [gen : Nat, chunks : Seq(Glyph)] /\ timer \in {0, gen}
  /\ saving \in BOOLEAN /\ overwritten \in BOOLEAN

Init ==
  /\ messages = <<>> /\ queue = <<>> /\ latest = <<>> /\ saved = <<>>
  /\ flags = Idle /\ shown = FALSE /\ editing = <<>>
  /\ req = [r \in Req |-> NoRequest] /\ count = 0
  /\ gen = 0 /\ sgen = 0 /\ source = 0 /\ abort = 0
  /\ pend = [gen |-> 0, chunks |-> <<>>] /\ timer = 0
  /\ saving = FALSE /\ overwritten = FALSE

-----------------------------------------------------------------------------
(* Messages                                                                *)

User(r) == [from |-> "user", req |-> r, status |-> "none", content |-> <<>>]
Loading(r) == [from |-> "assistant", req |-> r, status |-> "loading", content |-> <<>>]
Key(m) == <<m.from, m.req>>
Pending(m) == m.status \in {"loading", "streaming"}
HasContent(m) == m.from = "user" \/ m.status = "error" \/ m.content # <<>>

Text(content) == [i \in DOMAIN content |-> content[i].c]

\* completeAssistantMessage
Completed(m) == [m EXCEPT !.status = "complete"]

\* updateLastAssistantMessage
updateLastAssistantMessage(ms, f(_)) ==
  IF ms = <<>> \/ Last(ms).from # "assistant" THEN ms
  ELSE [ms EXCEPT ![Len(ms)] = f(ms[Len(ms)])]

\* nextChunk.startsWith(currentChunk), for a chunk that is not empty
StartsWith(next, current) ==
  /\ current # <<>> /\ Len(current) <= Len(next)
  /\ \A i \in 1..Len(current) : next[i].c = current[i].c

\* A chunk that repeats all the text before it replaces it.
mergePendingStreamChunk(current, next) ==
  IF StartsWith(next, current) THEN next ELSE current \o next

\* Of a chunk that repeats all the content, the rest is new.
getAppendableChunk(content, chunk) ==
  IF StartsWith(chunk, content) THEN SubSeq(chunk, Len(content) + 1, Len(chunk)) ELSE chunk

\* applyStreamingChunk for the chunks of one flush
applyStreamingChunk(m, chunks) ==
  IF m.status = "error" THEN m
  ELSE [m EXCEPT !.status = "streaming", !.content = @ \o getAppendableChunk(@, chunks)]

\* The updater functions given to onMessageUpdate, run while generation g is
\* the current one.  Keys are unique, so the filter of a deletion drops one message.
Apply(u, ms, g) ==
  CASE u.op = "set" -> u.ms
    [] u.op = "remove" -> RemoveFirstMatch(ms, LAMBDA m : Key(m) = u.key)
    [] u.op = "video" ->
         updateLastAssistantMessage(ms, LAMBDA m :
           Completed([m EXCEPT !.content = Append(@, [of |-> u.r, c |-> "video"])]))
    [] u.op \in {"flush", "complete", "error", "response", "stop"} /\ u.gen # g -> ms
    [] u.op = "flush" /\ u.gen = g ->
         updateLastAssistantMessage(ms, LAMBDA m : applyStreamingChunk(m, u.chunks))
    [] u.op = "complete" /\ u.gen = g ->
         updateLastAssistantMessage(ms, LAMBDA m :
           IF m.status \in {"complete", "error"} THEN m ELSE Completed(m))
    [] u.op = "error" /\ u.gen = g ->
         updateLastAssistantMessage(ms, LAMBDA m : [m EXCEPT !.status = "error", !.content = <<>>])
    [] u.op = "response" /\ u.gen = g ->
         updateLastAssistantMessage(ms, LAMBDA m :
           Completed([m EXCEPT !.content = <<[of |-> u.r, c |-> "answer"]>>]))
    [] u.op = "stop" /\ u.gen = g ->
         updateLastAssistantMessage(ms, LAMBDA m : IF Pending(m) THEN Completed(m) ELSE m)

ApplyAll(q, ms, g) == FoldLeft(LAMBDA acc, u : Apply(u, acc, g), ms, q)

Set(ms) == [op |-> "set", ms |-> ms]

\* setMessages for the updates us in turn: React evaluates the first at once
\* when none is queued, or leaves it to the render.
Enqueue(us) ==
  \E eager \in BOOLEAN :
    LET first == Apply(Head(us), messages, gen)
    IN  IF eager /\ queue = <<>> /\ us # <<>>
          THEN /\ queue' = <<Set(first)>> \o Tail(us)
               /\ latest' = first /\ saving' = TRUE
          ELSE queue' = queue \o us /\ UNCHANGED <<latest, saving>>

\* React renders: every update queued is run, and saved by a debounced timer.
Commit(q, g) ==
  LET ms == ApplyAll(q, messages, g)
  IN  /\ messages' = ms /\ queue' = <<>>
      /\ latest' = IF q = <<>> THEN latest ELSE ms
      /\ saving' = (saving \/ q # <<>>)
      /\ shown' = (flags'.streaming \/ flags'.requesting)

Render ==
  /\ queue # <<>> \/ shown # (flags.streaming \/ flags.requesting)
  /\ UNCHANGED <<editing, req, count, chat, saved, overwritten>>
  /\ Commit(queue, gen)

\* The save timer of persistMessages.
Save ==
  /\ saving
  /\ saved' = latest /\ saving' = FALSE
  /\ UNCHANGED <<messages, queue, latest, shown, editing, req, count, chat, overwritten>>

-----------------------------------------------------------------------------
(* Starting and stopping requests                                          *)

\* Requests that are closed or aborted, or have settled otherwise than by [DONE].
Ended == [NoRequest EXCEPT !.phase = "ended"]
Abandon(rs) == [r \in Req |-> IF r \in rs THEN Ended ELSE req[r]]

\* Mutant: chunks not yet flushed survive the start of another request.
discardKeeping(g) == pend' = [pend EXCEPT !.gen = g] /\ timer' = timer

\* discardPendingStreamUpdates
discardPendingStreamUpdates(g) == pend' = [gen |-> g, chunks |-> <<>>] /\ timer' = 0

\* sendChat: a new generation, the running request closed or aborted, and the
\* request sent.  A stream waits for its headers first.
sendChat(r, kind) ==
  /\ gen' = gen + 1
  /\ sgen' = sgen + 1
  /\ source' = 0
  /\ abort' = IF kind \in Streams THEN 0 ELSE r
  /\ discardPendingStreamUpdates(gen')
  /\ flags' = [streaming |-> FALSE, requesting |-> TRUE]
  /\ req' = [Abandon({source, abort} \ {0}) EXCEPT ![r] =
       [kind |-> kind, gen |-> gen', sgen |-> sgen', text |-> <<>>,
        phase |-> IF kind \in Streams THEN "headers" ELSE "await"]]

\* What there is when another request is started.
InHistory ==
  /\ \A r \in Req : req[r].text \in History
  /\ \A ms \in {messages, latest, saved} : \A i \in DOMAIN ms : Text(ms[i].content) \in History

\* A user event that replaces the messages and sends them.
Start(ms(_), kind) ==
  /\ count < MaxSends /\ count' = count + 1
  /\ count = 0 \/ kind \in Later
  /\ InHistory
  /\ sendChat(count', kind)
  /\ Commit(Append(queue, Set(ms(count'))), gen')
  /\ UNCHANGED <<saved, overwritten>>

\* handleSendMessage: the input is disabled while generating.
SendMessage(kind) ==
  /\ ~shown
  /\ Start(LAMBDA r : messages \o <<User(r), Loading(r)>>, kind)
  /\ UNCHANGED editing

\* handleRegenerateMessage and the retry of an error.
RegenerateMessage(i, kind) ==
  /\ ~shown /\ HasContent(messages[i]) /\ ~Pending(messages[i])
  /\ Start(LAMBDA r : Append(SubSeq(messages, 1, IF messages[i].from = "user" THEN i ELSE i - 1),
                             Loading(r)), kind)
  /\ UNCHANGED editing

EditMessage(i) ==
  /\ ~shown /\ HasContent(messages[i])
  /\ editing' = Key(messages[i])
  /\ UNCHANGED <<view, shown, req, count, chat, saved, overwritten>>

CancelEdit ==
  /\ editing # <<>>
  /\ editing' = <<>>
  /\ UNCHANGED <<view, shown, req, count, chat, saved, overwritten>>

Edited(i) ==
  [messages EXCEPT ![i].content = IF messages[i].from = "user" THEN @
                                 ELSE <<[of |-> 0, c |-> "typed"]>>]

\* applyEdit without a submission; the editor stays usable while generating and
\* writes back the messages of the last render.
SaveEdit(i) ==
  /\ editing = Key(messages[i])
  /\ editing' = <<>>
  /\ overwritten' = (overwritten \/ queue # <<>>)
  /\ UNCHANGED <<req, count, chat, saved>>
  /\ Commit(Append(queue, Set(Edited(i))), gen)

\* applyEdit with a submission.
SubmitEdit(i, kind) ==
  /\ editing = Key(messages[i]) /\ messages[i].from = "user"
  /\ editing' = <<>>
  /\ Start(LAMBDA r : Append(SubSeq(messages, 1, i), Loading(r)), kind)

DeleteMessage(i) ==
  /\ ~shown
  /\ UNCHANGED <<editing, req, count, chat, saved, overwritten>>
  /\ Commit(Append(queue, [op |-> "remove", key |-> Key(messages[i])]), gen)

ClearMessages ==
  /\ ~shown /\ messages # <<>>
  /\ editing' = <<>>
  /\ UNCHANGED <<req, count, chat, saved, overwritten>>
  /\ Commit(Append(queue, Set(<<>>)), gen)

\* flushStreamUpdates(g): the update to queue, if any, while pend is current.
FlushUpdate(g) ==
  IF g = gen /\ pend.gen = g /\ pend.chunks # <<>>
    THEN <<[op |-> "flush", gen |-> g, chunks |-> pend.chunks]>> ELSE <<>>

\* stopGeneration: what was received last is shown only if React evaluates its
\* update before the generation moves on.
StopGeneration ==
  /\ shown
  /\ gen' = gen + 1 /\ sgen' = sgen + 1
  /\ source' = 0 /\ abort' = 0
  /\ discardPendingStreamUpdates(gen')
  /\ flags' = Idle
  /\ req' = Abandon({source, abort} \ {0})
  /\ \E eager \in BOOLEAN :
       LET first == IF eager /\ queue = <<>> /\ FlushUpdate(gen) # <<>>
                      THEN <<Set(ApplyAll(FlushUpdate(gen), messages, gen))>> ELSE FlushUpdate(gen)
       IN  Commit(queue \o first \o <<[op |-> "stop", gen |-> gen']>>, gen')
  /\ UNCHANGED <<editing, count, saved, overwritten>>

-----------------------------------------------------------------------------
(* Answers                                                                 *)

\* A request settles with generation g: pending chunks are flushed, the flags
\* fall and the last message gets its final update.
Settle(g, us) ==
  IF g # gen THEN UNCHANGED <<view, pend, timer>>
  ELSE /\ Enqueue(FlushUpdate(g) \o us)
       /\ pend' = [pend EXCEPT !.chunks = IF pend.gen = g THEN <<>> ELSE @]
       /\ timer' = 0
       /\ UNCHANGED messages

\* setIsRequesting(false) of the handlers and finally blocks.
Requested(g) == IF g = gen THEN FALSE ELSE flags.requesting

Moves(r, phase) == req' = [req EXCEPT ![r].phase = phase]
Ends(r) == req' = Abandon({r})

\* Mutant: the headers are used although the stream was stopped meanwhile.
HeadersUnchecked(r) ==
  /\ req[r].phase = "headers"
  /\ Moves(r, "open")
  /\ source' = r /\ flags' = [flags EXCEPT !.streaming = TRUE]
  /\ UNCHANGED <<view, shown, editing, count, gen, sgen, abort, pend, timer, saved, overwritten>>

\* getHeaders answers: a stream that was stopped or replaced meanwhile is dropped.
Headers(r) ==
  /\ req[r].phase = "headers"
  /\ IF req[r].sgen # sgen
       THEN Ends(r) /\ UNCHANGED <<source, flags>>
       ELSE Moves(r, "open") /\ source' = r /\ flags' = [flags EXCEPT !.streaming = TRUE]
  /\ UNCHANGED <<view, shown, editing, count, gen, sgen, abort, pend, timer, saved, overwritten>>

\* Mutant: a failure to get headers leaves the request marked as under way.
HeadersFailSilent(r) ==
  /\ req[r].phase = "headers"
  /\ Ends(r)
  /\ UNCHANGED <<view, chat, shown, editing, count, saved, overwritten>>

HeadersFail(r) ==
  /\ req[r].phase = "headers"
  /\ Ends(r)
  /\ IF req[r].sgen # sgen THEN UNCHANGED <<view, chat>>
     ELSE /\ Settle(req[r].gen, <<[op |-> "error", gen |-> req[r].gen]>>)
          /\ flags' = [flags EXCEPT !.requesting = Requested(req[r].gen)]
          /\ UNCHANGED <<gen, sgen, source, abort>>
  /\ UNCHANGED <<shown, editing, count, saved, overwritten>>

\* A chunk of request r with the characters cs.
Chunk(r, cs) == [i \in 1..Len(cs) |-> [of |-> r, c |-> cs[i]]]

\* The text of the stream grows by c; handleStreamUpdate and scheduleStreamFlush.
StreamChunk(r, c) ==
  /\ source = r /\ req[r].phase = "open" /\ Len(req[r].text) < MaxChunks
  /\ count = 1 \/ Append(req[r].text, c) \in History
  /\ LET text == Append(req[r].text, c)
         chunk == Chunk(r, IF req[r].kind = "snapshots" THEN text ELSE <<c>>)
     IN  /\ req' = [req EXCEPT ![r].text = text]
         /\ IF req[r].gen = gen /\ pend.gen = gen
              THEN /\ pend' = [pend EXCEPT !.chunks = mergePendingStreamChunk(@, chunk)]
                   /\ timer' = IF timer = 0 THEN gen ELSE timer
              ELSE UNCHANGED <<pend, timer>>
  /\ UNCHANGED <<view, shown, editing, count, flags, gen, sgen, source, abort, saved, overwritten>>

\* The flush timer.
FlushTimer ==
  /\ timer # 0
  /\ IF timer = gen /\ FlushUpdate(gen) # <<>>
       THEN Enqueue(FlushUpdate(gen)) /\ pend' = [pend EXCEPT !.chunks = <<>>]
       ELSE UNCHANGED <<queue, latest, saving, pend>>
  /\ timer' = 0
  /\ UNCHANGED <<messages, shown, editing, req, count, flags, gen, sgen, source, abort,
                 saved, overwritten>>

\* The source closes with [DONE] or with an error; closeActiveSource.
StreamEnds(r, phase, us) ==
  /\ source = r /\ req[r].phase = "open"
  /\ IF phase = "ended" THEN Ends(r) ELSE Moves(r, phase)
  /\ Settle(req[r].gen, us)
  /\ source' = 0
  /\ flags' = [streaming |-> FALSE, requesting |-> Requested(req[r].gen)]
  /\ UNCHANGED <<shown, editing, count, gen, sgen, abort, saved, overwritten>>

\* Mutant: the last chunks are not flushed when the stream is done.
StreamDoneUnflushed(r) ==
  /\ source = r /\ req[r].phase = "open"
  /\ Moves(r, "complete")
  /\ Enqueue(<<[op |-> "complete", gen |-> req[r].gen]>>)
  /\ source' = 0 /\ flags' = Idle
  /\ UNCHANGED <<messages, shown, editing, count, gen, sgen, abort, pend, timer, saved, overwritten>>

StreamDone(r) == StreamEnds(r, "complete", <<[op |-> "complete", gen |-> req[r].gen]>>)

StreamError(r) == StreamEnds(r, "ended", <<[op |-> "error", gen |-> req[r].gen]>>)

\* The connection closes with status 200 and without [DONE]: no listener acts.
StreamSilent(r) ==
  /\ source = r /\ req[r].phase = "open"
  /\ Moves(r, "silent")
  /\ UNCHANGED <<view, chat, shown, editing, count, saved, overwritten>>

\* The finally block of sendNonStreamingChat and sendVideo.
Finally(r) ==
  /\ abort' = IF req[r].gen = gen THEN 0 ELSE abort
  /\ flags' = [flags EXCEPT !.requesting = Requested(req[r].gen)]

\* A chat completion with a choice, or a finished video.  An aborted request
\* never gets here.
Answer(r) ==
  /\ req[r].phase = "await"
  /\ Ends(r)
  /\ IF req[r].kind = "chat" /\ req[r].gen # gen THEN UNCHANGED <<queue, latest, saving>>
     ELSE Enqueue(<<[op |-> IF req[r].kind = "chat" THEN "response" ELSE "video",
                     gen |-> req[r].gen, r |-> r]>>)
  /\ Finally(r)
  /\ UNCHANGED <<messages, shown, editing, count, gen, sgen, source, pend, timer, saved, overwritten>>

\* An error, an answer without a choice, or a failed video task.
AnswerFails(r) ==
  /\ req[r].phase = "await"
  /\ Ends(r)
  /\ Settle(req[r].gen, <<[op |-> "error", gen |-> req[r].gen]>>)
  /\ Finally(r)
  /\ UNCHANGED <<shown, editing, count, gen, sgen, source, saved, overwritten>>

\* The video task is not finished.
VideoPending(r) ==
  /\ req[r].kind = "video" /\ req[r].phase = "await"
  /\ Moves(r, "sleep")
  /\ UNCHANGED <<view, chat, shown, editing, count, saved, overwritten>>

\* Two seconds later it is asked for again, however often that has been done.
PollVideo(r) ==
  /\ req[r].phase = "sleep"
  /\ Moves(r, "await")
  /\ UNCHANGED <<view, chat, shown, editing, count, saved, overwritten>>

-----------------------------------------------------------------------------
(* Leaving and returning                                                   *)

\* A stored message that is pending and has content is complete.
normalizeStoredMessageForLoad(m) == IF Pending(m) /\ m.content # <<>> THEN Completed(m) ELSE m

\* Mutant: stored messages that are still pending are shown as they are.
sanitizeNothing(ms) == ms

\* The last pending message becomes an error: one with content is no longer
\* pending when it gets here.
sanitizeMessagesOnLoad(ms) ==
  LET stuck == {i \in DOMAIN ms : Pending(ms[i])}
  IN  [i \in DOMAIN ms |->
         IF i \in stuck /\ \A j \in stuck : j <= i THEN [ms[i] EXCEPT !.status = "error"] ELSE ms[i]]

\* The stored text is taken as it is; the code shortens a very long or
\* repetitive one.
loadMessages(ms) ==
  sanitizeMessagesOnLoad([i \in DOMAIN ms |-> normalizeStoredMessageForLoad(ms[i])])

\* The page is left, saving what a running timer would have saved, or closed,
\* saving nothing; and opened again later.
Reopen(stored) ==
  LET ms == loadMessages(stored)
  IN  /\ count > 0
      /\ messages' = ms /\ latest' = ms /\ saved' = ms
      /\ queue' = <<>> /\ saving' = FALSE
      /\ flags' = Idle /\ shown' = FALSE /\ editing' = <<>>
      /\ req' = Abandon({r \in Req : req[r].phase # "none"})
      /\ gen' = 0 /\ sgen' = 0
      /\ source' = 0 /\ abort' = 0
      /\ pend' = [gen |-> 0, chunks |-> <<>>] /\ timer' = 0
      /\ UNCHANGED <<count, overwritten>>

Leave == Reopen(IF saving THEN latest ELSE saved)
Close == Reopen(saved)

Answers(r) ==
  Headers(r) \/ HeadersFail(r) \/ StreamDone(r) \/ StreamError(r) \/ StreamSilent(r)
  \/ Answer(r) \/ AnswerFails(r)

Next ==
  \/ Render \/ Save \/ FlushTimer
  \/ \E kind \in Kind :
       \/ SendMessage(kind)
       \/ \E i \in DOMAIN messages : RegenerateMessage(i, kind) \/ SubmitEdit(i, kind)
  \/ \E i \in DOMAIN messages : EditMessage(i) \/ SaveEdit(i) \/ DeleteMessage(i)
  \/ CancelEdit \/ ClearMessages \/ StopGeneration
  \/ \E r \in Req : Answers(r) \/ VideoPending(r) \/ PollVideo(r) \/ \E c \in Char : StreamChunk(r, c)
  \/ Leave \/ Close

\* React renders, requests are answered and tasks polled again.
Fairness ==
  /\ WF_vars(Render)
  /\ \A r \in Req : WF_vars(Answers(r)) /\ WF_vars(PollVideo(r))

Spec == Init /\ [][Next]_vars /\ Fairness

-----------------------------------------------------------------------------
(* Properties                                                              *)

\* A message shows only what its own request answered (or what the user typed
\* into it), however late the chunks, flush timers and answers of earlier
\* requests come (the generation checks of use-chat-handler.ts).
ChunksBelong ==
  \A i \in DOMAIN messages :
    \A j \in DOMAIN messages[i].content : messages[i].content[j].of \in {0, messages[i].req}

\* An open event source belongs to the request of the current generation and is
\* the only one: none is left running by a stop, a new prompt or a change of
\* page, whenever its headers arrive (createStreamRequestController).
StreamsAreWanted ==
  \A r \in Req : req[r].phase \in {"open", "silent"} => source = r /\ req[r].gen = gen

\* When nothing is generated and nothing is left to render, no message is
\* loading or streaming, also after the page was left or closed in the middle
\* of an answer and opened again; unless an edit was saved over updates that
\* had not been rendered (stopGeneration, the handlers and loadMessages).
NothingStuck ==
  queue = <<>> /\ flags = Idle /\ ~overwritten =>
    \A i \in DOMAIN messages : ~Pending(messages[i])

\* The content of a message reads as the text.
Spells(content, text) ==
  Len(content) = Len(text) /\ \A i \in 1..Len(text) : content[i].c = text[i]

\* No two neighbouring pieces are alike, and the text does not begin with a
\* passage and the same passage again.
NothingRepeats(text) ==
  /\ \A i \in 1..Len(text) : i < Len(text) => text[i] # text[i + 1]
  /\ \A k \in 1..Len(text) : 2 * k <= Len(text) => \E i \in 1..k : text[i] # text[k + i]

\* A stream that was done before the user did anything else has left in its
\* message, which is complete, exactly the text it sent, however its chunks fell
\* between flush timers and renders: always when each chunk repeats the text so
\* far, and for a stream of pieces if the text does not repeat itself, which the
\* code takes for a chunk sent again (mergePendingStreamChunk, getAppendableChunk
\* and handleStreamComplete).
AllChunksShown ==
  queue = <<>> /\ ~overwritten =>
    \A r \in Req :
      /\ req[r].phase = "complete" /\ req[r].gen = gen
      /\ req[r].kind = "snapshots" \/ NothingRepeats(req[r].text)
      => \A i \in DOMAIN messages :
           /\ Key(messages[i]) = <<"assistant", r>>
           /\ \A j \in DOMAIN messages[i].content : messages[i].content[j].of # 0
           => messages[i].status = "complete" /\ Spells(messages[i].content, req[r].text)

\* The interface comes back from generating by itself, unless a stream ended
\* with status 200 and without [DONE], when only the stop button helps, or a
\* video task is never finished.
GenerationEnds ==
  (\A r \in Req : <>[](req[r].phase # "sleep")) =>
    (shown ~> (~shown \/ \E r \in Req : req[r].phase = "silent"))
=============================================================================
