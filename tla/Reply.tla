------------------------------- MODULE Reply -------------------------------
(***************************************************************************)
(* One reply on its way from the token to the client: the bytes of a token *)
(* become characters (stream_push of crates/tokenizer), characters wait    *)
(* until no stop string can begin in them (advance_token and finish of     *)
(* crates/server/src/scheduler.rs), the text crosses a channel, and a       *)
(* handler of crates/server/src/routes.rs streams or collects it, holding  *)
(* back what may be a tool call.                                           *)
(*                                                                         *)
(* What the model says is given, how it is cut into tokens is not. That a  *)
(* client may leave belongs to Scheduler. The worker's thread may die: a    *)
(* panic unwinds it, drops its ends of the channels, and the handlers go on *)
(* (no profile of Cargo.toml sets panic = "abort").                         *)
(***************************************************************************)
EXTENDS ToolCalls

CONSTANTS
  Replies,    \* [bytes, stop, max_tokens, tools, types, stream]
  MaxToken,   \* bound: bytes in a token
  MaxLag,     \* bound: events the handler is behind when the worker goes on
  NoReply

ASSUME ReplyTexts ==
  /\ MaxToken \in Nat
  /\ \A r \in Replies : /\ r.bytes \in Seq(STRING) /\ r.stop \subseteq Seq(STRING)
                       /\ r.tools \in BOOLEAN /\ r.stream \in BOOLEAN

VARIABLES
  reply,      \* what is asked for and what the model is going to say
  at,         \* bytes generated
  tokens,     \* Running::generated, counted
  partial,    \* Running::partial: bytes of an unfinished character
  pending,    \* Running::pending: characters that may begin a stop string
  row,        \* "running", or how generation ended; "dead" with its thread
  channel,    \* events on their way to the handler
  sent,       \* history: the text of all the events
  held,       \* chat_stream's pending
  in_call,    \* chat_stream's in_tool_call
  answer      \* what the client has: content, calls, and how it ended

worker == << reply, at, tokens, partial, pending, row, sent >>
handler == << held, in_call, answer >>
replyvars == << worker, channel, handler >>

NoAnswer == [content |-> << >>, calls |-> << >>, finish |-> "none", counted |-> "none"]

ReplyInit ==
  /\ reply = NoReply /\ row = "idle"
  /\ at = 0 /\ tokens = 0 /\ partial = << >> /\ pending = << >>
  /\ channel = << >> /\ sent = << >>
  /\ held = << >> /\ in_call = FALSE /\ answer = NoAnswer

Ask(r) ==
  /\ row = "idle"
  /\ reply' = r /\ row' = "running"
  /\ UNCHANGED << at, tokens, partial, pending, channel, sent, handler >>

-----------------------------------------------------------------------------
(* from_utf8_lossy: "C3" and "A9" make one character; a byte that belongs   *)
(* to no character is replaced, and so is a character that is not finished. *)
Decode(done, byte) ==
  CASE byte = "A9" /\ done.open -> [text |-> Append(done.text, "C3A9"), open |-> FALSE]
    [] byte = "C3" -> [text |-> IF done.open THEN Append(done.text, "?") ELSE done.text, open |-> TRUE]
    [] OTHER -> LET text == IF done.open THEN Append(done.text, "?") ELSE done.text
                IN  [text |-> Append(text, IF byte = "A9" THEN "?" ELSE byte), open |-> FALSE]
Characters(bytes) ==
  LET done[n \in 0 .. Len(bytes)] ==
        IF n = 0 THEN [text |-> << >>, open |-> FALSE] ELSE Decode(done[n - 1], bytes[n])
  IN  done[Len(bytes)]
Lossy(bytes) ==
  LET done == Characters(bytes) IN IF done.open THEN Append(done.text, "?") ELSE done.text

ValidUpTo(bytes) ==
  Max({ n \in 0 .. Len(bytes) : ~Contains(Lossy(SubSeq(bytes, 1, n)), "?") })
Truncated(bytes) == bytes = << "C3" >>

(* take_complete: the valid part; or, where there is none and more bytes    *)
(* would not help, one replacement character.                               *)
Cut(bytes, good) ==
  IF good = 0 /\ bytes # << >> /\ ~Truncated(bytes)
  THEN [text |-> << "?" >>, rest |-> Tail(bytes)]
  ELSE [text |-> Lossy(SubSeq(bytes, 1, good)), rest |-> SubSeq(bytes, good + 1, Len(bytes))]

(* Mutant of TakeComplete: what follows the valid part is dropped. *)
TakeCompleteOnly(bytes) == [Cut(bytes, ValidUpTo(bytes)) EXCEPT !.rest = << >>]

TakeComplete(bytes) == Cut(bytes, ValidUpTo(bytes))

-----------------------------------------------------------------------------
(* The worker. An empty text does not go into the channel. *)
TextEvent(text) == IF text = << >> THEN << >> ELSE << [event |-> "text", text |-> text] >>
DoneEvent(reason) == << [event |-> "done", reason |-> reason] >>

(* finish, after `emit`: what was held back goes out, and what is left of a *)
(* character.                                                              *)
Finish(emit, pend, part, reason, how) ==
  /\ channel' = channel \o TextEvent(emit) \o TextEvent(pend \o Lossy(part)) \o DoneEvent(reason)
  /\ sent' = sent \o emit \o pend \o Lossy(part)
  /\ row' = how
  /\ partial' = << >> /\ pending' = << >>

(* stream_push and split_at_stop for a token of n bytes. *)
Split(buffer, scan, part) ==
  [ hit |-> scan.hit, emit |-> SubSeq(buffer, 1, scan.len),
    pending |-> SubSeq(buffer, scan.len + 1, Len(buffer)), partial |-> part ]
Scanned(buffer, part) == Split(buffer, SplitAtStop(buffer, reply.stop), part)
Taken(taken) == Scanned(pending \o taken.text, taken.rest)
Pushed(n) == Taken(TakeComplete(partial \o SubSeq(reply.bytes, at + 1, at + n)))

Generates(n) ==
  /\ row = "running" /\ Len(channel) <= MaxLag /\ at + n <= Len(reply.bytes)
  /\ at' = at + n /\ tokens' = tokens + 1
  /\ UNCHANGED << reply, handler >>

(* advance_token: a stop string is complete, or the budget or the pool is    *)
(* used up, or generation goes on.                                          *)
StopsWith(pushed) ==
  pushed.hit /\ Finish(pushed.emit, << >>, pushed.partial, "stop", "stopped")
LastWith(pushed) ==
  ~pushed.hit /\ Finish(pushed.emit, pushed.pending, pushed.partial, "length", "length")
GoesOnWith(pushed) ==
  /\ ~pushed.hit /\ tokens + 1 < reply.max_tokens
  /\ channel' = channel \o TextEvent(pushed.emit) /\ sent' = sent \o pushed.emit
  /\ pending' = pushed.pending /\ partial' = pushed.partial
  /\ UNCHANGED row
TokenStops(n)  == Generates(n) /\ StopsWith(Pushed(n))
TokenIsLast(n) == Generates(n) /\ LastWith(Pushed(n))
TokenGoesOn(n) == Generates(n) /\ GoesOnWith(Pushed(n))

EndsByItself ==
  /\ row = "running" /\ at = Len(reply.bytes)
  /\ Finish(<< >>, pending, partial, "stop", "ended")
  /\ UNCHANGED << reply, at, tokens, handler >>

(* fail_all *)
RowFails ==
  /\ row = "running"
  /\ row' = "failed"
  /\ channel' = Append(channel, [event |-> "failed"])
  /\ UNCHANGED << reply, at, tokens, partial, pending, sent, handler >>

(* The thread is gone, and with it the sender of the row's events. *)
WorkerDies ==
  /\ row = "running"
  /\ row' = "dead"
  /\ UNCHANGED << reply, at, tokens, partial, pending, channel, sent, handler >>

-----------------------------------------------------------------------------
(* The handlers. chat_stream and completion_stream answer event by event;   *)
(* `collect` gathers them all first, and its caller answers once.           *)
Receives(event) ==
  /\ channel # << >> /\ Head(channel).event = event /\ answer.finish = "none"
  /\ channel' = Tail(channel)
  /\ UNCHANGED worker

(* recv() returns None: everything has been read and nobody sends any more. *)
Deserted ==
  /\ row = "dead" /\ channel = << >> /\ answer.finish = "none"
  /\ UNCHANGED << worker, channel >>

Plain == reply.stream /\ ~reply.tools
Holding == reply.stream /\ reply.tools

StreamText ==
  /\ Receives("text") /\ Plain
  /\ answer' = [answer EXCEPT !.content = @ \o Head(channel).text]
  /\ UNCHANGED << held, in_call >>

(* Mutant of ScansHeld: each event is scanned by itself. *)
ScansEvent(text) == SplitAtStop(text, {Marker})

(* With tools: from the marker on, everything waits for the end. *)
ScansHeld(text) == SplitAtStop(held \o text, {Marker})
HoldText ==
  /\ Receives("text") /\ Holding
  /\ LET text   == Head(channel).text
         scan   == ScansHeld(text)
         buffer == held \o text
         n      == IF in_call THEN 0 ELSE scan.len
     IN  /\ in_call' = (in_call \/ scan.hit)
         /\ held' = SubSeq(buffer, n + 1, Len(buffer))
         /\ answer' = [answer EXCEPT !.content = @ \o SubSeq(buffer, 1, n)]

Without(reason) == [content |-> << >>, calls |-> << >>, finish |-> reason]

(* The answer to a text that is known as a whole. *)
Parsed(text, reason, scan) ==
  IF reply.tools /\ ~scan.truncated /\ scan.calls # << >>
  THEN [content |-> scan.leading, calls |-> scan.calls, finish |-> "tool_calls"]
  ELSE [Without(reason) EXCEPT !.content = text]
Whole(text, reason) == Parsed(text, reason, Scan(text, reply.types))

(* What the client gets last, after what it has. *)
Report(content, last, counted) ==
  answer' = [content |-> content \o last.content, calls |-> last.calls, finish |-> last.finish, counted |-> counted]

(* The end of a stream: calls that are complete are reported, and what only *)
(* looked like one is sent. Held text without a marker is not sent at all.  *)
StreamEnds(reason, counted) ==
  /\ reply.stream
  /\ \/ in_call /\ Report(answer.content, Whole(held, reason), counted)
     \/ ~in_call /\ Report(answer.content, Without(reason), counted)
  /\ UNCHANGED << held, in_call >>
StreamDone == Receives("done") /\ StreamEnds(Head(channel).reason, "ok")

(* A stream without an end is taken to have stopped; nothing is recorded.   *)
StreamClosed == Deserted /\ StreamEnds("stop", "none")

CollectText ==
  /\ Receives("text") /\ ~reply.stream
  /\ held' = held \o Head(channel).text
  /\ UNCHANGED << in_call, answer >>

CollectDone ==
  /\ Receives("done") /\ ~reply.stream
  /\ Report(<< >>, Whole(held, Head(channel).reason), "ok")
  /\ UNCHANGED << held, in_call >>

(* "inference worker dropped the request" *)
CollectClosed ==
  /\ Deserted /\ ~reply.stream
  /\ answer' = [answer EXCEPT !.finish = "error", !.counted = "error"]
  /\ UNCHANGED << held, in_call >>

HandlerFailed ==
  /\ Receives("failed")
  /\ answer' = [answer EXCEPT !.finish = "error", !.counted = "error"]
  /\ UNCHANGED << held, in_call >>

ReplyNext ==
  \/ \E r \in Replies : Ask(r)
  \/ \E n \in 1 .. MaxToken : TokenStops(n) \/ TokenIsLast(n) \/ TokenGoesOn(n)
  \/ EndsByItself \/ RowFails \/ WorkerDies
  \/ StreamText \/ HoldText \/ StreamDone \/ StreamClosed
  \/ CollectText \/ CollectDone \/ CollectClosed \/ HandlerFailed

ReplySpec == ReplyInit /\ [][ReplyNext]_replyvars

-----------------------------------------------------------------------------
Said == Lossy(SubSeq(reply.bytes, 1, at))
Garbled == \E i \in 1 .. Len(Said) - 1 : Said[i] = "?"

(* Nothing the model said is dropped, doubled or reordered between the      *)
(* token and the channel, however characters and stop strings are split     *)
(* over tokens: a running row still has what it has not sent (it goes with   *)
(* its thread), and one that ended without a stop string has sent all of it. *)
SaysItsText ==
  /\ row \in {"running", "dead"} => sent \o pending \o Lossy(partial) = Said
  /\ row \in {"length", "ended"} => sent = Said

(* A reply that met a stop string was cut where one begins, and none is in  *)
(* what was sent. (A token that completes the stop string and begins a      *)
(* character leaves a replacement behind, which may itself be asked for as a *)
(* stop string. Behind a byte of no character the text lags a token, and    *)
(* finish sends what is left of it unscanned.) Text is held back only while *)
(* it may be the beginning of a stop string.                                *)
StopsAtStop ==
  /\ pending # << >> => \E s \in reply.stop : IsStrictPrefix(pending, s)
  /\ row # "idle" /\ ~Garbled =>
       /\ Found(sent, { s \in reply.stop : ~Contains(s, "?") }) = {}
       /\ row = "stopped" => \E cut \in Found(Said, reply.stop), rest \in { << >>, << "?" >> } :
                               sent = SubSeq(Said, 1, cut - 1) \o rest

(* A streamed answer is the one the client would have had without streaming *)
(* (the blanks around the text aside), whichever way the events cut it, with *)
(* two exceptions, both of which are findings: text that is held back as the *)
(* beginning of a marker, and turns out to be none, is not in it; and behind *)
(* a dead thread a stream says "stop" where `collect` says there was an      *)
(* error, and counts nothing.                                               *)
Unsent == IF reply.tools /\ ~in_call THEN held ELSE << >>
EndReason == IF row = "length" THEN "length" ELSE "stop"
SaysBut(missing, whole) ==
  /\ Trim(answer.content \o missing) = Trim(whole.content)
  /\ answer.calls = whole.calls
  /\ answer.finish = whole.finish
StreamAgrees ==
  reply # NoReply /\ reply.stream /\ answer.finish \notin {"none", "error"} =>
    /\ SaysBut(Unsent, Whole(sent, EndReason))
    /\ Unsent # << >> => IsStrictPrefix(Unsent, Marker)
    /\ answer.counted = IF row = "dead" THEN "none" ELSE "ok"

-----------------------------------------------------------------------------
(* What a comment of the source says, and the code does not do (see the README). *)

(* chat_stream, of what is held back when generation stopped: "everything     *)
(* before it was already flushed as content above", and what never became a   *)
(* call is sent "rather than silently dropping it". A stream that ends as     *)
(* every stream should has given its client all the text.                     *)
StreamSaysAll ==
  answer.counted = "ok" /\ reply.stream => Trim(answer.content) = Trim(Whole(sent, EndReason).content)

=============================================================================
