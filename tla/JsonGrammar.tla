---------------------------- MODULE JsonGrammar ----------------------------
(***************************************************************************)
(* Constrained generation: the cursor of crates/model/src/json_grammar.rs   *)
(* and the loop of crates/model/src/constrained.rs that lets it choose      *)
(* which tokens may be sampled.                                            *)
(*                                                                         *)
(* The cursor is a stack of frames. A byte is given to the top one, which   *)
(* rejects it, consumes it, or hands it on to the frames that take its      *)
(* place. Where only "none yet" and "some" of a count matters, it is a flag.*)
(* That the sampler picks a token that was not masked is assumed.           *)
(***************************************************************************)
EXTENDS JsonDocuments

CONSTANTS
  Jobs,         \* [schema, prompt, max_tokens]; prompt is its length
  Vocabulary,   \* the tokens, sequences of bytes
  Samples,      \* texts to try the cursor with
  Context,      \* max_seq
  NoJob

(* Every byte can be sampled by itself, as in a byte-level vocabulary. *)
ASSUME ByteTokens == \A token \in Vocabulary : \A i \in DOMAIN token : << token[i] >> \in Vocabulary

VARIABLES
  job,
  cursor,       \* Cursor::stack
  text,         \* bytes of the tokens so far
  generated,    \* their number
  remaining,    \* Session::remaining
  phase         \* "idle", "running", "done", "failed"

jsonvars == << job, cursor, text, generated, remaining, phase >>

-----------------------------------------------------------------------------
ValueFrame(schema) == [frame |-> "value", schema |-> schema]
ObjectFrame(schema) ==
  [frame |-> "object", schema |-> schema, used |-> {}, sub |-> "before_key", candidates |-> {}, matched |-> 0]
ArrayFrame(items) == [frame |-> "array", items |-> items, sub |-> "empty"]
StringFrame(free, candidates) ==
  [frame |-> "string", free |-> free, candidates |-> candidates, matched |-> 0, escaped |-> FALSE]
NumberFrame(fraction) ==
  [frame |-> "number", fraction |-> fraction, sign |-> FALSE, digits |-> FALSE,
   zero |-> FALSE, dot |-> FALSE, decimals |-> FALSE]
LiteralFrame(rest) == [frame |-> "literal", rest |-> rest]

(* Step: what becomes of the byte, and of the frame it was given to. *)
Consumed(frames) == [act |-> "consumed", frames |-> frames]
Retried(frames) == [act |-> "retried", frames |-> frames]
Rejected == [act |-> "rejected", frames |-> << >>]

(* value_step *)
ValueStep(f, schema, b) ==
  CASE b = " " -> Consumed(<< f >>)
    [] schema.type = "object" /\ b = "{" -> Consumed(<< ObjectFrame(schema) >>)
    [] schema.type = "array" /\ b = "[" -> Consumed(<< ArrayFrame(schema.items) >>)
    [] schema.type \in {"string", "any"} /\ b = Quote -> Consumed(<< StringFrame(TRUE, {}) >>)
    [] schema.type = "enum" /\ b = Quote -> Consumed(<< StringFrame(FALSE, schema.values) >>)
    [] schema.type \in {"number", "integer"} /\ b \in Digits \cup {"-"} ->
         Retried(<< NumberFrame(schema.type = "number") >>)
    [] schema.type = "boolean" /\ b = "t" -> Retried(<< LiteralFrame(<< "t", "rue" >>) >>)
    [] schema.type = "boolean" /\ b = "f" -> Retried(<< LiteralFrame(<< "f", "alse" >>) >>)
    [] OTHER -> Rejected

(* Words with byte b behind the part that matched: what is left of candidates. *)
Continues(word, n, b) == n < Len(word) /\ word[n + 1] = b

(* Mutant of MayClose: an object may be closed at any time. *)
MayCloseAlways(f) == TRUE

(* `}` is allowed once every required property was given. *)
MayClose(f) == f.schema.required \subseteq Names(f.schema, f.used)

Unused(f) == DOMAIN f.schema.properties \ f.used

(* Mutant of Finished: a key is only known when one candidate is left. *)
FinishedAlone(f) == IF Cardinality(f.candidates) = 1
                    THEN { i \in f.candidates : Len(NameOf(f.schema, i)) = f.matched } ELSE {}

(* The property whose name was just completed. *)
Finished(f) == { i \in f.candidates : Len(NameOf(f.schema, i)) = f.matched }

(* Mutant of KeyStep: the property is not marked as used. *)
KeyStepUnmarked(f, b) ==
  LET left == { i \in f.candidates : Continues(NameOf(f.schema, i), f.matched, b) }
  IN  CASE b = Quote /\ Finished(f) # {} -> Consumed(<< [f EXCEPT !.sub = "after_key", !.candidates = Finished(f)] >>)
        [] b # Quote /\ left # {} -> Consumed(<< [f EXCEPT !.candidates = left, !.matched = @ + 1] >>)
        [] OTHER -> Rejected

(* InKey: the name is matched against the properties that were not given yet. *)
KeyStep(f, b) ==
  LET left == { i \in f.candidates : Continues(NameOf(f.schema, i), f.matched, b) }
  IN  CASE b = Quote /\ Finished(f) # {} ->
             Consumed(<< [f EXCEPT !.sub = "after_key", !.used = @ \cup Finished(f), !.candidates = Finished(f)] >>)
        [] b # Quote /\ left # {} -> Consumed(<< [f EXCEPT !.candidates = left, !.matched = @ + 1] >>)
        [] OTHER -> Rejected

(* object_step *)
ObjectStep(f, b) ==
  CASE f.sub = "in_key" -> KeyStep(f, b)
    [] b = " " -> Consumed(<< f >>)
    [] f.sub = "before_key" /\ b = Quote /\ Unused(f) # {} ->
         Consumed(<< [f EXCEPT !.sub = "in_key", !.candidates = Unused(f), !.matched = 0] >>)
    [] f.sub = "after_key" /\ b = ":" ->
         LET property == f.schema.properties[CHOOSE i \in f.candidates : TRUE]
         IN  Consumed(<< [f EXCEPT !.sub = "after_value"], ValueFrame(property.schema) >>)
    [] f.sub = "after_value" /\ b = "," /\ Unused(f) # {} -> Consumed(<< [f EXCEPT !.sub = "before_key"] >>)
    [] f.sub \in {"before_key", "after_value"} /\ b = "}" /\ MayClose(f) -> Consumed(<< >>)
    [] OTHER -> Rejected

(* array_step: an item's first byte is the item's own. *)
ArrayStep(f, b) ==
  CASE b = " " -> Consumed(<< f >>)
    [] f.sub \in {"empty", "after_item"} /\ b = "]" -> Consumed(<< >>)
    [] f.sub \in {"empty", "need_item"} -> Retried(<< [f EXCEPT !.sub = "after_item"], ValueFrame(f.items) >>)
    [] f.sub = "after_item" /\ b = "," -> Consumed(<< [f EXCEPT !.sub = "need_item"] >>)
    [] OTHER -> Rejected

(* str_step: free, or one of the candidates and then without escapes. *)
StringStep(f, b) ==
  LET left == { w \in f.candidates : Continues(w, f.matched, b) }
  IN  CASE f.free /\ f.escaped -> Consumed(<< [f EXCEPT !.escaped = FALSE] >>)
        [] f.free /\ b = Backslash -> Consumed(<< [f EXCEPT !.escaped = TRUE] >>)
        [] b = Quote /\ (f.free \/ \E w \in f.candidates : Len(w) = f.matched) -> Consumed(<< >>)
        [] f.free -> Consumed(<< f >>)
        [] b \notin {Quote, Backslash} /\ left # {} ->
             Consumed(<< [f EXCEPT !.candidates = left, !.matched = @ + 1] >>)
        [] OTHER -> Rejected

CanStopNumber(f) == IF f.dot THEN f.decimals ELSE f.digits

(* num_step: a number ends at the first byte that is not its own. *)
NumberStep(f, b) ==
  CASE b = "-" /\ ~f.sign -> Consumed(<< [f EXCEPT !.sign = TRUE] >>)
    [] b \in Digits /\ f.dot -> Consumed(<< [f EXCEPT !.decimals = TRUE] >>)
    [] b \in Digits /\ ~f.dot /\ ~f.zero ->
         Consumed(<< [f EXCEPT !.sign = TRUE, !.digits = TRUE, !.zero = ~f.digits /\ b = "0"] >>)
    [] b = "." /\ ~f.dot /\ f.fraction /\ f.digits -> Consumed(<< [f EXCEPT !.dot = TRUE] >>)
    [] b \notin Digits /\ CanStopNumber(f) -> Retried(<< >>)
    [] OTHER -> Rejected

(* literal_step *)
LiteralStep(f, b) ==
  CASE f.rest = << >> -> Retried(<< >>)
    [] f.rest # << >> /\ Head(f.rest) = b -> Consumed(<< [f EXCEPT !.rest = Tail(@)] >>)
    [] OTHER -> Rejected

StepOf(f, b) ==
  CASE f.frame = "value"   -> ValueStep(f, f.schema, b)
    [] f.frame = "object"  -> ObjectStep(f, b)
    [] f.frame = "array"   -> ArrayStep(f, b)
    [] f.frame = "string"  -> StringStep(f, b)
    [] f.frame = "number"  -> NumberStep(f, b)
    [] f.frame = "literal" -> LiteralStep(f, b)

(* feed: behind the value only blanks. A stack that rejected is not used again. *)
RECURSIVE Feed(_, _), Handed(_, _, _)
Handed(step, below, b) ==
  CASE step.act = "rejected" -> [ok |-> FALSE, stack |-> below]
    [] step.act = "consumed" -> [ok |-> TRUE, stack |-> below \o step.frames]
    [] step.act = "retried"  -> Feed(below \o step.frames, b)
Feed(stack, b) ==
  IF stack = << >> THEN [ok |-> b = " ", stack |-> stack]
  ELSE Handed(StepOf(Last(stack), b), Front(stack), b)

FeedAll(stack, bytes) ==
  FoldLeft(LAMBDA fed, b : IF fed.ok THEN Feed(fed.stack, b) ELSE fed, [ok |-> TRUE, stack |-> stack], bytes)
Accepts(stack, bytes) == FeedAll(stack, bytes).ok

CanStop(f) ==
  \/ f.frame = "number" /\ CanStopNumber(f)
  \/ f.frame = "literal" /\ f.rest = << >>
IsComplete(stack) == stack = << >> \/ (Len(stack) = 1 /\ CanStop(stack[1]))

-----------------------------------------------------------------------------
(* generate_json *)
JsonInit ==
  /\ job = NoJob /\ phase = "idle"
  /\ cursor = << >> /\ text = << >> /\ generated = 0 /\ remaining = 0

(* A session of its own, and the prompt in one pass, if it fits. *)
Begin(j) ==
  /\ phase = "idle"
  /\ job' = j
  /\ cursor' = << ValueFrame(j.schema) >>
  /\ \/ j.prompt \in 1 .. Context /\ phase' = "running" /\ remaining' = Context - j.prompt
     \/ phase' = "failed" /\ UNCHANGED remaining
  /\ UNCHANGED << text, generated >>

(* The loop stops when the value is complete, between two tokens. *)
Ready == phase = "running" /\ ~IsComplete(cursor)

(* Any token whose bytes are all accepted may be sampled. *)
Sample(token) ==
  /\ Ready /\ generated < job.max_tokens /\ remaining > 0
  /\ Accepts(cursor, token)
  /\ cursor' = FeedAll(cursor, token).stack
  /\ text' = text \o token
  /\ generated' = generated + 1
  /\ remaining' = remaining - 1
  /\ UNCHANGED << job, phase >>

(* Out of tokens or out of context; or the device failed. *)
GiveUp ==
  /\ phase = "running"
  /\ phase' = "failed"
  /\ UNCHANGED << job, cursor, text, generated, remaining >>

RootClosed ==
  /\ phase = "running" /\ IsComplete(cursor)
  /\ phase' = "done"
  /\ UNCHANGED << job, cursor, text, generated, remaining >>

JsonNext ==
  \/ \E j \in Jobs : Begin(j)
  \/ \E token \in Vocabulary : Sample(token)
  \/ GiveUp \/ RootClosed

JsonSpec == JsonInit /\ [][JsonNext]_jsonvars

-----------------------------------------------------------------------------
(* What closes a text: the shortest value of a schema, the members an        *)
(* object still needs (`pre` is the comma before the first), and what is    *)
(* left of each frame.                                                      *)
RECURSIVE Least(_), Members(_, _, _)
Least(schema) ==
  CASE schema.type = "object"  -> << "{" >> \o Members(schema, {}, << >>) \o << "}" >>
    [] schema.type = "array"   -> << "[", "]" >>
    [] schema.type = "enum"    -> Quoted(CHOOSE v \in schema.values : TRUE)
    [] schema.type = "boolean" -> << "t", "rue" >>
    [] schema.type \in {"integer", "number"} -> << "0" >>
    [] schema.type \in {"string", "any"} -> Quoted(<< >>)
Members(schema, used, pre) ==
  LET missing == { i \in DOMAIN schema.properties \ used : NameOf(schema, i) \in schema.required }
      next    == Min(missing)
  IN  IF missing = {} THEN << >>
      ELSE pre \o Quoted(NameOf(schema, next)) \o << ":" >> \o Least(schema.properties[next].schema)
           \o Members(schema, used \cup {next}, << "," >>)

RestOf(word, n) == SubSeq(word, n + 1, Len(word)) \o << Quote >>
MembersLeft(f, pre) == Members(f.schema, f.used, pre) \o << "}" >>
Given(f, i) == [f EXCEPT !.used = @ \cup {i}]
ValueOf(f, i) == << ":" >> \o Least(f.schema.properties[i].schema) \o MembersLeft(Given(f, i), << "," >>)

(* Behind a comma there has to be another member, one that is required first. *)
Wanting(f) == { i \in Unused(f) : NameOf(f.schema, i) \in f.schema.required }
Another(f, wanting) ==
  LET i == Min(IF wanting # {} THEN wanting ELSE Unused(f))
  IN  Quoted(NameOf(f.schema, i)) \o ValueOf(f, i)
CloseObject(f, i) ==
  CASE f.sub = "before_key"  -> IF f.used = {} THEN MembersLeft(f, << >>) ELSE Another(f, Wanting(f))
    [] f.sub = "in_key"      -> RestOf(NameOf(f.schema, i), f.matched) \o ValueOf(f, i)
    [] f.sub = "after_key"   -> ValueOf(f, i)
    [] f.sub = "after_value" -> MembersLeft(f, << "," >>)
CloseFrame(f) ==
  CASE f.frame = "value"   -> Least(f.schema)
    [] f.frame = "object"  -> CloseObject(f, CHOOSE i \in f.candidates \cup {0} : i = 0 => f.candidates = {})
    [] f.frame = "array"   -> (IF f.sub = "need_item" THEN Least(f.items) ELSE << >>) \o << "]" >>
    [] f.frame = "string"  -> (IF f.escaped THEN << Quote >> ELSE << >>)
                              \o IF f.free THEN << Quote >> ELSE RestOf(CHOOSE w \in f.candidates : TRUE, f.matched)
    [] f.frame = "number"  -> IF CanStopNumber(f) THEN << >> ELSE << "0" >>
    [] f.frame = "literal" -> f.rest
Closing == FoldLeft(LAMBDA rest, f : CloseFrame(f) \o rest, << >>, cursor)

-----------------------------------------------------------------------------
(* Where the cursor takes what is not JSON: a comma before a closing brace,  *)
(* and in a string a byte behind a backslash that is no escape, or a control *)
(* byte. `Mended` is the text without these commas and with another byte in  *)
(* place of these, so that all the rest of it can be held to JSON.           *)
InString(t, i) == Cardinality({ j \in 1 .. i - 1 : t[j] = Quote /\ ~Escaped(t, 1, j) }) % 2 = 1
Dangling(t, i) == t[i] = "," /\ ~InString(t, i) /\ HasAt(t, Skip(t, i + 1), << "}" >>)
Mended(t) ==
  FlattenSeq([ i \in DOMAIN t |->
    IF Dangling(t, i) THEN << >>
    ELSE IF InString(t, i) /\ ~StandsFor(t, 1, i) THEN << "b" >> ELSE << t[i] >> ])

(* But for these, what generate_json returns is a document of the schema,    *)
(* however the tokens cut it: every bracket closed, every required property  *)
(* there, no name twice, each value of its type.                             *)
FollowsSchema == phase = "done" => IsDocument(job.schema, Mended(text))

(* The mask never takes away what the schema allows: a document the text is *)
(* the beginning of can still be finished byte by byte.                     *)
AcceptsDocuments ==
  phase = "running" =>
    \A d \in { s \in Samples : IsStrictPrefix(text, s) /\ IsDocument(job.schema, s) } :
      Accepts(cursor, SubSeq(d, Len(text) + 1, Len(d)))

(* Generation is never led into a dead end: what closes the text is accepted,*)
(* completes the value, and adds nothing that is not JSON; what was there     *)
(* already is mended. (A schema whose required properties are not among its  *)
(* properties, or with an empty enum, is a dead end.)                        *)
CompletesAs(fed, closed) ==
  fed.ok /\ IsComplete(fed.stack) /\ IsDocument(job.schema, Mended(text) \o closed)
Closable ==
  phase = "running" => CompletesAs(FeedAll(cursor, Closing), Closing)

-----------------------------------------------------------------------------
(* What comments of the source say, and the code does not do (see the README). *)

(* json_grammar.rs: each byte keeps "the output a valid prefix of *some*      *)
(* string that both parses as JSON and satisfies the schema", and so what is  *)
(* returned is such a string.                                                 *)
OutputIsJson == phase = "done" => IsDocument(job.schema, text)

=============================================================================
