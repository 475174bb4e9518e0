----------------------------- MODULE ToolCalls -----------------------------
(***************************************************************************)
(* crates/server/src/tool_call.rs: the tool calls in a generated text.     *)
(*                                                                         *)
(* A text is a sequence of characters; a tag counts as one, except the     *)
(* opening <tool_call>, which arrives in two pieces, and the two tags that *)
(* carry a name, which end in ">" as they do in the text. A name is one     *)
(* member of a set, so no tag is ever part of one.                         *)
(***************************************************************************)
EXTENDS StopScan

Marker == << "<tool", "_call>" >>
Blank(text) == \A i \in DOMAIN text : text[i] = " "
Trim(text) ==
  LET kept == { i \in DOMAIN text : text[i] # " " }
  IN  IF kept = {} THEN << >> ELSE SubSeq(text, Min(kept), Max(kept))

(* str::find from a position on, or past the end of the text. *)
Find(text, start, tag) ==
  LET at == { i \in start .. Len(text) : text[i] = tag }
  IN  IF at = {} THEN Len(text) + 1 ELSE Min(at)
Missing(text, i) == i > Len(text)
Between(text, i, j) == SubSeq(text, i, j - 1)

-----------------------------------------------------------------------------
(* coerce: a value is read as its parameter's declared type says, and is a  *)
(* string when it cannot be. Digits are "1", and "True" any spelling of it. *)
Coerce(type, raw) ==
  LET reads == \/ type \in {"integer", "number"} /\ raw # << >> /\ \A i \in DOMAIN raw : raw[i] = "1"
               \/ type = "boolean" /\ raw = << "True" >>
  IN  [json |-> IF reads THEN type ELSE "string", raw |-> raw]

Unparsed == [ok |-> FALSE, params |-> << >>, next |-> 0]

(* A parameter whose tag, name and value end at these places, before `rest`. *)
WithParam(text, open, named, ended, rest) ==
  [ ok |-> rest.ok, next |-> rest.next,
    params |-> << << Between(text, open + 1, named), Trim(Between(text, named + 1, ended)) >> >> \o rest.params ]

(* The parameters of a function block from `start` on, with only blanks     *)
(* between them, up to the tag that closes it. `from` is what comes after.  *)
Named(text, open) == Find(text, open + 1, ">")
Ended(text, open) == Find(text, Named(text, open) + 1, "</parameter>")
Closed(text, pos, close) == ~Missing(text, close) /\ Blank(Between(text, pos, close))
Opened(text, pos, open) == ~Missing(text, Ended(text, open)) /\ Blank(Between(text, pos, open))
ParamsAt(text, pos, close, open, from) ==
  IF Closed(text, pos, close) THEN [ok |-> TRUE, params |-> << >>, next |-> close + 1]
  ELSE IF ~Opened(text, pos, open) THEN Unparsed
  ELSE WithParam(text, open, Named(text, open), Ended(text, open), from[Ended(text, open) + 1])
Params(text, start) ==
  LET from[pos \in start .. Len(text) + 1] ==
        ParamsAt(text, pos, Find(text, pos, "</function>"), Find(text, pos, "<parameter="), from)
  IN  from[start]

(* parse_function: the block whose "<function=" is at `open`. *)
FunctionName(text, open) == Between(text, open + 1, Named(text, open))
ParseFunction(text, open) ==
  IF Missing(text, Named(text, open)) THEN Unparsed ELSE Params(text, Named(text, open) + 1)

(* One call as it is reported: obj.insert keeps the last of two values. *)
Value(block, p) == block.params[Max({ i \in DOMAIN block.params : block.params[i][1] = p })][2]
Type(types, key) == IF key \in DOMAIN types THEN types[key] ELSE "string"
Call(name, block, types) ==
  [ name |-> name,
    arguments |-> [p \in { block.params[i][1] : i \in DOMAIN block.params } |->
                     Coerce(Type(types, << name, p >>), Value(block, p))] ]

(* A block counts when all its tags are there and only blanks between them. *)
Complete(text, body, func, block, close) ==
  /\ ~Missing(text, func) /\ Blank(Between(text, body, func))
  /\ block.ok
  /\ ~Missing(text, close) /\ Blank(Between(text, block.next, close))

(* scan: the text before the first marker, and the calls from there on, up  *)
(* to the first one that is not complete. `from` is what comes after.       *)
CallAt(text, types, body, func, block, close, from) ==
  IF ~Complete(text, body, func, block, close) THEN [calls |-> << >>, truncated |-> TRUE]
  ELSE [ calls |-> << Call(FunctionName(text, func), block, types) >> \o from[close + 1].calls,
         truncated |-> from[close + 1].truncated ]
BlockAt(text, types, body, func, block, from) ==
  CallAt(text, types, body, func, block, Find(text, block.next, "</tool_call>"), from)
BodyAt(text, types, body, func, from) ==
  BlockAt(text, types, body, func, ParseFunction(text, func), from)

CallsFrom(text, types, opens, from) ==
  IF opens = {} THEN [calls |-> << >>, truncated |-> FALSE]
  ELSE LET body == Min(opens) + Len(Marker)
       IN  BodyAt(text, types, body, Find(text, body, "<function="), from)

First(text, at) == IF at = {} THEN Len(text) + 1 ELSE Min(at)
Scan(text, types) ==
  LET markers == Occurrences(text, Marker)
      from[cursor \in 1 .. Len(text) + 1] ==
        CallsFrom(text, types, { i \in markers : i >= cursor }, from)
      rest == from[First(text, markers)]
  IN  [ leading |-> Trim(SubSeq(text, 1, First(text, markers) - 1)),
        calls |-> rest.calls, truncated |-> rest.truncated ]

=============================================================================
