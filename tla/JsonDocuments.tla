--------------------------- MODULE JsonDocuments ---------------------------
(***************************************************************************)
(* What a JSON document of a schema is: the definition the byte-level       *)
(* cursor of JsonGrammar is checked against. It is JSON's definition (RFC   *)
(* 8259) and not the cursor's: a comma is followed by a member or an item,  *)
(* a backslash in a string by one of the escapes, and a control byte does   *)
(* not stand in a string as it is.                                          *)
(*                                                                         *)
(* A text is a sequence of bytes. "rue" and "alse" count as one each; " "    *)
(* is a space in a string and any blank elsewhere; "CTL" is a control byte. *)
(* Without hex digits, the escape by number is left out.                    *)
(***************************************************************************)
EXTENDS Integers, Sequences, SequencesExt

Quote == "\""
Backslash == "\\"
Control == "CTL"
Digits == {"0", "1"}
Escapes == {Quote, Backslash, "/", "b", "f", "n", "r", "rue", "t"}
Quoted(name) == << Quote >> \o name \o << Quote >>

(* A schema; `required` names properties, `values` are an enum's. *)
ObjectOf(properties, required) == [type |-> "object", properties |-> properties, required |-> required]
ArrayOf(items) == [type |-> "array", items |-> items]
EnumOf(values) == [type |-> "enum", values |-> values]
Typed(type) == [type |-> type]
Property(name, schema) == [name |-> name, schema |-> schema]

NameOf(schema, i) == schema.properties[i].name
Names(schema, used) == { NameOf(schema, i) : i \in used }

-----------------------------------------------------------------------------
Skip(text, i) == Min({ j \in i .. Len(text) + 1 : j > Len(text) \/ text[j] # " " })
HasAt(text, i, word) ==
  i + Len(word) - 1 <= Len(text) /\ SubSeq(text, i, i + Len(word) - 1) = word
EndsOf(text, i, words) == { i + Len(word) : word \in { w \in words : HasAt(text, i, w) } }

(* Digits without a leading zero, and at least one digit behind a point. *)
IsWhole(s) == s # << >> /\ (\A i \in DOMAIN s : s[i] \in Digits) /\ (s[1] = "0" => Len(s) = 1)
Fraction(s) == \E p \in 2 .. Len(s) - 1 :
  /\ s[p] = "." /\ IsWhole(SubSeq(s, 1, p - 1))
  /\ \A i \in p + 1 .. Len(s) : s[i] \in Digits
IsNumber(s, fraction) ==
  LET unsigned == IF s # << >> /\ Head(s) = "-" THEN Tail(s) ELSE s
  IN  IsWhole(unsigned) \/ (fraction /\ Fraction(unsigned))
NumberEnds(text, i, fraction) ==
  { j \in i .. Len(text) + 1 : IsNumber(SubSeq(text, i, j - 1), fraction) }

(* A quote closes a string unless the backslashes before it are odd in number; *)
(* so counted, a byte behind a backslash is escaped.                           *)
Escaped(text, i, j) ==
  LET escapes == { k \in i .. j - 1 : \A n \in k .. j - 1 : text[n] = Backslash }
  IN  Cardinality(escapes) % 2 = 1
StandsFor(text, i, j) ==
  text[j] # Control /\ (Escaped(text, i, j) => text[j] \in Escapes)
StringEnds(text, i) ==
  LET closes == { j \in i + 1 .. Len(text) : text[j] = Quote /\ ~Escaped(text, i + 1, j) }
  IN  { j + 1 : j \in { c \in closes :
          /\ HasAt(text, i, << Quote >>) /\ \A other \in closes : c <= other
          /\ \A n \in i + 1 .. c - 1 : StandsFor(text, i + 1, n) } }

(* The brace of an object that was given these names. *)
Closes(schema, text, i, names) ==
  IF schema.required \subseteq Names(schema, names) THEN EndsOf(text, i, {<< "}" >>}) ELSE {}

(* The places where a value that begins at i may end, and the rest of a list *)
(* from an item or a member on; a list of members knows its names so far.    *)
RECURSIVE ValueEnds(_, _, _), ItemEnds(_, _, _), MemberEnds(_, _, _, _)

ValueEnds(schema, text, i) ==
  CASE schema.type \in {"string", "any"} -> StringEnds(text, i)
    [] schema.type = "enum"    -> EndsOf(text, i, { Quoted(v) : v \in schema.values })
    [] schema.type = "boolean" -> EndsOf(text, i, {<< "t", "rue" >>, << "f", "alse" >>})
    [] schema.type \in {"integer", "number"} -> NumberEnds(text, i, schema.type = "number")
    [] schema.type = "array"   ->
         LET open == Skip(text, i + 1)
         IN  IF ~HasAt(text, i, << "[" >>) THEN {}
             ELSE EndsOf(text, open, {<< "]" >>}) \cup ItemEnds(schema, text, open)
    [] schema.type = "object"  ->
         LET open == Skip(text, i + 1)
         IN  IF ~HasAt(text, i, << "{" >>) THEN {}
             ELSE Closes(schema, text, open, {}) \cup MemberEnds(schema, text, open, {})

ItemEnds(schema, text, i) ==
  UNION { LET next == Skip(text, j)
          IN  EndsOf(text, next, {<< "]" >>})
              \cup IF HasAt(text, next, << "," >>) THEN ItemEnds(schema, text, Skip(text, next + 1)) ELSE {}
        : j \in ValueEnds(schema.items, text, i) }

MemberEnds(schema, text, i, used) ==
  LET named(p)  == Skip(text, i + Len(NameOf(schema, p)) + 2)
      values(p) == IF HasAt(text, i, Quoted(NameOf(schema, p))) /\ HasAt(text, named(p), << ":" >>)
                   THEN ValueEnds(schema.properties[p].schema, text, Skip(text, named(p) + 1)) ELSE {}
      behind(k, names) ==
        Closes(schema, text, k, names)
          \cup IF HasAt(text, k, << "," >>) THEN MemberEnds(schema, text, Skip(text, k + 1), names) ELSE {}
  IN  UNION { UNION { behind(Skip(text, j), used \cup {p}) : j \in values(p) }
            : p \in DOMAIN schema.properties \ used }

IsDocument(schema, text) ==
  \E j \in ValueEnds(schema, text, Skip(text, 1)) : Skip(text, j) > Len(text)

=============================================================================
