----------------------------- MODULE Tokenizer -----------------------------
(***************************************************************************)
(* Tokenizer::encode of crates/tokenizer/src/lib.rs, as the handlers of     *)
(* several requests call it at once: marks are cut out, what lies between   *)
(* them is split into pre-tokens, and a pre-token is a token itself, is in  *)
(* the cache they share, or is merged byte by byte and put there.           *)
(*                                                                         *)
(* A token is its piece, a sequence of characters of the byte-level         *)
(* alphabet. Three classes of characters stand for those of the pattern:    *)
(* letters, the space, and all others. Composing the text first (NFC) is    *)
(* left out. A mark is never a pre-token as a whole: the patterns split     *)
(* those of real vocabularies.                                             *)
(***************************************************************************)
EXTENDS StopScan, TLC

CONSTANTS
  Encoders,      \* calls of encode
  Vocabularies,  \* [merges, pieces, marks]
  EncodeAsks,    \* [text, bos, parse]
  Letters,
  Bos,
  LongestCached, \* characters of a pre-token that is kept
  NoAsk

VARIABLES
  vocabulary,    \* Tokenizer: bpe, piece_ids, specials
  cache,         \* Tokenizer::cache
  encoding       \* per call: what it asks, what is left to do, `out`, and whether it missed

tokenizervars == << vocabulary, cache, encoding >>

NoEncoding == [ask |-> NoAsk, todo |-> << >>, out |-> << >>, missed |-> FALSE]

TokenizerInit ==
  /\ vocabulary \in Vocabularies
  /\ cache = << >>
  /\ encoding = [e \in Encoders |-> NoEncoding]

-----------------------------------------------------------------------------
(* ByteLevel: a space is spelled with another character. Decoding turns it  *)
(* back, and leaves what it does not know, as in a mark, alone.             *)
Spelled(bytes) == [i \in DOMAIN bytes |-> IF bytes[i] = " " THEN "G" ELSE bytes[i]]
BytesOf(piece) == [i \in DOMAIN piece |-> IF piece[i] = "G" THEN " " ELSE piece[i]]

(* Bpe::new: a rule counts if its halves and its result are pieces, and the *)
(* first of two wins.                                                       *)
Pieces == vocabulary.pieces \cup vocabulary.marks
Merges == vocabulary.merges
RankOf(left, right) ==
  Min({Len(Merges) + 1} \cup { r \in DOMAIN Merges : Merges[r] = << left, right >> })
MayMerge(left, right) ==
  {left, right, left \o right} \subseteq Pieces /\ RankOf(left, right) \in DOMAIN Merges

(* Mutant of BestOf: `<=` where two pairs have the same rule. *)
BestOfLast(ranked) == Max({ i \in DOMAIN ranked : \A j \in DOMAIN ranked : ranked[i] <= ranked[j] })

(* Bpe::merge: the lowest rank, and the first pair that has it; until there *)
(* is none.                                                                 *)
BestOf(ranked) == Min({ i \in DOMAIN ranked : \A j \in DOMAIN ranked : ranked[i] <= ranked[j] })
MergeBest(ids) ==
  LET pairs == { i \in 1 .. Len(ids) - 1 : MayMerge(ids[i], ids[i + 1]) }
      best  == BestOf([i \in pairs |-> RankOf(ids[i], ids[i + 1])])
  IN  IF pairs = {} THEN ids
      ELSE SubSeq(ids, 1, best - 1) \o << ids[best] \o ids[best + 1] >> \o SubSeq(ids, best + 2, Len(ids))
Singles(piece) == [i \in DOMAIN piece |-> << piece[i] >>]
Merged(piece) == FoldLeft(LAMBDA ids, n : MergeBest(ids), Singles(piece), piece)

-----------------------------------------------------------------------------
(* The split, by the pattern's alternatives in order: letters with whatever *)
(* one character is before them; other characters with a space before them; *)
(* spaces, but for the last one when something follows.                     *)
Spaces == {" "}
LastOf(text, i, class) ==
  Max({i - 1} \cup { j \in i .. Len(text) : \A k \in i .. j : text[k] \in class })
LastOther(text, i) ==
  Max({i - 1} \cup { j \in i .. Len(text) : \A k \in i .. j : text[k] \notin Letters \cup Spaces })
SpaceEnd(text, i, last) == IF last < Len(text) /\ last > i THEN last - 1 ELSE last
PieceEnd(text, i) ==
  LET word   == LastOf(text, IF text[i] \in Letters THEN i ELSE i + 1, Letters)
      start  == IF text[i] = " " THEN i + 1 ELSE i
      others == LastOther(text, start)
  IN  IF text[i] \in Letters \/ word > i THEN word
      ELSE IF others >= start THEN others
      ELSE SpaceEnd(text, i, LastOf(text, i, Spaces))
SplitOf(text) ==
  LET from[i \in 1 .. Len(text) + 1] ==
        IF i > Len(text) THEN << >>
        ELSE << SubSeq(text, i, PieceEnd(text, i)) >> \o from[PieceEnd(text, i) + 1]
  IN  from[1]

(* next_special: the first mark, and of those that start there the longest. *)
MarksFrom(text, i) ==
  { << at, mark >> \in (i .. Len(text)) \X vocabulary.marks : at \in Occurrences(text, mark) }
FirstMark(found) ==
  CHOOSE m \in found : \A other \in found :
    m[1] < other[1] \/ (m[1] = other[1] /\ Len(m[2]) >= Len(other[2]))

OrdinaryWork(text) ==
  [i \in DOMAIN SplitOf(text) |-> [mark |-> FALSE, text |-> SplitOf(text)[i]]]
WorkOf(text) ==
  LET from[i \in 1 .. Len(text) + 1] ==
        LET found == MarksFrom(text, i)
            first == FirstMark(found)
        IN  IF found = {} THEN OrdinaryWork(SubSeq(text, i, Len(text)))
            ELSE OrdinaryWork(SubSeq(text, i, first[1] - 1))
                 \o << [mark |-> TRUE, text |-> first[2]] >> \o from[first[1] + Len(first[2])]
  IN  from[1]

-----------------------------------------------------------------------------
StartEncoding(e, ask) ==
  /\ encoding[e] = NoEncoding
  /\ encoding' = [encoding EXCEPT ![e] =
       [ ask |-> ask, missed |-> FALSE,
         todo |-> IF ask.parse THEN WorkOf(ask.text) ELSE OrdinaryWork(ask.text),
         out |-> IF ask.bos THEN << Bos >> ELSE << >> ]]
  /\ UNCHANGED << vocabulary, cache >>

NextWork(e) == Head(encoding[e].todo)
Outputs(e, ids) ==
  encoding' = [encoding EXCEPT ![e].todo = Tail(@), ![e].out = @ \o ids, ![e].missed = FALSE]
Looks(e) == encoding[e].todo # << >> /\ ~encoding[e].missed /\ UNCHANGED vocabulary

TakeMark(e) ==
  /\ Looks(e) /\ NextWork(e).mark
  /\ Outputs(e, << NextWork(e).text >>) /\ UNCHANGED cache

(* encode_pretoken: a token as a whole; or in the cache; or not, and then   *)
(* it is merged and stored without the lock that was held for the look.     *)
TakeWhole(e) ==
  /\ Looks(e) /\ ~NextWork(e).mark /\ Spelled(NextWork(e).text) \in Pieces
  /\ Outputs(e, << Spelled(NextWork(e).text) >>) /\ UNCHANGED cache
Lookup(e) ==
  /\ Looks(e) /\ ~NextWork(e).mark /\ Spelled(NextWork(e).text) \notin Pieces
  /\ UNCHANGED cache
  /\ LET piece == Spelled(NextWork(e).text)
     IN  IF piece \in DOMAIN cache THEN Outputs(e, cache[piece])
         ELSE encoding' = [encoding EXCEPT ![e].missed = TRUE]
MergeAndStore(e) ==
  /\ encoding[e].missed
  /\ LET piece == Spelled(NextWork(e).text)
     IN  /\ Outputs(e, Merged(piece))
         /\ cache' = IF Len(piece) <= LongestCached THEN piece :> Merged(piece) @@ cache ELSE cache
  /\ UNCHANGED vocabulary

TokenizerNext ==
  \E e \in Encoders :
    \/ \E ask \in EncodeAsks : StartEncoding(e, ask)
    \/ TakeMark(e) \/ TakeWhole(e) \/ Lookup(e) \/ MergeAndStore(e)

TokenizerSpec == TokenizerInit /\ [][TokenizerNext]_tokenizervars

-----------------------------------------------------------------------------
(* Byte-pair encoding as it is defined: the rules in the order of the file,  *)
(* each along the whole word from the left.                                 *)
ApplyRule(ids, rule) ==
  FoldLeft(LAMBDA done, id : IF done # << >> /\ << Last(done), id >> = rule /\ MayMerge(rule[1], rule[2])
                             THEN Append(Front(done), Last(done) \o id) ELSE Append(done, id),
           << >>, ids)
InOrderOfRules(piece) == FoldLeft(ApplyRule, Singles(piece), Merges)

OrdinaryTokens(text) ==
  FlattenSeq([i \in DOMAIN SplitOf(text) |-> InOrderOfRules(Spelled(SplitOf(text)[i]))])
TextOf(tokens) == FlattenSeq([i \in DOMAIN tokens |-> BytesOf(tokens[i])])

(* What a finished call returns, without the BOS token: where in the text a  *)
(* token starts, and which of them are marks.                               *)
Returned(e) == IF encoding[e].ask.bos THEN Tail(encoding[e].out) ELSE encoding[e].out
StartOf(tokens, i) == 1 + Len(TextOf(SubSeq(tokens, 1, i - 1)))
MarksIn(tokens) == { i \in DOMAIN tokens : tokens[i] \in vocabulary.marks }

(* Every mark of the text is a token, unless one that starts before it, or  *)
(* a longer one that starts with it, covers its beginning.                  *)
MarksAreTokens(text, tokens) ==
  \A mark \in vocabulary.marks : \A at \in Occurrences(text, mark) :
    \E i \in MarksIn(tokens) :
      LET start == StartOf(tokens, i)
      IN  start <= at /\ at < start + Len(tokens[i]) /\ (start = at => Len(tokens[i]) >= Len(mark))
RunsAreEncoded(tokens) ==
  LET ends == MarksIn(tokens) \cup {0, Len(tokens) + 1}
  IN  \A i, j \in ends : i < j /\ (\A k \in ends : k <= i \/ j <= k) =>
        LET run == SubSeq(tokens, i + 1, j - 1) IN run = OrdinaryTokens(TextOf(run))

(* However calls share the cache, what each returns is the text it was given *)
(* and nothing else, cut as the vocabulary defines: the marks it was asked  *)
(* to see, and between them the words merged rule by rule.                  *)
EncodesAsDefined ==
  \A e \in Encoders :
    LET ask == encoding[e].ask
    IN  ask # NoAsk /\ encoding[e].todo = << >> =>
          /\ TextOf(Returned(e)) = ask.text
          /\ IF ask.parse THEN MarksAreTokens(ask.text, Returned(e)) ELSE MarksIn(Returned(e)) = {}
          /\ RunsAreEncoded(Returned(e))

=============================================================================
