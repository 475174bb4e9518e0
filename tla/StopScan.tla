------------------------------ MODULE StopScan ------------------------------
(***************************************************************************)
(* split_at_stop of crates/server/src/stop.rs: how much of a buffer can be *)
(* sent when what follows may complete a stop sequence. The scheduler scans *)
(* for a request's stop strings with it and chat_stream for the marker of a *)
(* tool call. Texts and stop strings are sequences of characters.          *)
(***************************************************************************)
EXTENDS Integers, Sequences, SequencesExt

(* Where a string occurs in a text; nowhere, if it is empty. *)
Occurrences(text, s) ==
  { i \in 1 .. Len(text) : /\ s # << >> /\ i + Len(s) - 1 <= Len(text)
                           /\ SubSeq(text, i, i + Len(s) - 1) = s }

Found(pending, stops) == UNION { Occurrences(pending, s) : s \in stops }

EndsWith(text, n, s) == n <= Len(s) /\ SubSeq(text, Len(text) - n + 1, Len(text)) = SubSeq(s, 1, n)

(* Mutant of Held: a beginning of one character is let go. *)
HeldIfLonger(pending, stops) ==
  Max({0} \cup { n \in 2 .. Len(pending) : \E s \in stops : EndsWith(pending, n, s) })

(* The length of the longest end of the buffer that begins a stop string. *)
Held(pending, stops) ==
  Max({0} \cup { n \in 1 .. Len(pending) : \E s \in stops : EndsWith(pending, n, s) })

(* split_at_stop: Hit(len) or Release(len). *)
SplitAtStop(pending, stops) ==
  LET found == Found(pending, stops)
  IN  [ hit |-> found # {},
        len |-> IF found # {} THEN Min(found) - 1 ELSE Len(pending) - Held(pending, stops) ]

=============================================================================
