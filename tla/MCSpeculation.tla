---------------------------- MODULE MCSpeculation ----------------------------
(***************************************************************************)
(* Two rows and seven slots for two requests, drafts of up to two tokens,  *)
(* three token rows a pass. One request samples; the other is greedy, is    *)
(* never drafted, and its prompt is cut in two by a pass that also verifies.*)
(* Token 1 completes a stop string. What may follow a text depends on all   *)
(* of it.                                                                   *)
(***************************************************************************)
EXTENDS Speculation

MCTokens == 0 .. 2
MCEog == 2
MCStops == { 1 }
MCAsks == { [ prompt |-> << 0 >>, max_tokens |-> 4, greedy |-> FALSE ],
            [ prompt |-> << 1, 0 >>, max_tokens |-> 2, greedy |-> TRUE ] }

MCSupport(text) ==
  LET weight == FoldLeft(LAMBDA sum, t : (3 * sum + t) % 5, 1, text)
  IN  CASE weight \in {0, 1} -> {0}
        [] weight = 2 -> {0, 1}
        [] weight = 3 -> {0, 2}
        [] OTHER -> {0}

=============================================================================
