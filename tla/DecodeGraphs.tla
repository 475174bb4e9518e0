---------------------------- MODULE DecodeGraphs ----------------------------
(***************************************************************************)
(* The captured decode graphs of crates/model/src/lib.rs: forward_batch_rows *)
(* records the launches of a pass's layers once and replays them for every   *)
(* later pass it takes to be of the same shape.                              *)
(*                                                                           *)
(* A replay repeats the launches with the parameters they were recorded with. *)
(* What a kernel reads from device memory - token ids, positions, slots, the *)
(* per-row layout - is uploaded anew for each pass and is right by itself;    *)
(* what went into the launch as a number or a pointer has to be determined by *)
(* the key the graph is found under. `Launch` is the part that goes in.       *)
(*                                                                           *)
(* Modelled for CUDA without offloaded layers and without a quantized KV      *)
(* cache, with mixed batches split or not.                                    *)
(***************************************************************************)
EXTENDS Naturals, Sequences, FiniteSets, FiniteSetsExt

CONSTANTS
  GraphPasses,    \* passes the scheduler may run: [pool, items], an item being
                  \*   [id, kind, from, len] with kind "prompt" (no logits), "last"
                  \*   (of a prompt: one row of them), "token" (one row) or
                  \*   "verify" (one per candidate); the latter two are decodes
  SplitMixedBatch,  \* Model::split_mixed_batch
  KvBucket,       \* graph_kv_bucket()
  LongestKv,      \* max_seq
  MinPrefillRun,  \* MIN_PREFILL_RUN
  GraphCap,       \* graph_cache_cap()
  MaxOrphans,     \* bound: ticks without a slot that failed passes leave at a time
  NoPass

Reach(item) == item.from + item.len

ASSUME GraphSizes ==
  /\ KvBucket \in Nat \ {0} /\ LongestKv \in Nat /\ SplitMixedBatch \in BOOLEAN
  /\ MinPrefillRun \in Nat \ {0} /\ GraphCap \in Nat \ {0} /\ MaxOrphans \in Nat
  /\ NoPass \notin GraphPasses
  /\ \A p \in GraphPasses : \A i \in DOMAIN p.items :
       /\ p.items[i].len \in Nat /\ p.items[i].from \in Nat
       /\ Reach(p.items[i]) <= LongestKv

VARIABLES
  warm,     \* keys of GraphSlot::Warm
  graph,    \* keys of GraphSlot::Ready, and the launch each was recorded with
  recent,   \* graph_last_used: its keys by their tick, the oldest first
  pass,     \* the last pass that ran ...
  with      \* ... and the launch its layers ran with

graphvars == << warm, graph, recent, pass, with >>

-----------------------------------------------------------------------------
Items(p) == DOMAIN p.items
TokensOf(p, some) == MapThenSumSet(LAMBDA i : p.items[i].len, some)
PassLen(p) == TokensOf(p, Items(p))
(* The longest row of the pass, its new tokens included. *)
KvLen(p) ==
  CHOOSE n \in 0 .. LongestKv :
    /\ \A i \in Items(p) : Reach(p.items[i]) <= n
    /\ \A m \in 0 .. LongestKv : (\A i \in Items(p) : Reach(p.items[i]) <= m) => n <= m
Bucketed(n) == IF n % KvBucket = 0 THEN n ELSE n + (KvBucket - (n % KvBucket))

(* The rows whose candidates are recorded in the journal, and where in the    *)
(* pass the scheduler said each of them begins: it counts rows of logits.     *)
Verified(p) == { i \in Items(p) : p.items[i].kind = "verify" }
ArmedSlots(p) == { p.items[i].id : i \in Verified(p) }
LogitRowsOf(item) ==
  CASE item.kind = "verify" -> item.len [] item.kind \in {"token", "last"} -> 1 [] OTHER -> 0
Windows(p) ==
  [ id \in ArmedSlots(p) |->
      LET i == CHOOSE j \in Verified(p) : p.items[j].id = id
      IN  [ start |-> MapThenSumSet(LAMBDA j : LogitRowsOf(p.items[j]), 1 .. i - 1),
            rows  |-> p.items[i].len ] ]

(* prefill_run: one row with a wide run is tiled by attn_prefill, by its width. *)
PrefillRun(p) ==
  IF Len(p.items) = 1 /\ p.items[1].len >= MinPrefillRun THEN p.items[1].len ELSE 0

(* Mutant of KeyOf: whether a row is armed, not which. *)
KeyOfFlag(p) ==
  [ pool |-> p.pool, tokens |-> PassLen(p), kv |-> Bucketed(KvLen(p)), armed |-> ArmedSlots(p) # {} ]
KeyOf(p) ==
  [ pool |-> p.pool, tokens |-> PassLen(p), kv |-> Bucketed(KvLen(p)), armed |-> ArmedSlots(p) ]

(* plan_attn_dispatch: the items each call of attention covers. A split batch *)
(* has one for the decodes it begins with and one for every other item; the   *)
(* widths of these calls are read off the items, and not in the key.          *)
Lead(p) == { i \in Items(p) : \A j \in 1 .. i : p.items[j].kind \in {"token", "verify"} }
Calls(p) ==
  IF ~SplitMixedBatch \/ Len(p.items) = 1 THEN {Items(p)}
  ELSE ({Lead(p)} \ {{}}) \cup { {i} : i \in Items(p) \ Lead(p) }
CallOver(p, some) ==
  [ base   |-> IF some = Items(p) THEN 0 ELSE TokensOf(p, { i \in Items(p) : \A j \in some : i < j }),
    tokens |-> TokensOf(p, some) ]
LayoutDependent(p) == Calls(p) # {Items(p)}

Graphable(p) == KeyOf(p).kv <= LongestKv /\ PrefillRun(p) = 0 /\ ~LayoutDependent(p)

(* What the launches of a pass carry when its layers are gone through: the    *)
(* pool's pointers, the grids, how far attention reads, the journal's rows    *)
(* that are staged and recorded and from where, the tiles, and the calls.     *)
Launch(p) ==
  [ pool |-> p.pool, tokens |-> PassLen(p), armed |-> ArmedSlots(p), windows |-> Windows(p),
    kv |-> IF Graphable(p) THEN Bucketed(KvLen(p)) ELSE KvLen(p), run |-> PrefillRun(p),
    calls |-> { CallOver(p, some) : some \in Calls(p) } ]

-----------------------------------------------------------------------------
GraphInit ==
  /\ warm = {} /\ graph = [k \in {} |-> NoPass] /\ recent = << >>
  /\ pass = NoPass /\ with = NoPass

Touched(p) == Append(SelectSeq(recent, LAMBDA k : k # KeyOf(p)), KeyOf(p))

(* The slots are `w` and `g` from now on. Past the cap the oldest ticks are    *)
(* dropped (evict_oldest_graph) until one of them was a slot's.               *)
Keep(w, g, ticks) ==
  LET slots == w \cup DOMAIN g
      oldest == CHOOSE i \in DOMAIN ticks :
                  ticks[i] \in slots /\ \A j \in 1 .. i - 1 : ticks[j] \notin slots
  IN  IF Cardinality(slots) <= GraphCap
      THEN warm' = w /\ graph' = g /\ recent' = ticks
      ELSE /\ warm' = w \ {ticks[oldest]}
           /\ graph' = [ k \in DOMAIN g \ {ticks[oldest]} |-> g[k] ]
           /\ recent' = SubSeq(ticks, oldest + 1, Len(ticks))

Ran(p, launch) == pass' = p /\ with' = launch

(* A shape that may not be captured runs as it is, whatever its key names. *)
RunEagerly(p) ==
  /\ ~Graphable(p)
  /\ Ran(p, Launch(p))
  /\ UNCHANGED << warm, graph, recent >>

(* The first pass of a shape runs as it is, "which is what makes every kernel *)
(* it needs resident"; the second is captured and then launched; every other  *)
(* is a replay.                                                               *)
WarmUp(p) ==
  /\ Graphable(p) /\ KeyOf(p) \notin warm \cup DOMAIN graph
  /\ Ran(p, Launch(p))
  /\ Keep(warm \cup {KeyOf(p)}, graph, Touched(p))
Capture(p) ==
  /\ Graphable(p) /\ KeyOf(p) \in warm
  /\ Ran(p, Launch(p))
  /\ Keep(warm \ {KeyOf(p)},
          [ k \in DOMAIN graph \cup {KeyOf(p)} |-> IF k = KeyOf(p) THEN Launch(p) ELSE graph[k] ],
          Touched(p))
Replay(p) ==
  /\ Graphable(p) /\ KeyOf(p) \in DOMAIN graph
  /\ Ran(p, graph[KeyOf(p)])
  /\ Keep(warm, graph, Touched(p))

(* An error in the layers, in the capture or in the launch: the tick stays,   *)
(* the slot is what it was.                                                   *)
PassFails(p) ==
  /\ Graphable(p)
  /\ Cardinality({ i \in DOMAIN Touched(p) : Touched(p)[i] \notin warm \cup DOMAIN graph }) <= MaxOrphans
  /\ recent' = Touched(p)
  /\ UNCHANGED << warm, graph, pass, with >>

GraphNext ==
  \E p \in GraphPasses : RunEagerly(p) \/ WarmUp(p) \/ Capture(p) \/ Replay(p) \/ PassFails(p)

GraphSpec == GraphInit /\ [][GraphNext]_graphvars

-----------------------------------------------------------------------------
(* "Every component is load-bearing" (lib.rs, GraphKey). Whatever was captured,*)
(* evicted, warmed again or failed before, the layers of a pass run on its own *)
(* pool, over as many tokens, with its own rows staged and recorded, as far as *)
(* its longest row and not past the buffers, tiled by its own run or not at    *)
(* all, with attention cut as its own items are.                               *)
RunsItsShape ==
  pass # NoPass =>
    /\ with.pool = pass.pool /\ with.tokens = PassLen(pass)
    /\ with.armed = ArmedSlots(pass)
    /\ with.kv <= LongestKv /\ \A i \in Items(pass) : Reach(pass.items[i]) <= with.kv
    /\ with.run = PrefillRun(pass)
    /\ with.calls = { CallOver(pass, some) : some \in Calls(pass) }

(* "`row_start[slot]`: where that slot's rows begin within *this call's* flat *)
(* batch" (spec.rs): what is recorded for a row is where this pass has it.     *)
RecordsThisCall == pass # NoPass => with.windows = Windows(pass)

=============================================================================
