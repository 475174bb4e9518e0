------------------------------ MODULE Branches ------------------------------
(***************************************************************************)
(* The jobs that run on the worker thread beside the scheduler, each on a   *)
(* throwaway pool: embed_batch (crates/model/src/embed.rs), rerank_batch    *)
(* (rerank.rs) and decide_record (kev.rs), which forks one state for every   *)
(* question. All three pack their texts into passes the same way.           *)
(*                                                                         *)
(* What the model computes at a token is what it has seen there: the tokens *)
(* attention reads through the row's slots, and those its recurrence has    *)
(* carried along.                                                          *)
(***************************************************************************)
EXTENDS KvPool

CONSTANTS
  BranchJobs,     \* [kind, texts, prefix, suffix]; a question is [instr, options]
  BatchTokens,    \* Model::batch_tokens: tokens of a pass
  MaxLogitRows,   \* Model::max_logit_rows, from --max-seqs
  MaxBatch,       \* MAX_BATCH: texts of a request
  TokenIds,       \* the tokens of texts, and those that set them apart
  NoBranchJob

VARIABLES
  request,
  shared,     \* Encoded::state_ids; empty without a state
  items,      \* what runs, in order: [ids, picks]
  size,       \* slots and rows the pool was made with
  pool,
  kv,         \* device: the token whose keys a slot holds, where one was written
  carried,    \* device: the text each row's recurrent state has seen
  branches,   \* branch_seqs
  out,        \* per item, what was seen at each of its picks
  stage,      \* "idle", "state", "fork", "score", "answered", "failed"
  why         \* why it failed: "none", "rejected", "pass", "pool", "device"

device == << kv, carried >>
plan == << request, shared, items >>
branchvars == << plan, size, pool, device, branches, out, stage, why >>

NoPool == NewPool(<< >>)
Sized(n, rows) == [slots |-> n, rows |-> rows]

BranchInit ==
  /\ request = NoBranchJob /\ shared = << >> /\ items = << >>
  /\ size = Sized(0, 0) /\ pool = NoPool
  /\ kv = << >> /\ carried = [id \in SeqIds |-> << >>]
  /\ branches = << >> /\ out = << >>
  /\ stage = "idle" /\ why = "none"

-----------------------------------------------------------------------------
(* encode: a question's branch, and where <decide> and each </opt> are in it.*)
OptionText(option) == << "<opt>" >> \o option \o << "</opt>" >>
OptionsTo(q, n) ==
  LET upto[i \in 0 .. Len(q.options)] == IF i = 0 THEN << >> ELSE upto[i - 1] \o OptionText(q.options[i])
  IN  upto[n]
BranchIds(q) == << "<q>" >> \o q.instr \o OptionsTo(q, Len(q.options)) \o << "<decide>" >>
OptEnd(q, i) == 1 + Len(q.instr) + Len(OptionsTo(q, i))
Question(q) ==
  [ ids |-> BranchIds(q),
    picks |-> << Len(BranchIds(q)) >> \o [i \in DOMAIN q.options |-> OptEnd(q, i)] ]

(* A text is read back at its last token. *)
Text(ids) == [ids |-> ids, picks |-> << Len(ids) >>]

StateOf(r) == IF r.kind = "decide" THEN << "<state>" >> \o r.prefix ELSE << >>
ItemOf(r, text) == IF r.kind = "decide" THEN Question(text) ELSE Text(r.prefix \o text \o r.suffix)
ItemsOf(r) == [i \in DOMAIN r.texts |-> ItemOf(r, r.texts[i])]

(* The checks each of the three makes before it touches the device. *)
Legal(r) ==
  /\ r.texts # << >>
  /\ r.kind = "decide" =>
       \A i \in DOMAIN r.texts : Len(StateOf(r)) + Len(ItemsOf(r)[i].ids) <= MaxSeq
  /\ r.kind # "decide" => Len(r.texts) <= MaxBatch /\ \A i \in DOMAIN r.texts : r.texts[i] # << >>

(* A table has a row for whatever is run at once. *)
ASSUME BranchSizes ==
  /\ BatchTokens \in Nat /\ MaxLogitRows \in Nat /\ MaxBatch \in Nat
  /\ { "<state>", "<q>", "<opt>", "</opt>", "<decide>" } \subseteq TokenIds
  /\ \A r \in BranchJobs :
       /\ r.prefix \in Seq(TokenIds) /\ r.suffix \in Seq(TokenIds)
       /\ r.texts \in Seq(IF r.kind = "decide" THEN [instr : Seq(TokenIds), options : Seq(Seq(TokenIds))]
                          ELSE Seq(TokenIds))
       /\ Legal(r) => Len(r.texts) < MaxSeqs

-----------------------------------------------------------------------------
(* The tokens of the first n of several texts, and of some in between. *)
TokensTo(texts, n) ==
  LET sum[i \in 0 .. Len(texts)] == IF i = 0 THEN 0 ELSE sum[i - 1] + Len(texts[i].ids) IN sum[n]
Lengths(from, to) == TokensTo(items, to) - TokensTo(items, from - 1)

(* A pass that was started with too much for the model is refused. *)
PassFits(n, logits) == n \in 1 .. BatchTokens /\ logits <= MaxLogitRows

(* forward_batch_rows for one item: slots, keys, and what its tokens see. A  *)
(* row without tokens starts its recurrence over.                           *)
Seen(mem, slots, before, ids, n) ==
  [ k \in 1 .. Len(ids) |-> [ attended |-> [i \in 1 .. n + k |-> mem[slots[i]]],
                              carried  |-> before \o SubSeq(ids, 1, k) ] ]
Written(mem, slots, ids, n) ==
  LET put(s) == { k \in DOMAIN ids : slots[n + k] = s }
  IN  [ s \in DOMAIN mem \cup { slots[n + k] : k \in DOMAIN ids } |->
          IF put(s) = {} THEN mem[s] ELSE ids[CHOOSE k \in put(s) : TRUE] ]
Placed(run, seq, ids, n, slots, before) ==
  LET mem == Written(run.kv, slots, ids, n)
  IN  [ ok |-> TRUE, pool |-> Extend(run.pool, seq, Len(ids)), kv |-> mem,
        carried |-> [run.carried EXCEPT ![seq] = before \o ids],
        rows |-> run.rows \o Seen(mem, slots, before, ids, n) ]
RunItem(run, item) ==
  LET seq == item.seq  n == SeqLen(run.pool, seq)
  IN  IF ~run.ok \/ ~CanExtend(run.pool, seq, Len(item.ids)) THEN [run EXCEPT !.ok = FALSE]
      ELSE Placed(run, seq, item.ids, n, Extend(run.pool, seq, Len(item.ids)).slots[seq],
                  IF n = 0 THEN << >> ELSE run.carried[seq])
Run(p, batch) ==
  LET start == [ok |-> TRUE, pool |-> p, kv |-> kv, carried |-> carried, rows |-> << >>]
      run[k \in 0 .. Len(batch)] == IF k = 0 THEN start ELSE RunItem(run[k - 1], batch[k])
  IN  run[Len(batch)]

Fails(reason) ==
  /\ stage' = "failed" /\ why' = reason
  /\ pool' = NoPool /\ size' = Sized(0, 0)
  /\ UNCHANGED << plan, device, branches, out >>

-----------------------------------------------------------------------------
(* A job is taken apart; one that is not legal is turned down. *)
Reject(r) ==
  /\ stage = "idle" /\ ~Legal(r)
  /\ request' = r /\ stage' = "failed" /\ why' = "rejected"
  /\ UNCHANGED << shared, items, size, pool, device, branches, out >>

Accept(r) ==
  /\ stage = "idle" /\ Legal(r)
  /\ request' = r /\ shared' = StateOf(r) /\ items' = ItemsOf(r)
  /\ stage' = IF r.kind = "decide" THEN "state" ELSE "score"
  /\ UNCHANGED << size, pool, device, branches, out, why >>

(* Mutant of RecordSize: a row for every branch and none for the state. *)
RecordSizeRows == Sized(Len(shared) + Lengths(1, Len(items)), Len(items))

(* decide_record's pool: the state once, and all the branches at once. *)
RecordSize == Sized(Len(shared) + Lengths(1, Len(items)), 1 + Len(items))
PoolOf(s) == NewPool([i \in 1 .. s.slots |-> i])
NextRow(p, s) == { id \in 0 .. s.rows - 1 : CanAlloc(p, id) }

(* The state runs once, in one pass. *)
StatePass(fits, run) ==
  \/ /\ fits /\ run.ok
     /\ pool' = run.pool /\ kv' = run.kv /\ carried' = run.carried
     /\ size' = RecordSize /\ stage' = "fork"
     /\ UNCHANGED << plan, branches, out, why >>
  \/ ~(fits /\ run.ok) /\ Fails(IF fits THEN "pool" ELSE "pass")
RunState ==
  /\ stage = "state"
  /\ StatePass(PassFits(Len(shared), 0), Run(Alloc(PoolOf(RecordSize), 0), << [seq |-> 0, ids |-> shared] >>))

(* fork copies the recurrent state: it is advanced, not branched. *)
Forked(id) == [carried EXCEPT ![id] = carried[0]]

(* decide_batch: every branch is forked before any of them runs. *)
ForkBranch ==
  /\ stage = "fork" /\ Len(branches) < Len(items)
  /\ \/ \E id \in NextRow(pool, size) :
          /\ pool' = Fork(Alloc(pool, id), 0, id)
          /\ carried' = Forked(id)
          /\ branches' = Append(branches, id)
          /\ stage' = IF Len(branches') = Len(items) THEN "score" ELSE "fork"
          /\ UNCHANGED << plan, size, kv, out, why >>
     \/ NextRow(pool, size) = {} /\ Fails("pool")

(* As many of the items that are left as a pass can carry, and at least one. *)
GroupEnd == Max({Len(out) + 1} \cup { e \in Len(out) + 1 .. Len(items) : Lengths(Len(out) + 1, e) <= BatchTokens })
Group == Len(out) + 1 .. GroupEnd

(* Mutant of Pick: positions in the branch, not in the pass. *)
PickUnshifted(i, k) == items[i].picks[k]

(* A pick's position in the pass: behind the items before its own. *)
Pick(i, k) == Lengths(Len(out) + 1, i - 1) + items[i].picks[k]

Answers(rows) ==
  [ g \in 1 .. Cardinality(Group) |->
      LET i == Len(out) + g IN [k \in DOMAIN items[i].picks |-> rows[Pick(i, k)]] ]

(* Embedding and reranking make a pool for every group, and drop it. *)
Decides == request.kind = "decide"
GroupSize == Sized(Lengths(Len(out) + 1, GroupEnd), Cardinality(Group))
GroupPool == [PoolOf(GroupSize) EXCEPT !.live = 0 .. GroupSize.rows - 1]
RowOfItem(i) == IF Decides THEN branches[i] ELSE i - Len(out) - 1
Batch == [g \in 1 .. Cardinality(Group) |-> [seq |-> RowOfItem(Len(out) + g), ids |-> items[Len(out) + g].ids]]
Logits == IF Decides THEN 0 ELSE Cardinality(Group)

GroupPass(fits, run) ==
  \/ /\ fits /\ run.ok
     /\ out' = out \o Answers(run.rows)
     /\ pool' = IF Decides THEN run.pool ELSE NoPool
     /\ kv' = run.kv /\ carried' = run.carried
     /\ UNCHANGED << plan, size, branches, stage, why >>
  \/ ~(fits /\ run.ok) /\ Fails(IF fits THEN "pool" ELSE "pass")
ScoreGroup ==
  /\ stage = "score" /\ Len(out) < Len(items)
  /\ GroupPass(PassFits(Lengths(Len(out) + 1, GroupEnd), Logits), Run(IF Decides THEN pool ELSE GroupPool, Batch))

(* The branches go back before the state they borrow from. *)
BranchesFreed ==
  LET left[i \in 0 .. Len(branches)] == IF i = 0 THEN pool ELSE Free(left[i - 1], branches[i])
  IN  left[Len(branches)]
Answer ==
  /\ stage = "score" /\ Len(out) = Len(items)
  /\ pool' = Free(BranchesFreed, 0)
  /\ stage' = "answered"
  /\ UNCHANGED << plan, size, device, branches, out, why >>

DeviceFails == stage \in {"state", "fork", "score"} /\ Fails("device")

BranchNext ==
  \/ \E r \in BranchJobs : Reject(r) \/ Accept(r)
  \/ RunState \/ ForkBranch \/ ScoreGroup \/ Answer \/ DeviceFails

BranchSpec == BranchInit /\ [][BranchNext]_branchvars

-----------------------------------------------------------------------------
(* Every answer was read where its own item put the question, and the model  *)
(* had seen there the state, that item so far, and nothing of its siblings.  *)
Expected(i, k) == shared \o SubSeq(items[i].ids, 1, items[i].picks[k])
AnswersOwnText ==
  /\ stage = "answered" => Len(out) = Len(request.texts)
  /\ \A i \in DOMAIN out : \A k \in DOMAIN items[i].picks :
       out[i][k] = [attended |-> Expected(i, k), carried |-> Expected(i, k)]

(* The slots of a record's pool are free or belong to one row; a branch      *)
(* borrows what the state owns; and at the end they are all free.           *)
OwnersOf(s) == { id \in SeqIds : Contains(Owned(pool, id), s) }
PoolWhole ==
  /\ \A s \in 1 .. size.slots :
       (IF Contains(pool.free, s) THEN 1 ELSE 0) + Cardinality(OwnersOf(s)) = 1
  /\ IsInjective(pool.free)
  /\ stage \in {"fork", "score"} => \A i \in DOMAIN branches :
       SubSeq(pool.slots[branches[i]], 1, pool.borrowed[branches[i]]) = pool.slots[0]
  /\ stage = "answered" => Len(pool.free) = size.slots /\ pool.live = {}

(* A pool is made large enough for what runs on it, whatever the groups: a   *)
(* job whose texts each fit a pass and a sequence never fails for room in    *)
(* the pool. Nor does a record's pass fail, for it reads no logits back. (An *)
(* embedding's may: see EmbedsItsBatch.)                                    *)
Wide(ids) == Len(ids) > BatchTokens
Fitting == ~Wide(shared) /\ \A i \in DOMAIN items : ~Wide(items[i].ids) /\ Len(items[i].ids) <= MaxSeq
RoomEnough ==
  Fitting => why # "pool" /\ (why = "pass" => ~Decides)

(* What the source says, and the code does not do (see the README).          *)

(* embed.rs, MAX_BATCH: "Not a device limit -- `Model::batch_tokens` is what  *)
(* actually bounds one forward pass, and a request under this cap can still   *)
(* need several passes". A request that was let in, with texts that each fit  *)
(* a pass, is never refused by the pass it is packed into.                    *)
EmbedsItsBatch == Fitting => why # "pass"

=============================================================================
