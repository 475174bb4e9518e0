# Verification of infero's serving core

TLA+ models, model-checking configurations and machine-checked proofs for infero:
for the part where requests share state (the paged key/value pool, the prefix
cache, the continuous-batching scheduler, speculation and tensor parallelism), and
for the algorithms each request passes through on its way in and out. All source
paths are relative to the repository root (`src/` here).

## 1. The system

infero is an LLM inference server. HTTP handlers turn a request into a token
prompt and put it on a channel. One operating-system thread, the worker, owns the
model, the KV pool, the prefix cache and the scheduler; it takes requests off the
channel and repeats `Scheduler::step`. A step admits what fits, drops rows whose
client left, drafts tokens, plans one forward pass over the running rows, runs it,
samples or verifies, and retires the rows that ended. Text goes back to each client
over its own channel, through a handler that streams or collects it.

| component | state it keeps | operations | talks to |
|---|---|---|---|
| KV pool, `crates/model/src/cache.rs` | stack of free token slots; a row per sequence: its slots in order, how many it borrows | `alloc`, `free`, `extend`, `truncate`, `attach_prefix`, `keep_prefix`, `release_slots`, `fork`, `adopt`, `drop_fork` | scheduler, forward pass, speculation, Kev |
| Prefix cache, `crates/server/src/prefix.rs` | blocks by chained hash: slots, references, last use; a clock | `lookup`, `release`, `insert`, `evict_for` | takes slots from rows, returns them to the pool |
| Scheduler, `crates/server/src/scheduler.rs` | `waiting`, `running`, steps | `enqueue`, `step` (`admit`, `drop_disconnected`, `draft_eligible`, `plan`, forward, `advance`, `retire`), `fail_all` | pool, cache, model, clients' event channels |
| Engine and worker, `crates/server/src/engine.rs` | the job channel; gauges `in_flight`, `served` | `submit`, `run_inner`, `dispatch` | HTTP handlers on one side, the scheduler on the other |
| Forward pass, `crates/model/src/lib.rs` | device memory: KV, recurrent state and convolution window per row; captured decode graphs | `forward_batch_rows`, `hidden_states_at`, `evict_oldest_graph` | extends rows and writes their KV |
| Tensor parallelism, `crates/server/src/tp.rs` | a pool and prompts per follower rank | two broadcasts a step, `run_follower` | rank 0's scheduler drives, the others replay |
| Speculation, `crates/model/src/spec.rs`, `mtp.rs`, `gdn_state.rs` | drafts, rollback journal, the drafter's cache | draft, verify, truncate, replay, disarm | pool, scheduler, forward pass |
| Kev decisions, embedding, reranking, `crates/model/src/{kev,embed,rerank}.rs` | a throwaway pool; for Kev a state row and forks of it | `decide_record`, `embed_batch`, `rerank_batch` | run on the worker thread between steps |
| Replies, `crates/server/src/{stop,tool_call,routes}.rs`, `Running::{partial,pending}` | bytes of an unfinished character, text that may begin a stop string, text that may be a tool call | `advance_token`, `finish`, `chat_stream`, `collect`, `scan` | scheduler to handler over a channel |
| Constrained generation, `crates/model/src/{json_grammar,constrained}.rs` | a stack of frames | `step`, `feed`, `generate_json` | masks what may be sampled |
| Pictures, `scheduler.rs`, `crates/model/src/qwen35_vision.rs` | features held for a row, three-axis positions | `encode_pending_image/video`, the splice in `forward_batch_rows` | scheduler, forward pass |
| Tokenizer, `crates/tokenizer/src` | vocabulary, rules, a cache shared by all handlers | `encode`, `decode`, `stream_push` | handlers and the scheduler |
| Rate limiter, `crates/server/src/auth.rs` | per key, a window and its count | `check` | middleware of every handler |
| Everything else | | request parsing, weights, kernels, sampling, terminal UI | |

What is hard here, and what correctness means for it:

- **Shared slots.** A slot moves between the free stack, a row, and the cache,
  and a row can read slots that belong to the cache or to the row it was forked
  from. Correct: one owner per slot; no block evicted under a reader; every row
  attends only over the KV of its own text, whoever computed it.
- **Memory that cannot forget.** A recurrent layer folds each token into one state;
  rejected drafts have to be undone by replaying the accepted ones from a copy.
  Correct: after every round memory is the text that stayed, and what is said could
  have been said without drafts.
- **Long sequences of legal calls.** Admissions, partial prefix hits, evictions,
  retirements of rows that computed the same block, failures. Correct: nothing
  leaks and nothing is freed twice in any order.
- **Interleaving.** A client may submit or go away between any two statements of
  the worker; handlers share a limiter and a tokenizer; two threads write one
  gauge. Correct: each request is in one place, answered at most once, its row
  always comes back, and no caller sees what another left half done.
- **Replicas.** Followers learn of a step from two messages. Correct: their rows
  are those of rank 0.
- **Limits.** Several admissions and a whole batch are sized against a pool that
  none of them has taken from yet. Correct: what is promised fits.
- **Cuts.** Characters, stop strings, markers, prompts, placeholders and JSON keys
  are cut by tokens, chunks and events anywhere. Correct: the cuts cannot be seen.
- **Partial failure.** One device error fails a batch; state is settled by hand.
  Correct: pool, cache and queue are usable afterwards.
- **Progress.** Correct: every request is answered, unless its client left.

`PROJECT.json` lists each hazard with the source line where it bites and the
properties that would catch it.

## 2. Modules

```
KvPool              the pool: one operator per method, no state
  PrefixCache       the prefix cache: one operator per method, no state
    PrefixPool      pool + cache + rows + what the memory holds
      Scheduler     the worker's loop and its clients        => implements PrefixPool
        Engine      the gauges beside it
          TensorParallel   rank 0 and a follower
        AttachFailure      the one error path that breaks PrefixPool
  Speculation       draft, verify, truncate, replay          => implements Decoding
  Branches          decisions, embeddings and scores on throwaway pools
Decoding            what a generation promises: one token after another
RateLimiter         the fixed-window limiter
StopScan > ToolCalls > Reply       from tokens to the answer of a handler
StopScan > Tokenizer               from a text to tokens
JsonDocuments > JsonGrammar        what JSON is; the automaton that keeps to it
Pictures            placeholders, positions, and the splice of features
DecodeGraphs        which captured launches a pass replays

MCPrefixPool, MCScheduler, MCTensorParallel, MCAttachFailure, MCSpeculation, MCRequests
KvPool_proofs > PrefixPool_proofs > Scheduler_proofs > TensorParallel_proofs
KvPool_proofs > Speculation_proofs
KvPool_proofs > Branches_proofs
KvPool_proofs > Requests_proofs    (RateLimiter, DecodeGraphs, Reply)
Requests_proofs > Stream_proofs    (Reply, ToolCalls)
```

**KvPool** translates `KvPool`. A pool value is a record: `free` (a stack, top
last), `live` (the rows that are `Some`), `slots` and `borrowed` per row. Each
method is an operator from a pool to a pool, and its `ensure!`s are the operator
`Can<Method>`. `SeqState::len` is always the length of `slots` and is not kept twice.

**PrefixCache** translates `PrefixCache`. A block's key is the chained hash of every
token up to its end; the model uses what the chain identifies, the token prefix. A
collision of 64-bit hashes is out of scope, as the source says it is for the code.

**PrefixPool** is everything the worker does to the two together, with no queue and
no scheduling: `Admit`, `EvictOne` (a turn of `evict_for`), `Forward`, `Emit`,
`Retire`, `Fail`. The variable `kv` records, for each slot, the text whose last
token's KV was computed there: the device memory, which no code inspects and all the
invariants are about. A picture enters a prompt as content elements that differ per
picture; the ids the cache hashes are the placeholder, as in the code.

**Scheduler** adds the channel, the queue, the running list and the control flow of
`run_inner` and `step`. The worker is one thread, so the only actions of others are a
client's `Submit` and `Disconnect`; a step is cut into phases where those can matter
and where a loop turns:

| phase | actions | code |
|---|---|---|
| `recv` | `Receive` | `run_inner`, up to `step` |
| `admit` | `AdmitNoMore`, `TakeNext`, `EncodeFails` | the top of `admit`'s loop |
| `evict` | `EvictTurn`, `EvictDone` | `evict_for(need + committed)` |
| `decide` | `Reject`, `Requeue`, `Start` | the rest of the loop's body |
| `drop` | `DropOrPass`, `MakePlan` | `drop_disconnected`, then `plan` |
| `forward` | `ForwardItem`, `ForwardFails`, `ForwardDone` | the forward pass |
| `advance` | `AdvancePrompt`, `AdvanceEog`, `AdvanceHungUp`, `AdvanceStop`, `AdvanceToken`, `AdvanceDone` | the loop over the plan, `advance_token` |
| `retire` | `RetireLast`, `StepDone` | the loop over `finished` |
| `fail` | `FailRunning`, `FailWaiting` | `fail_all` |

Sampling is a choice of any token, including the end of generation; a stop string may
complete at any token. `Requeue` puts a request back without its picture because
`admit` has taken it by then. `swap_remove`, the order of plans (decodes, last chunks,
other chunks) and the shared row budget are as in the code.

**Engine** adds the gauges. `submit` counts (`EngineCount`) and then sends (`EngineSend`), two
statements of a handler between which others, and the worker, go on; `run_inner` overwrites
the count with what the scheduler holds after a step, on another thread and without a lock.
Requests that are counted and not sent yet are `counting`.

**TensorParallel** adds a follower to the engine: a pool, its prompts, and which of the
two broadcasts it waits for. It repeats `Alloc`, `Extend` and `Free` on its own pool
and gives up when a number or a room is not what it was told; then rank 0 stops in the
next collective. Things rank 0 does to its rows that no broadcast says (a prefix hit, a
dropped or refused row, a failed step) are remembered in `slips`, so that the
invariant says both that nothing else can break lockstep and what does.

**Speculation** is the scheduler of a model with a drafter, over KvPool: which rows are
drafted and how deep, the plan with its budget, the armed journal, the verification
pass on a working copy, acceptance, truncation, replay, what the next draft continues
from. Device memory (`kv`, `state`, `conv`) is kept as the text it was computed from.
**Decoding** is its specification: a token the model allows after the text so far, one
at a time, nothing after the end. The refinement mapping is the identity on texts;
`mixed` (requests hit by finding 5) becomes Decoding's `adrift`.

**Branches** is the three side jobs on their throwaway pools: validation, how items are
grouped into passes, forks of one state, where answers are read. What the model has
seen at a token is what attention reads through the row's slots and what the recurrence
carried.

**Reply** follows one generation from bytes to the client: unfinished characters, text
held for a stop string, events, and a handler that streams or collects and looks for
tool calls. How what is said is cut into tokens is chosen freely. The worker may die at any
token (`WorkerDies`): a panic unwinds its thread, and the handlers find the channel closed,
which a stream takes for an end (`StreamClosed`) and `collect` for an error (`CollectClosed`). **StopScan** is
`split_at_stop`, **ToolCalls** `tool_call.rs`.

**Tokenizer** is `encode` by several handlers at once: marks, the split by classes of
characters, lookup in the shared cache, byte-pair merging, the store after the lock was
let go. It is compared with byte-pair encoding as it is defined (the rules in order,
each along the whole word).

**JsonGrammar** is the byte automaton and the sampling loop over it; **JsonDocuments**
defines, without an automaton, what a JSON document of a schema is, as RFC 8259 has it.
The automaton takes more than that in three places (finding 8). `Mended` takes the commas
away and puts another byte in place of such bytes, so that everything else can be held to JSON. **Pictures** is the size of a
picture or a clip, dropped groups, the expansion of a placeholder, positions in three
axes, and passes that splice features into chunks beside other rows. **RateLimiter** is
`check` and the middleware that reads the clock before the lock.

**DecodeGraphs** is the cache of captured graphs in `forward_batch_rows`: the key of a
pass, whether it may be captured at all, the first pass of a shape that runs as it is, the
second that is captured, the ones that replay, `evict_oldest_graph` with ticks that a
failed pass leaves behind. What a kernel reads from device memory is uploaded for each
pass and is right by itself; `Launch` is what was baked into the launches instead, and
what a replay brings back. With `split_mixed_batch` attention is several calls whose bounds are
read off the items of a pass (`Calls`), and such a pass is not captured (`LayoutDependent`).
Passes are drawn from a set, as the scheduler's plans.

**MCRequests** puts Branches, Reply, Tokenizer, JsonGrammar, Pictures, RateLimiter and
DecodeGraphs side by side. They share no state, so a behaviour
moves one of them: `part` says which.

**AttachFailure** adds to the scheduler the error of `attach_prefix` after it has
filled in the row. It is a module of its own because PrefixPool does not survive it.

## 3. What is checked

| run | instance | checks |
|---|---|---|
| `scheduler` | 6 slots, 2 rows, 2-token blocks, passes of 2 tokens, 1 device error; 2 requests of 4 kinds, one with a picture, alone or with a follower; or 3 requests of 3 kinds | slots and memory: `TypeOK`, `OneOwner`, `LeasesHold`, `CacheServesItsKey`, `ReadsOwnKv`; requests and plans: `SchedTypeOK`, `NoRequestLost`, `RowsAreRunning`, `PlanFitsPool`, `FedIsComputed`, `PassFits`, `InOrder`, `AnsweredOnce`; `GaugesSettle`, `Lockstep`; that it implements PrefixPool (`Spec`); under fairness `EveryRequestAnswered`, `RowsComeBack` |
| `speculation` | 7 slots, 2 rows, 2 requests (one sampled, one greedy), drafts of up to 2, passes of 3 tokens, 1 failed step | `SpecTypeOK`, `MemoryIsText`, `SlotsPartitioned`, `CandidatesFit`, `FeedIsLastPass`, `Disarmed`, that it implements Decoding (`PlainDecoding`); under fairness `EveryReplyEnds` |
| `requests` | see below | limiter: `RateBounded`, `RetryIsDue`; replies: `SaysItsText`, `StopsAtStop`, `StreamAgrees`; JSON: `FollowsSchema`, `AcceptsDocuments`, `Closable`; side jobs: `AnswersOwnText`, `PoolWhole`, `RoomEnough`; `PicturesInPlace`; `EncodesAsDefined`; captured graphs: `RunsItsShape` |
| nine more | the same instances, PrefixPool by itself, and a failing `attach_prefix` | one finding each, section 5 |

**Why these bounds.** Two rows are enough for two requests to share, race and be moved
by `swap_remove`; with three requests one queues behind both rows. With six slots and
blocks of two, one prompt and its generation fill the pool, so eviction, requeueing and
refusal all happen: a prompt of five tokens takes the pool by itself and is chunked over
three passes; one of a single token generates and finishes in the same step as others;
prompts share a first block, or only their placeholder ids. The three requests, of kinds
that share blocks or carry a picture, run without a follower, and their clients stay and no
device fails; all of that is explored with two (328,656 states together). `MaxTick` bounds
the cache's clock and is never reached here: three requests tick at most six times.
`MaxFaults` and `NumRequests` bound faults and submissions.

PrefixPool in any order of its actions, without a scheduler that chooses them, is what its
proofs are about; TLC explores it (`MCPrefixPool`: 5 slots, rows of up to 5 tokens, prompts that
also share content at another place, `MaxTick` 5) for finding 1.

In Speculation what may follow a text depends on all of it, so one token too many or
too few in memory changes what can be said; a prompt of two tokens is cut by a pass
that also verifies; every outcome of a draft of up to two tokens occurs. The branch of
`effective_spec_k` that stops drafting at `spec_skip_min_concurrency` rows is written
down but not reached with two.

In MCRequests: three callers, two of one address and one with an exempt token, a limit of one per
window; five texts with characters of two bytes, broken bytes and every way tokens of up
to two bytes can cut them, against four sets of stop strings that begin each other; six
texts with tool calls that are whole, cut short, nested or only alike. `MaxLag` is 0,
the handler answers an event before the next token: what it does depends on the events
and their order alone. Schemas of every type, with a property whose name begins another, tokens of
several bytes and of none. Up to five texts for passes of six tokens, and questions
with up to two options. Pictures scaled down to pixels for patches, two patches a block
and a ratio of 20; wide, tall, tiny and too thin ones, and clips that have to drop groups
or shrink. Three vocabularies whose rules overlap or build on one another, marks of
which one begins the other, and two handlers that encode any two of 30 asks. Eleven passes
of up to three rows and two pools, with prompts, single tokens and verifications, lengths
in two buckets of four tokens and one past the longest row; two graphs are kept, so that
every third shape evicts one, and `MaxOrphans` bounds the ticks without a slot to one.

**Reductions.** Slots are symmetric: the code stacks them highest first "so a dump of
the table reads naturally" and never compares them, and the pool starts in any order in
PrefixPool. The scheduler's run starts in one of these orders, and a VIEW tells states apart
by how many slots are free and named at all, how many a row has and borrows, and the KV that
rows and blocks hold, but not by the names of slots or by what a free slot still holds,
which nothing reads before it is written; the follower is seen by which rows it has, how long
they are and their prompts. Liveness is checked without symmetry.

**Deadlock** is not checked: with its bounded number of requests served the worker
blocks on its channel, PrefixPool by itself stops at `MaxTick`, a rank 0 whose follower gave up
stops in a collective, and every part of MCRequests comes to its end.

**Fairness** is weak fairness of the worker (`WF_svars(Worker)`, `WF_tpvars(TPWorker)`,
`WF_specvars(Step)`): it is an OS thread which, unless it waits for a job with nothing
to do, always has a next statement. Nothing is assumed of the clients, of which tokens
are sampled, of whether a stop string ever comes, or of the device, beyond the bound on
its errors. That a generation ends comes from its budget and the size of its row.

Each property has a mutant, a plausible slip of the code (no `skip(borrowed)` in `free`,
eviction that ignores references, `committed_this_pass` forgotten, `finished` retired
front to back, a subtraction that wraps, `<=` for `<` in the choice of a merge ...) that
makes TLC report it. They are the definitions marked "Mutant of".

## 4. What is proved

TLAPS checks the following for every number of slots, rows, tokens, requests, callers
and keys, every block size and every set of prompts. The assumptions are the named
ASSUMEs of the modules: `PoolSizes` (finite, nonempty), `BlockSize` (at least 1),
`TextIsTokens` (pictures are not tokens, prompts are sequences), `SchedulerSizes`,
`SpeculationSizes`, `LimiterSizes`, `GraphSizes` (positive sizes; passes within the longest row),
`BranchSizes` (jobs are made of tokens, and a table has a row for whatever a job runs at once,
as `new_pool` makes it), `ReplyTexts` (bytes and stop strings are sequences).

- `KvPool_proofs`: what each method does to the stack and to the row, position by
  position (`FreeFacts`, `ExtendFacts`, `ReleaseFacts`, `AttachFacts`, `KeepFacts`).
- `PrefixPool_proofs`: `Spec => []TypeOK`, `[]OneOwner`, `[]LeasesHold`,
  `[]CacheServesItsKey`, `[]ReadsOwnKv`; and `PinnedForGood`, an action property: a reference that
  a failed step leaves behind is never made up for (`LostReferencesPin`, finding 2).
- `Scheduler_proofs`: `SchedSpec => Spec`, the scheduler implements PrefixPool; from it
  `SchedSpec => []ReadsOwnKv`: under continuous batching with prefix reuse, eviction,
  failures and vanishing clients, each request attends over the KV of its own text;
  `SchedSpec => []PassFits`: what a pass of `admit` promises is there to be had; and, of rows,
  requests and plans, `SchedSpec => []SchedTypeOK`, `[]NoRequestLost`, `[]RowsAreRunning`, `[]InOrder`, `[]FedIsComputed`, `[]PlanFitsPool`, the action property
  `AnsweredOnce`, and `[]PlanGoesThrough`: the pool and the row always have room for the
  step whose turn it is, so no guard of the model holds back what the code would do.
- `TensorParallel_proofs`: for the engine, alone or with a follower, `TPSpec => []SchedTypeOK`,
  `[]GaugesSettle`, and `[]Lockstep`: a follower that is only told who is new, what runs and
  who retired never gives up and has rank 0's rows at every step, until something happens
  that no broadcast says.
- `Speculation_proofs`: `SpecSpec => []SpecTypeOK`, `[]SlotsPartitioned`, `[]CandidatesFit`,
  `[]FeedIsLastPass`, `[]Disarmed`, `[]MemoryIsText`; and `SpecSpec => PlainDecoding`:
  speculation implements Decoding.
- `Branches_proofs`: `BranchSpec => []AnswersOwnText`, `[]PoolWhole`, `[]RoomEnough`: for every
  job, every limit on a pass and every way the items fall into passes.
- `Requests_proofs`: `LimiterSpec => []LimiterTypeOK`, `[]RateBounded`, `[]RetryIsDue`;
  `GraphSpec => []RunsItsShape`; and `ReplySpec => []SaysItsText`, `[]StopsAtStop`: for all bytes,
  every way tokens cut them, and all stop strings.
- `Stream_proofs`: `ReplySpec => []StreamAgrees`: for all of these, all texts of tools and every
  way a text comes in events, a streamed answer is the one to the whole text.

**The pool.** None of the five invariants is inductive alone; their conjunction `IInv`
is. A retired row keeps for the cache the blocks it computed; that these are slots it
*owns* and not some it borrowed needs that its lease is the cached prefix of its own
text (`LeaseIsPrefix`): a key which is not in the cache is not in the lease, so its
block lies past everything borrowed, and `OneOwner` survives `insert`. Eviction looks
only at `refs = 0`; that nobody reads such a block needs `refs >= Cardinality(Readers)`,
and that a reader's slots are those of leased blocks (`BorrowsFromLease`). A forward
pass writes only slots that were free; that no row reads them needs `OneOwner` for owned
slots and both of the former for borrowed ones (`ReadIsNotFree`). A prompt that hits the
cache reads what its key says (`CacheServesItsKey`), and a prefix of a prefix is a prefix.

The proofs have a lemma per action: `AdmitInv` (over `BorrowInv`), `EvictInv`,
`ForwardInv` (over `ForwardWrites`), `EmitInv`, and `DropInv` for both ways a row ends,
used by `RetireInv` and `FailInv`. `LostReferencesPin` needs no more than that a release takes one
reference and one reader, and an admission gives one of each: the difference, `Lost`, only grows. `GivesBack`, `CacheTakes`, `Clears`, `Borrows` and
`Leases` state what those actions do to pool and cache in the terms the invariants use.

**The scheduler.** `PromptsInv` follows a request's prompt from the client to `Start`,
and each step is matched with an action of PrefixPool (`StepSimulation`). `PassFits`
needs that between the first admission of a pass and its forward pass the free stack
only grows: `AdmitTakesNone` (claiming a row and borrowing a prefix take no slot),
`EvictGives`, `RetireGives` (a row dropped in between), and `StartFits` (a request is
granted only if it fits beside what is promised already).

**Rows, requests and plans.** The scheduler's own invariants hold together or not at all;
`SchedInv` is what they are proved from, and TLC checked it first, on an instance of a
million states. Its parts, and who needs them:

| part | says | needed because |
|---|---|---|
| `LineInv`, `BegunInv` | the channel, the queue and admit's hand are in the order of submission, and whatever is in a row or answered came before them | that a request is put back on the *front* keeps the order only if it was the first; that it is in one place only needs the places to be told apart |
| `RowsInv` | no two rows share a request or a sequence, the rows are the pool's, and answered rows are `finished` | `swap_remove` moves the last row to any index, and retiring from the back leaves the marks of the others right only because all lie below (`SwapLeaves`) |
| `PlanInv` | a plan names a row at most once, and none that finished | two items for one row would each be booked once and fed twice |
| `TextInv` | a row that goes on has room for a token, and an item fits its row | `Emit` and `extend` would refuse |
| `FedInv` | a row's KV is what is booked for it, and its item's tokens as well while the item is between the forward pass and `advance` | between the two, `prefilled` is behind what is computed |
| `RoomInv` | what of a plan is still to be fed fits the free slots | `PlanFitsPool`, item by item |

What `plan` computes is by its two loops (`DecodesFacts`, `PrefillsFacts`, `PlanOfFacts`): after
each turn the rows asked for and the budget left are the budget it began with, and each
row is named at most once, in order. The library's induction theorems cannot be used, so a
recursive function is shown to exist, and a fact to hold along it, by induction over a *set*
of indexes, which is first-order (`SetInduction`, `LoopInduction`, `LoopExists`).
Five actions end a row, in four ways; `Departs` says what they have in common, and
`DepartRows`, `DepartRequests` and `RowsDepart` are proved of it once.

**Gauges.** Every step of TensorParallel is a step of the scheduler or refuses a picture, which
is one more `Departs` (`TPSteps`, `RefuseLeaves`); so `SchedInv` holds there as well.
`GaugeInv` says what the gauges mean while a step is under way: `before` is what is still to be
shared between `served` and what is held (`HeldGoesDown`); `in_flight` never counts more than was
counted (`sent + counting`). Between steps it lies between what is held and what is held, in the
channel or counted by a handler that has not sent it yet. The worker's store leaves that behind
whenever it comes: it overwrites with what is held, which forgets what is in the channel and in
`counting` but counts nothing that is not there; a handler that counts adds one to `in_flight` and
to `counting`, and one that sends moves one from `counting` to the channel. So an idle
worker may see 1 with nothing queued, while a handler is between its two statements, and not
otherwise. That `served` is then the number of finished requests is counting:
a request is in the channel, the queue, admit's hand, a row, or finished, in one of them once
(`RequestsCount`, from `RowsInv` and `LineInv`).

**Lockstep.** A follower repeats the plan on a pool of its own in one action, between the two
broadcasts, where rank 0 goes item by item through actions of clients and of its own. `LockInv`
says what they share at each of rank 0's steps while nothing has slipped (TLC checked it first,
on two requests of the run `scheduler`, 206,536 states):

| part | says | needed because |
|---|---|---|
| `Followed` | the follower's rows: those before the step while rows are gathered; rank 0's during the pass; of these all but the finished while rank 0 retires | it hears of new rows with the plan and of retired ones before rank 0 gives them back |
| `Gathered` | a new row holds nothing, and its number was the first free when it came, beside the old rows and the new ones before it | the broadcast names a row's prompt; its number is what the follower's own `alloc` gives it, and it gives up if that is another |
| `Follows` | the prompt is rank 0's, and the row is as long as rank 0's and what of the plan is to come for it | a later plan is sized by rank 0's lengths |
| `Unborrowed` | no row borrows | a row of rank 0's that began in the cache is longer than the follower's (the slip `attached`); without one, both pools hold just what their rows are long |

That the plan goes through on the follower's pool is counting: a pool that is whole has as many
free slots as there are slots beside those in its rows (`FreeBeside`), its rows are no longer
than rank 0's and rank 0's plan fits (`RoomInv`, `PlanRunnable`). The follower's three loops are
recursive functions and are argued turn by turn (`NewsFacts`, `ItemsFacts`, `RetiredFacts`) as
the plan's are. What rank 0 does without a word of it, an error of a pass, a vanished client, a
refused picture or a hit in the cache, is a slip, and the theorem says nothing after one: what
becomes of the system then the run `scheduler` explores (`EveryRequestAnswered` allows for `Stuck`).

**Speculation.** A step takes its rows in hand one after another, in a different kind of
half-done state each, so `SpecInv` is stated per row (and TLC checked it first, on the instance
of the run `speculation`, 239,494 states):

| part | says | needed because |
|---|---|---|
| `Resting` | of a row no step has in hand: its keys end where what it was fed ends, one short of its text once its prompt is in, with room for a token | this is what `FeedIsLastPass` is about, and what a draft and a plan are sized by |
| `Going` | of a row the plan has an item of: how many of the item's tokens have keys (`Ran`), how many of its answers are in the text already (`Added`), and that what stays of a verification is what was drafted | `advance_token` goes through several tokens of one row and may end it between two of them; only the outcome says how far the truncated row reaches |
| `RestOk`, `PlanOk` | every row is done, in hand of exactly one item that is not over, or resting | a row is `Resting` again only after its last token, and the two have to meet |
| `JournalOk` | while a plan is in hand the armed rows are the ones whose verification is not settled, armed for as many rows as they have tokens | `record` and `settle` take both from the journal, not from the plan |
| `DraftsOk`, `FitsPool` | a draft is of a row that can be drafted and fits it; the tokens of a plan fit the pool and the pass | a plan is made of drafts that were sized before the rows beside them were |
| `PoolOk` | every slot is on the stack once or in one row once (`WholePool`, kept by each method of the pool: `KvPool_proofs`) | `SlotsPartitioned` |

The plan's two loops and the items' `extend`s are recursive functions over what is there, and
are shown to exist and argued as those of the scheduler. `SettleStep` is where drafts and
candidates part: what stays is a prefix of the item's tokens, which is why a second truncation
or a token too many would show in `Going`. `TurnKeeps` is what the four turns of the bookkeeping
have in common, `RetireStep` and `FailRowStep` share `GoneKeeps`.

**What is in memory.** `SpecInv` counts tokens; `MemoryOk` says which. It is stated per row as
well, of every row but those of `mixed` (finding 5), and `AnswersOk` says of the
tokens a step has drawn what `MemoryOk` says of what it has computed. TLC checked both with
`SpecInv`.

| part | says | needed because |
|---|---|---|
| `RestMemory` | keys, recurrent state and convolution window of a row no step has in hand are those of the text it was fed | `MemoryIsText`, and what the next pass goes on from |
| `GoingMemory` | those of an item's row are of the text before it and as many of its tokens as ran | the four items of a step are at different places, and the bookkeeping adds their answers to the text one at a time |
| `Pending` | until a verification is settled the keys have its candidates, but state and window are as before the pass and the journal has the window and the candidates | `settle` must restore exactly what the pass took past the accepted ones; keys are truncated, the state cannot be and is replayed |
| `GoingAnswers` | a token drawn for a row, and each of the tokens a verification kept, is one the model could have chosen after those before it | drawing is in one phase and saying in a later one, after the row was truncated and other rows ended |

The steps where they meet are `SettleMemory`, where the keys past what is kept are cut off and what
the journal taped is replayed up to there, and `TextIsGoal`: what was kept is what the text
goes on with, so the row rests on its own text again (`TurnMemory`). That a pass
leaves the other rows alone is `SlotsPartitioned` for their keys; for the state, that beside an
armed row every row of the pass is armed with its own window, or in `mixed` (`ForwardItem`).

**The refinement.** `PlainStep` matches every step of Speculation with one of Decoding: `Admit`
begins a reply, `AdvanceRow` and each turn of `AdvanceVerified` say one token or end the text,
with the token among those allowed by `AnswersOk` (`TokenIsSaid`, `OutcomeSaid`); `Forward` lets
the rows it wrongs drift, failed steps fail requests, and every other step, drafting,
truncating and replaying among them, is a stutter. So no number of drafts, accepted or not, can
make a reply one that plain decoding could not have given.

**Side jobs.** A throwaway pool starts whole and is only taken from, row by row in the order
of the items, until everything is given back. So who has which slot can be written down: with
`t` the tokens of all items and `s` those of the state, the state's slots are `s + t` down to
`t + 1`, and item `i` has those below, after the items before it (`Fresh`, `SpanOf`). `BranchInv`
says so of every phase:

| part | says | needed because |
|---|---|---|
| `PoolIs` | with `b` branches forked and `d` of them run, the stack is `1 .. t - TokensTo(d)`, each of the `d` has the state's slots and its own behind them, each other branch the state's alone, all borrowed but the item's | a branch runs long after it was forked, with siblings run in between |
| `Remembers` | the state's slots hold the state, and the recurrence of a branch that has not run has heard the state and no more | `AnswersOwnText`; a pass writes to the slots it is given, and none of them is the state's (`Wrote`) |
| `OutIs` | what was read for the items so far | `AnswersOwnText` |
| `GivenUp` | where on the stack each slot is after the last `free` | `free` gives back only behind what is borrowed, each row's slots last first, so the stack is not in the order it began in |

A pass is a loop over its items, and `PassTo` is kept by each turn (`ItemStep`): the pool after `k`
items, what is in memory, and that token `j` of an item has seen what the row held when the
pass began and the item up to `j` (`PassFacts`). A group has room because its tokens are part of
what the pool was made for (`GroupFits`), and a pick is read at the offset of its own item
because the offsets add up to the tokens before it (`AnswersFacts`). The spans of two items do not
meet (`SpansApart`) and leave none out (`SpanFound`): that is `PoolWhole` while the record runs
(`RecordWhole`), and that every slot is on the stack once at the end (`GivenUpWhole`). Embedding
and reranking are the same with a pool for each group and no state.

**The limiter.** `LimiterInv` says of the open window (`WindowInv`) that it has served
at most the limit, that everything served before it fits the windows before it, and
that these lie a whole window apart; and that whoever waits for the lock read the clock
in the past (`CallsPast`). A call that read its time before the window it meets was
opened finds no time has passed, since the subtraction saturates, and so opens none
(`WindowFits`). `RetryIsDue` follows an arithmetic fact about whole seconds
(`WholeSeconds`, `LongEnough`).

**Captured graphs.** The invariant is that every graph was recorded by a pass of its key
(and one that may be captured). Two passes of one key agree on pool, token count, bucket
and armed rows, and neither is tiled by its own run; a bucket is not less than the length it
was rounded from; a pass that may be captured is one call of attention over all its items, so
two of one key are cut alike; and that the longest row of a pass exists for any set of passes is
well-foundedness of strict inclusion among finite sets. Where the armed rows lie in the
pass is not determined by the key: finding 6.

**Replies.** Between the bytes of a token and the channel two things wait: the bytes of an
unfinished character, and characters that may begin a stop string. `ReplyInv` says of a row that
generates that there are bytes `done` (TLC checked it first, on the instance of the run
`requests`) of which `Decoded` says:

| part | says | needed because |
|---|---|---|
| `bytes = Cat(done, part)`, `Cat(out, pend) = Lossy(done)` | what was said so far is `done` and then the partial bytes; what was sent and what is held back is the text of `done` | `SaysItsText` |
| `Sealed` | no character goes over the joint between the two | only then is the text of a whole the text of its parts (`LossyJoin`), also when the next token comes |
| `Broken` | where bytes are left, the last character before them is a replacement, or the first of theirs is | behind a byte of no character the text lags a token; `StopsAtStop` makes an exception there (`Garbled`), and this is why no other is needed (`TextEnds`) |
| `NoStop` | no stop string is in the text of `done`, and none begins in it before what is held back | the next token is scanned with what is held back and nothing before it; a stop string that began earlier would be missed (`OccursText`) |

`from_utf8_lossy` is a recursive function, so what it makes of two parts is argued along its
history (`HistoryUnique`, `LossyJoin`), and the valid part of `take_complete` as the longest prefix without a
replacement (`TakeCompleteFacts`). `SplitFacts` says of `split_at_stop`, for all texts, that it cuts
at the first stop string there is or keeps the longest end that may begin one. `TokenFacts`
puts both together for a token, and is all that `StopsStep`, `LastStep` and `GoesOnStep`
know of it.

**Streams.** `StreamInv` is what the handler of a chat knows, from the request to the last event.
TLC checked it first on the same instance. Until the answer is complete, `Listening`:

| part | says | needed because |
|---|---|---|
| `Delivers` | what the handler has, let out or held back, and the texts in the channel are together what was sent; behind them, when the row has ended, is the one event that says how | the handler scans at `Done`, and what it has must be all there was |
| `HoldsBack`, no marker yet | no marker is in what it has, none begins in it before what is held back, and that is a beginning of a marker and no more | each event is scanned with what is held back alone; a marker over three events would be missed otherwise (`HoldMore`) |
| `HoldsBack`, from the marker on | what is held back begins with the first marker of the whole text | the scan at the end is of what is held back, the one it must agree with of everything |

The comparison is then one of two scans, of a text and of what is behind its first `k` characters.
`scan` and `parse_function` are recursive functions over places in the text. A walk of the one,
moved by `k`, is a walk of the other (`FindBehind`, `ParamsBehind`, `ScanAtBehind`), from the end
of the text backwards: `FromTheEnd` is that induction, once, over sets of places, since a theorem with
an operator as parameter is of no use here. So calls, their parameters and whether
the last is cut off agree (`ScanBehind`), and a text without a marker has none (`ScanNone`).
`EndsAlike` puts this together with what has been let out. A stream that ends without a marker never
sends what it holds back (finding 9): `StreamAgrees` names it, `Unsent`, and says that it is a
beginning of a marker that is no whole one, and that nothing else is missing.

A worker that died has sent no end. `Endless` says that then there is none in the channel either, so
the handler that finds it empty has read everything that was sent (`DiesSends`, `HearsNobody`), and
what it makes of it is `EndsAlike` once more with "stop" for a reason (`StreamIsClosed`); only
there is nothing counted.

**Only model-checked:** the properties of Tokenizer, JsonGrammar and Pictures, whose operators are
folds and recursive definitions: what such an operator returns for every input needs induction with
an operator as parameter, which the installed provers cannot instantiate, or has to be restated as a
recursive function and argued as the scan of tool calls is;
every liveness property (fairness and ENABLED are beyond these provers); and the findings.

**About the prover.** The translation of tlapm 1.4.5 to SMT axiomatizes `Len` by
`DOMAIN s = 1..n <=> Len(s) = n`, also for values that are no sequences. Where a leaf has a
function over `0..n` or the like in sight, this is inconsistent, and anything follows. The proofs of
Scheduler, TensorParallel, Speculation, Branches, Requests and Stream were therefore also run with the axiom
weakened to its sound direction (`DOMAIN s = 1..n => Len(s) = n`), and hold with it.

## 5. Disagreements found

Each but numbers 2 and 11 is a run that TLC must find violated; the property states what a
comment or a doc of the repository says. Those two are exceptions that a property of a passing
run has to make.

1. `EverySlotAccounted` (`slot_leak`): `insert` takes the whole block-aligned prefix from
   the row and then keeps the slots only of keys it did not have (`prefix.rs:169-183`).
   When two rows computed the same prompt side by side, the second one's slots belong to
   nobody afterwards.
2. `fail_all` frees rows without releasing their leases (`scheduler.rs:2315`). So `LeasesHold` can
   only say that a block has *at least* as many references as readers, where `prefix.rs:46` says
   how many; and the theorem `LostReferencesPin` says that the block then stays for good.
3. `EvictMakesRoom` (`evict_short`): `evict_for` counts each evicted block twice
   (`prefix.rs:197`) and stops early.
4. `PictureKept` (`picture_lost`): a request that is requeued has lost its picture
   (`scheduler.rs:1948`).
5. `StateIsText` (`mixed_batch`): while one row of a pass verifies, the recurrence of the
   whole pass runs on the journal's working copy (`lib.rs:5099`), which is staged and
   replayed only for verifying rows; a chunk or an ordinary decode in that pass leaves
   its own state where it was.
6. `RecordsThisCall` (`stale_graph`): while a graph is captured, `GdnRollback::record` slices
   the activations by where each verifying row begins in that call and how many candidates
   it has (`spec.rs:563-570`, called at `lib.rs:5082`); the key has only which rows are armed
   (`lib.rs:3835`). A replay for a pass with the same tokens, bucket and armed rows in another
   layout (a row that verifies three candidates alone, then two beside an ordinary row; or two
   rows that changed places through `swap_remove`) records other rows into the journal, from
   which the recurrent state is then rebuilt.
7. `RecomputesPrompt` (`attach_failure`): after `attach_prefix` failed half way the prompt is
   fed again behind the prefix the row still holds (`scheduler.rs:1967-1987`).
8. `OutputIsJson` (`not_json`): the cursor takes a comma before a closing brace
   (`json_grammar.rs:270`), and in a string a backslash before any byte and control bytes as they
   are (`json_grammar.rs:369-409`); `json_grammar.rs:6-8` says that the output parses as JSON, and
   `docs/keel-integration.md:185-186` that "it cannot be anything else". `FollowsSchema` says that
   but for these three it is a document of the schema.
9. `StreamSaysAll` (`stream_loss`): `chat_stream` sends what it holds back at the end only when a
   marker was met (`routes.rs:1007`); up to ten characters that began one and did not go on are lost,
   where `routes.rs:1003` says that "everything before it was already flushed" and `routes.rs:1046`
   that nothing is silently dropped.
10. `EmbedsItsBatch` (`embed_refused`): texts to embed are grouped by tokens alone (`embed.rs:60`),
   while a pass also has a limit on rows of logits (`lib.rs:3457`), which is the number of sequences
   the server was started with. More short texts than that fail, although
   `docs/keel-integration.md:124` promises "32–64 per request" and `embed.rs:20` that tokens are what
   bounds a pass. `RoomEnough` says that nothing else refuses a job that fits.
11. `engine.rs:748` says that "a panic already aborts the process in this workspace's usual build",
   but no profile of `Cargo.toml` says so: the worker's thread alone dies, and a stream then ends with
   "stop" and no error (`routes.rs:943-944`, `1076-1077`), where `collect` reports one
   (`engine.rs:703`). `StreamAgrees` has the exception.

None of 1-4 breaks the invariants of section 4: slots leak, blocks stay and work is lost,
but no two requests ever share a slot wrongly. Number 7 does, and number 5 changes what
is said: `MemoryIsText` and Decoding make an exception for the requests it hit, and
hold for all others.

Noticed while modelling, and visible as an exception or a bound in a definition:

- `graph_last_used` is said to be "kept in lockstep" with `graphs` (`lib.rs:1993`), but a pass that
  fails the first time its shape is seen leaves a tick without a slot. Eviction drops such ticks
  without freeing anything and goes on (`Keep`, `MaxOrphans`).
- `smart_resize` and the patch budget let a thin picture through that `encode_clip` refuses
  (`qwen35_vision.rs:293`, `lib.rs:9315`); the request fails (`FitsTower`).
- `--video-max-frames` below 4 makes the clamp of `sample_frame_count` (`video.rs`) panic.
- Every piece of the vocabulary counts in `encode_pretoken`'s first look, marks too
  (`lib.rs:536` of the tokenizer), so a mark that is one pre-token would become its token
  without `parse_special`. The patterns split those of real vocabularies.

## 6. What is not modelled, and why

- **Numeric code**: kernels and device backends, the arithmetic of the forward pass and of
  the vision tower, quantization, loading weights, sampling. It is by far the most lines
  of the repository; it has no control flow a model checker could explore, and what
  the other components rely on (which slots a pass reads and writes, which state it
  updates, what it refuses) is modelled with the components that call it.
- **Parsers and formats**: GGUF, safetensors, request bodies, schemas (`Schema::parse`),
  chat templates, decoding of images and video. Sequential functions of one input.
- **Pieces without a caller**: `KvPool::adopt` and `drop_fork`.
- **A broadcast that fails** after clients were told Done: an error of the collective
  library; the ranks are then of no use to each other.
- **The drafter's own cache**: what it holds decides which tokens are drafted, and any
  draft is allowed here.
- **Tokenizer**: composition to NFC; digits, contractions and line breaks of the patterns.
- **Captured graphs** with a quantized KV cache or offloaded layers, which are off by default and
  restrict what is captured further.
- **Engine start-up, metrics, logging, the terminal client**: no state requests share.
- **Hash collisions** of the prefix cache.
- **A worker thread that dies**, beyond what its handlers make of it: pool, cache and queue are gone
  with it, and later requests are refused.

## 7. Running it

```
tlc -workers 2 -config MCTensorParallel.cfg MCTensorParallel.tla
tlc -workers 2 -config MCSpeculation.cfg MCSpeculation.tla
tlc -workers 2 -config MCRequests.cfg MCRequests.tla
```

Findings (TLC reports a violation): `MCEverySlotAccounted.cfg` with MCPrefixPool,
`MCEvictMakesRoom.cfg` and `MCPictureKept.cfg` with MCScheduler, `MCStateIsText.cfg` with
MCSpeculation, `MCAttachFailure.cfg` with MCAttachFailure, and `MCRecordsThisCall.cfg`,
`MCOutputIsJson.cfg`, `MCStreamSaysAll.cfg` and `MCEmbedsItsBatch.cfg` with MCRequests.

```
tlapm KvPool_proofs.tla ; tlapm PrefixPool_proofs.tla ; tlapm Scheduler_proofs.tla
tlapm TensorParallel_proofs.tla ; tlapm Speculation_proofs.tla ; tlapm Branches_proofs.tla
tlapm Requests_proofs.tla ; tlapm Stream_proofs.tla
```
