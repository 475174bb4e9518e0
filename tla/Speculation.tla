---------------------------- MODULE Speculation ----------------------------
(***************************************************************************)
(* Speculative decoding: the rounds of crates/server/src/scheduler.rs that *)
(* draft tokens and verify them (draft_eligible, plan, step), and what     *)
(* crates/model/src/spec.rs does to undo the ones that are rejected.       *)
(*                                                                         *)
(* The checkpoints that bring a drafter also have recurrent layers. Such a *)
(* layer folds every token into one state per row and cannot forget one    *)
(* again, so a verification pass is run on a working copy, its inputs are  *)
(* recorded in a journal, and the accepted ones are replayed into the      *)
(* state afterwards. A row whose inputs are recorded is armed.             *)
(*                                                                         *)
(* The content of device memory is kept as the text it was computed from:  *)
(* `kv` per slot, `state` and `conv` (the recurrence and the convolution   *)
(* window) per row. None of it is something the program can inspect.       *)
(*                                                                         *)
(* Left out here: the prefix cache (off for recurrent models), eviction,   *)
(* clients that leave and pictures (module Scheduler), and probabilities   *)
(* beyond which tokens have one.                                           *)
(***************************************************************************)
EXTENDS KvPool, FiniteSetsExt

CONSTANTS
  NumRequests,   \* bound: requests over a behaviour
  Asks,          \* what a request may ask: [prompt, max_tokens, greedy]
  Tokens, Eog, Stops,
  Support(_),    \* the tokens the model may choose after a text
  K,             \* spec_k_max: the deepest draft
  FullKMax,      \* spec_full_k_max_concurrency
  SkipMin,       \* spec_skip_min_concurrency
  BatchTokens,   \* batch_tokens: token rows one forward pass carries
  MaxFaults      \* bound: failed steps over a behaviour

Requests == 1 .. NumRequests

ASSUME SpeculationSizes ==
  /\ NumRequests \in Nat \ {0} /\ K \in Nat \ {0} /\ BatchTokens \in Nat \ {0}
  /\ FullKMax \in Nat /\ SkipMin \in Nat /\ MaxFaults \in Nat
  /\ Eog \in Tokens /\ Stops \subseteq Tokens \ {Eog}
  /\ \A a \in Asks : /\ a.prompt \in Seq(Tokens) /\ Len(a.prompt) \in 1 .. MaxSeq - 1
                     /\ a.max_tokens \in Nat \ {0}

VARIABLES
  ask, said, status,  \* what each request asked, its text, how it stands
  pool,      \* KvPool
  kv,        \* Slots -> the text whose keys and values the slot holds
  state,     \* SeqIds -> the text folded into the row's recurrent state
  conv,      \* SeqIds -> the text its convolution window has seen
  journal,   \* GdnRollback
  lens,      \* MtpHead::lens: what the drafter has cached for each row
  running,   \* Scheduler::running, as rows
  row,       \* SeqIds -> Running::{prefilled, spec_feed, spec_desynced}
  phase,     \* where the step is
  committed, \* admit's committed_this_pass
  depth,     \* draft_eligible's k
  left,      \* draft_eligible's free_slots_left
  drafts,    \* draft_eligible's result
  plan,      \* step's plan: [id, kind, from, toks, last]
  at, tok,   \* loop counters
  sampled,   \* Running::sampled
  outcome,   \* verify_outcomes: the tokens
  done,      \* step's finished
  mixed,     \* requests that shared a pass with the journal (see Forward)
  faults     \* the failed steps so far: where each of them failed

device == << kv, state, conv >>
texts == << ask, said, status >>
step == << committed, depth, left, drafts, plan, at, tok, sampled, outcome, done >>
specvars == << texts, pool, device, journal, lens, running, row, phase, step, mixed, faults >>

NoFeed == [ first |-> 0, len |-> 0 ]
NoRow == [ req |-> 0, prefilled |-> 0, feed |-> NoFeed, desynced |-> FALSE ]
NoDrafts == [ id \in SeqIds |-> << >> ]

SpecInit ==
  /\ ask \in [Requests -> Asks]
  /\ said = [r \in Requests |-> ask[r].prompt]
  /\ status = [r \in Requests |-> "waiting"]
  /\ pool = NewPool(CHOOSE order \in StackOrders : TRUE)
  /\ kv = [s \in Slots |-> << >>]
  /\ state = [id \in SeqIds |-> << >>] /\ conv = [id \in SeqIds |-> << >>]
  /\ journal = [ armed |-> {}, start |-> [id \in SeqIds |-> 0], rows |-> [id \in SeqIds |-> 0],
                 taped |-> NoDrafts, conv_pre |-> NoDrafts ]
  /\ lens = [id \in SeqIds |-> 0]
  /\ running = << >> /\ row = [id \in SeqIds |-> NoRow]
  /\ phase = "admit" /\ committed = 0 /\ depth = 0 /\ left = 0 /\ drafts = NoDrafts
  /\ plan = << >> /\ at = 1 /\ tok = 1
  /\ sampled = [id \in SeqIds |-> Eog] /\ outcome = NoDrafts /\ done = {}
  /\ mixed = {} /\ faults = << >>

Text(id) == said[row[id].req]
Prompt(id) == ask[row[id].req].prompt
Generated(id) == Len(Text(id)) - Len(Prompt(id))
PromptComplete(id) == row[id].prefilled >= Len(Prompt(id))
Lesser(a, b) == IF a < b THEN a ELSE b
SwapRemove(s, i) == [ j \in 1 .. Len(s) - 1 |-> IF j = i THEN s[Len(s)] ELSE s[j] ]

-----------------------------------------------------------------------------
(* admit: the next request, while a row and slots for its prompt are free.  *)
(* A request nobody has sent yet is one the loop has not come to.           *)
Admit(id) ==
  /\ phase = "admit"
  /\ CanAlloc(pool, id)
  /\ \E r \in Requests :
       /\ status[r] = "waiting" /\ \A q \in Requests : status[q] = "waiting" => r <= q
       /\ LET need == Len(ask[r].prompt) + 1
          IN  need + committed <= FreeSlots(pool) /\ committed' = committed + need
       /\ pool' = Alloc(pool, id)
       /\ running' = Append(running, id)
       /\ row' = [row EXCEPT ![id] = [ NoRow EXCEPT !.req = r ]]
       /\ status' = [status EXCEPT ![r] = "running"]
  /\ UNCHANGED << ask, said, device, journal, lens, phase, mixed, faults,
                  depth, left, drafts, plan, at, tok, sampled, outcome, done >>

(* effective_spec_k, for a spec_k that adapts between 1 and K: a full draft *)
(* beside few other rows, none beside many.                                 *)
EffectiveK(k) ==
  IF Len(running) <= FullKMax THEN k
  ELSE IF Len(running) >= SkipMin THEN 0
  ELSE IF k > 1 THEN k - 1 ELSE 1

BeginDrafting ==
  /\ phase = "admit" /\ running # << >>
  /\ \E k \in 1 .. K : depth' = EffectiveK(k)
  /\ phase' = "draft" /\ at' = 1 /\ left' = FreeSlots(pool) /\ committed' = 0
  /\ UNCHANGED << texts, pool, device, journal, lens, running, row, mixed, faults,
                  drafts, plan, tok, sampled, outcome, done >>

Eligible(id) ==
  /\ depth > 0
  /\ PromptComplete(id) /\ Generated(id) > 0
  /\ ~ask[row[id].req].greedy
  /\ row[id].feed # NoFeed /\ ~row[id].desynced
  /\ Headroom(pool, id) >= depth + 1

Drafting(id) ==
  /\ phase = "draft" /\ at <= Len(running) /\ id = running[at]
  /\ UNCHANGED << texts, pool, device, journal, running, phase, mixed, faults,
                  committed, depth, plan, tok, sampled, outcome, done >>

(* draft_eligible, one row: nothing to draft for it... *)
DraftSkip(id) ==
  /\ Drafting(id) /\ ~Eligible(id)
  /\ at' = at + 1
  /\ UNCHANGED << lens, row, left, drafts >>
(* ... or no slots for this row's candidates, nor for any row after it... *)
DraftNoSlots(id) ==
  /\ Drafting(id) /\ Eligible(id) /\ left < depth + 1
  /\ at' = Len(running) + 1
  /\ UNCHANGED << lens, row, left, drafts >>
(* ... or the drafter has not seen what comes before the feed... *)
DraftDesynced(id) ==
  /\ Drafting(id) /\ Eligible(id) /\ left >= depth + 1
  /\ row[id].feed.first > lens[id]
  /\ row' = [row EXCEPT ![id].feed = NoFeed, ![id].desynced = TRUE]
  /\ at' = at + 1
  /\ UNCHANGED << lens, left, drafts >>
(* ... or the head is cut back to where the feed starts, primed with it,    *)
(* and proposes `depth` tokens, feeding itself all of them but the last.    *)
Draft(id, draft) ==
  /\ Drafting(id) /\ Eligible(id) /\ left >= depth + 1
  /\ row[id].feed.first <= lens[id]
  /\ Len(draft) = depth
  /\ row' = [row EXCEPT ![id].feed = NoFeed]
  /\ lens' = [lens EXCEPT ![id] = row[id].feed.first + row[id].feed.len + depth - 1]
  /\ left' = left - (depth + 1)
  /\ drafts' = [drafts EXCEPT ![id] = draft]
  /\ at' = at + 1

-----------------------------------------------------------------------------
(* plan. Rows past their prompt first, in order: a drafted one as its       *)
(* candidates if they fit what is left, else, like any other, one token.    *)
Next1(id) == << Last(Text(id)) >>
VerifyItem(id) == [ id |-> id, kind |-> "verify", from |-> SeqLen(pool, id),
                    toks |-> Next1(id) \o drafts[id], last |-> TRUE ]
DecodeItem(id) == [ id |-> id, kind |-> "decode", from |-> SeqLen(pool, id),
                    toks |-> Next1(id), last |-> TRUE ]
PrefillItem(id, len) ==
  [ id |-> id, kind |-> "prefill", from |-> row[id].prefilled,
    toks |-> SubSeq(Prompt(id), row[id].prefilled + 1, row[id].prefilled + len),
    last |-> len = Len(Prompt(id)) - row[id].prefilled ]

(* The step's stable sort, one row of logits, then none, then several, is   *)
(* kept as three lists, each in the order the loops come to its rows.       *)
Rank(item) == IF item.kind = "verify" THEN 2 ELSE IF item.last THEN 0 ELSE 1
Given(got, item) ==
  [ left  |-> got.left - Len(item.toks),
    items |-> [got.items EXCEPT ![Rank(item)] = Append(@, item)] ]
(* Mutant of Decoded: the draft is not weighed against what is left. *)
DecodedUnweighed(got, id) ==
  IF got.left = 0 THEN got
  ELSE IF drafts[id] # << >> THEN Given(got, VerifyItem(id))
  ELSE IF PromptComplete(id) /\ Generated(id) > 0 THEN Given(got, DecodeItem(id))
  ELSE got
Decoded(got, id) ==
  IF got.left = 0 THEN got
  ELSE IF drafts[id] # << >> /\ Len(drafts[id]) + 1 <= got.left THEN Given(got, VerifyItem(id))
  ELSE IF PromptComplete(id) /\ Generated(id) > 0 THEN Given(got, DecodeItem(id))
  ELSE got
Prefilled(got, id) ==
  IF got.left = 0 \/ PromptComplete(id) THEN got
  ELSE Given(got, PrefillItem(id, Lesser(Len(Prompt(id)) - row[id].prefilled, got.left)))

Nothing == [ left |-> Lesser(BatchTokens, FreeSlots(pool)), items |-> [rank \in 0 .. 2 |-> << >>] ]
Decodes[i \in 0 .. Len(running)] ==
  IF i = 0 THEN Nothing ELSE Decoded(Decodes[i - 1], running[i])
Prefills[i \in 0 .. Len(running)] ==
  IF i = 0 THEN Decodes[Len(running)] ELSE Prefilled(Prefills[i - 1], running[i])
PlanOf ==
  LET items == Prefills[Len(running)].items IN (items[0] \o items[1]) \o items[2]

Verifies(p) == { i \in 1 .. Len(p) : p[i].kind = "verify" }
Items(p) == 1 .. Len(p)

(* `tail`, the rows of logits each item asks for, and `row_starts` by them. *)
LogitRows(item) == IF item.kind = "verify" THEN Len(item.toks) ELSE IF item.last THEN 1 ELSE 0
RowStart(p, i) ==
  LET upto[k \in 0 .. Len(p)] == IF k = 0 THEN 0 ELSE upto[k - 1] + LogitRows(p[k])
  IN  upto[i - 1]
(* The tokens of the first k items, one after another, and where an item's *)
(* own begin: starts[slot].0.                                              *)
Flattened(p, k) ==
  LET upto[i \in 0 .. Len(p)] == IF i = 0 THEN << >> ELSE upto[i - 1] \o p[i].toks
  IN  upto[k]
TokenStart(p, i) == Len(Flattened(p, i - 1))

(* arm_verify for every drafted row, at its row of the logits. *)
Arm(j, p) ==
  LET of(id) == CHOOSE i \in Verifies(p) : p[i].id = id
      ids == { p[i].id : i \in Verifies(p) }
  IN  [ j EXCEPT !.armed = @ \cup ids,
                 !.rows  = [ id \in SeqIds |-> IF id \in ids THEN Len(p[of(id)].toks) ELSE @[id] ],
                 !.start = [ id \in SeqIds |-> IF id \in ids THEN RowStart(p, of(id)) ELSE @[id] ] ]

MakePlan ==
  /\ phase = "draft" /\ at > Len(running)
  /\ plan' = PlanOf
  /\ journal' = Arm(journal, plan')
  /\ phase' = IF plan' = << >> THEN "fail" ELSE "forward"
  /\ at' = 1 /\ drafts' = NoDrafts /\ depth' = 0 /\ left' = 0
  /\ UNCHANGED << texts, pool, device, lens, running, row, mixed, faults,
                  committed, tok, sampled, outcome, done >>

-----------------------------------------------------------------------------
(* forward_batch_rows over the plan. Every item's tokens get slots and keys *)
(* and values; a row that starts from nothing starts from a zero state.     *)
Flat == Flattened(plan, Len(plan))
Armed == journal.armed # {}
InPass(id) == \E i \in Items(plan) : plan[i].id = id
Mine(id) == CHOOSE i \in Items(plan) : plan[i].id = id

CanForward ==
  /\ Len(Flat) <= FreeSlots(pool)
  /\ \A i \in Items(plan) : Len(plan[i].toks) <= Headroom(pool, plan[i].id)
(* record: the tap has to cover an armed row's window of the pass. *)
CanRecord == \A id \in journal.armed : journal.start[id] + journal.rows[id] <= Len(Flat)

Written(id) == SubSeq(Text(id), 1, plan[Mine(id)].from) \o plan[Mine(id)].toks
KvAfter(p) ==
  [ s \in Slots |->
      LET at_s == { i \in Items(plan) : \E pos \in 1 .. Len(plan[i].toks) :
                      p.slots[plan[i].id][plan[i].from + pos] = s }
      IN  IF at_s = {} THEN kv[s]
          ELSE LET item == plan[CHOOSE i \in at_s : TRUE]
                   pos == CHOOSE j \in 1 .. Len(item.toks) : p.slots[item.id][item.from + j] = s
               IN  SubSeq(Written(item.id), 1, item.from + pos) ]

Was(mem, id) == IF plan[Mine(id)].from = 0 THEN << >> ELSE mem[id]
Folded(mem, id) == Was(mem, id) \o plan[Mine(id)].toks

(* linear_attention. While any row is armed the recurrence of the whole     *)
(* pass runs on the working copy; only armed rows are staged into it before *)
(* and recorded after, from the row of the pass they were armed with. The   *)
(* convolution runs in place, and its window is kept for the armed rows.    *)
Staged(j) ==
  [ j EXCEPT !.conv_pre = [ id \in SeqIds |-> IF id \in j.armed THEN conv[id] ELSE @[id] ] ]
Recorded(j) ==
  [ j EXCEPT !.taped = [ id \in SeqIds |->
                           IF id \in j.armed
                           THEN SubSeq(Flat, j.start[id] + 1, j.start[id] + j.rows[id])
                           ELSE @[id] ] ]

(* The rows a pass with an armed row does not do justice: an ordinary row's *)
(* state is not advanced, and an armed row that follows a chunk of a prompt *)
(* is recorded from the wrong rows, since logit rows were counted and not   *)
(* token rows.                                                              *)
Wronged ==
  IF ~Armed THEN {}
  ELSE { row[plan[i].id].req : i \in { n \in Items(plan) :
           plan[n].kind # "verify" \/ RowStart(plan, n) # TokenStart(plan, n) } }

(* The pool after the first k items got their slots. *)
Extended[k \in 0 .. Len(plan)] ==
  IF k = 0 THEN pool ELSE Extend(Extended[k - 1], plan[k].id, Len(plan[k].toks))

Forward ==
  /\ phase = "forward" /\ CanForward /\ CanRecord
  /\ pool' = Extended[Len(plan)]
  /\ kv' = KvAfter(pool')
  /\ conv' = [ id \in SeqIds |-> IF InPass(id) THEN Folded(conv, id) ELSE conv[id] ]
  /\ state' = [ id \in SeqIds |->
                  IF ~InPass(id) THEN state[id]
                  ELSE IF Armed THEN Was(state, id) ELSE Folded(state, id) ]
  /\ journal' = Recorded(Staged(journal))
  /\ mixed' = mixed \cup Wronged
  /\ phase' = "sample"
  /\ UNCHANGED << texts, lens, running, row, step, faults >>

Faulted(where) == Len(faults) < MaxFaults /\ faults' = Append(faults, where)

(* Mutant of ForwardFails: the journal is not disarmed. *)
ForwardFailsArmed ==
  /\ phase = "forward"
  /\ IF CanForward /\ CanRecord THEN Faulted("forward") ELSE UNCHANGED faults
  /\ phase' = "fail"
  /\ UNCHANGED << texts, pool, device, journal, lens, running, row, mixed, step >>

(* Any error of the pass: the rows armed for it are disarmed, the step fails. *)
ForwardFails ==
  /\ phase = "forward"
  /\ IF CanForward /\ CanRecord THEN Faulted("forward") ELSE UNCHANGED faults
  /\ journal' = [ journal EXCEPT !.armed = @ \ { plan[i].id : i \in Verifies(plan) } ]
  /\ phase' = "fail"
  /\ UNCHANGED << texts, pool, device, lens, running, row, mixed, step >>

-----------------------------------------------------------------------------
(* What the model may answer after the tokens of `own`. A row's logits come *)
(* from what is in memory for it: only if that is its own text, up to where *)
(* the pass took over, are they the answer to its own text.                 *)
Keeps(mem, id, n) == mem[id] = SubSeq(Text(id), 1, n)
ReadsOwnKv(id, n) ==
  n <= SeqLen(pool, id) /\ \A pos \in 1 .. n : kv[pool.slots[id][pos]] = SubSeq(Text(id), 1, pos)
Answers(faithful, own) == IF faithful THEN Support(own) ELSE Tokens

(* sample_on_device, for the rows that want one token. In a pass with an    *)
(* armed row they were run on a working copy nobody staged for them.        *)
Wants(item) == item.kind # "verify" /\ item.last
AnswersRow(item) ==
  LET n == item.from + Len(item.toks)
  IN  Answers(~Armed /\ Keeps(state, item.id, n) /\ Keeps(conv, item.id, n)
                /\ ReadsOwnKv(item.id, n),
              SubSeq(Text(item.id), 1, n))
Sample ==
  /\ phase = "sample"
  /\ sampled' \in [SeqIds -> Tokens]
  /\ \A id \in SeqIds :
       IF InPass(id) /\ Wants(plan[Mine(id)])
       THEN sampled'[id] \in AnswersRow(plan[Mine(id)])
       ELSE sampled'[id] = Eog
  /\ phase' = "settle" /\ at' = 1
  /\ UNCHANGED << texts, pool, device, journal, lens, running, row, mixed, faults,
                  committed, depth, left, drafts, plan, tok, outcome, done >>

(* Sampling, or a part of verification, fails: nothing is disarmed. *)
SettleFails ==
  /\ phase \in {"sample", "settle"}
  /\ Faulted("settle")
  /\ phase' = "fail"
  /\ UNCHANGED << texts, pool, device, journal, lens, running, row, mixed, step >>

(* finish_verify_batch, one item: the longest run of drafts the target      *)
(* takes, and one token of its own behind it, drawn from the residual where *)
(* a draft was refused and from the last row where none was.                *)
Drafted(item) == Tail(item.toks)
AnswersAfter(item, a) ==
  Answers(Keeps(state, item.id, item.from) /\ Keeps(journal.conv_pre, item.id, item.from)
            /\ ReadsOwnKv(item.id, item.from),
          Text(item.id) \o SubSeq(Drafted(item), 1, a))

(* settle: the accepted drafts and the pending token in front of them stay. *)
Kept(accepted) == accepted + 1

(* commit_recurrent: the window goes back to where it was, and both are     *)
(* replayed over the rows that stay.                                        *)
(* Mutant of Rewound: the window is not put back first. *)
NotRewound(id, keep) == conv[id] \o SubSeq(journal.taped[id], 1, keep)
Rewound(id, keep) == journal.conv_pre[id] \o SubSeq(journal.taped[id], 1, keep)

Settle(accepted, token) ==
  LET item == plan[at]
      keep == Kept(accepted)
  IN  /\ phase = "settle" /\ at <= Len(plan) /\ item.kind = "verify"
      /\ accepted <= Len(Drafted(item))
      /\ \A j \in 1 .. accepted : Drafted(item)[j] \in AnswersAfter(item, j - 1)
      /\ token \in AnswersAfter(item, accepted)
      /\ pool' = Truncate(pool, item.id, item.from + keep)
      /\ conv' = [conv EXCEPT ![item.id] = Rewound(item.id, keep)]
      /\ state' = [state EXCEPT ![item.id] = @ \o SubSeq(journal.taped[item.id], 1, keep)]
      /\ journal' = [journal EXCEPT !.armed = @ \ {item.id}]
      /\ outcome' = [outcome EXCEPT ![item.id] =
                       Append(SubSeq(Drafted(item), 1, accepted), token)]
      /\ at' = at + 1
      /\ UNCHANGED << texts, kv, lens, running, row, phase, mixed, faults,
                      committed, depth, left, drafts, plan, tok, sampled, done >>
SettleNext ==
  /\ phase = "settle"
  /\ IF at > Len(plan) THEN phase' = "advance" /\ at' = 1
     ELSE plan[at].kind # "verify" /\ at' = at + 1 /\ UNCHANGED phase
  /\ UNCHANGED << texts, pool, device, journal, lens, running, row, mixed, faults,
                  committed, depth, left, drafts, plan, tok, sampled, outcome, done >>

-----------------------------------------------------------------------------
(* The bookkeeping of one item, one token at a time.                        *)
(* advance_token: the token is kept unless it is the end, and every token   *)
(* is held against the stop strings, the budget and the room that is left.  *)
AdvanceToken(id, t) ==
  LET r == row[id].req
      next == IF t = Eog \/ t \in Stops THEN "stop"
              ELSE IF Generated(id) + 1 >= Lesser(ask[r].max_tokens, MaxSeq - Len(Prompt(id)))
                      \/ Headroom(pool, id) = 0 \/ FreeSlots(pool) = 0
              THEN "length" ELSE "running"
  IN  /\ said' = IF t = Eog THEN said ELSE [said EXCEPT ![r] = Append(@, t)]
      /\ status' = [status EXCEPT ![r] = next]
      /\ done' = IF next = "running" THEN done ELSE done \cup {id}

Item == plan[at]
Turn ==
  /\ phase = "advance" /\ at <= Len(plan)
  /\ UNCHANGED << ask, pool, device, journal, lens, running, phase, mixed, faults,
                  committed, depth, left, drafts, plan, sampled, outcome >>
Continues(id) == status'[row[id].req] = "running"

AdvancePrompt ==
  /\ Turn /\ Item.kind = "prefill" /\ ~Item.last
  /\ row' = [row EXCEPT ![Item.id].prefilled = @ + Len(Item.toks)]
  /\ at' = at + 1
  /\ UNCHANGED << said, status, done, tok >>

(* An ordinary row's next feed is what this pass ran: the rows of a chunk,  *)
(* or the one of a decode, which is one before the token just sampled.      *)
(* Mutant of DecodedAt: the token just sampled itself. *)
DecodedAtSampled(id) == Len(Text(id)) + 1 - 1
DecodedAt(id) == Len(Text(id)) + 1 - 2
AdvanceRow ==
  /\ Turn /\ Wants(Item)
  /\ AdvanceToken(Item.id, sampled[Item.id])
  /\ row' = [row EXCEPT
       ![Item.id].prefilled = IF Item.kind = "prefill" THEN @ + Len(Item.toks) ELSE @,
       ![Item.id].feed =
          IF ~Continues(Item.id) THEN @
          ELSE [ first |-> IF Item.kind = "decode" THEN DecodedAt(Item.id) ELSE Item.from,
                 len |-> Len(Item.toks) ]]
  /\ at' = at + 1 /\ UNCHANGED tok

(* A verified row goes through its tokens until one ends it; its next feed  *)
(* is the pending token and the drafts that stayed.                         *)
(* Mutant of AdvanceVerified: the tokens behind the one that ends it, too. *)
AdvanceVerifiedAll ==
  /\ Turn /\ Item.kind = "verify"
  /\ LET tokens == outcome[Item.id]
     IN  /\ AdvanceToken(Item.id, tokens[tok])
         /\ IF tok < Len(tokens)
            THEN tok' = tok + 1 /\ UNCHANGED << at, row >>
            ELSE tok' = 1 /\ at' = at + 1 /\ UNCHANGED row
AdvanceVerified ==
  /\ Turn /\ Item.kind = "verify"
  /\ LET tokens == outcome[Item.id]
     IN  /\ AdvanceToken(Item.id, tokens[tok])
         /\ IF Continues(Item.id) /\ tok < Len(tokens)
            THEN tok' = tok + 1 /\ UNCHANGED << at, row >>
            ELSE /\ tok' = 1 /\ at' = at + 1
                 /\ row' = [row EXCEPT ![Item.id].feed =
                              IF Continues(Item.id)
                              THEN [ first |-> Item.from, len |-> Len(tokens) ] ELSE @]

AdvanceDone ==
  /\ phase = "advance" /\ at > Len(plan)
  /\ phase' = "retire" /\ at' = 1 /\ plan' = << >>
  /\ outcome' = NoDrafts /\ sampled' = [id \in SeqIds |-> Eog]
  /\ UNCHANGED << texts, pool, device, journal, lens, running, row, mixed, faults,
                  committed, depth, left, drafts, tok, done >>

(* retire, from the back of the list. The drafter is told nothing. *)
(* Mutant of Gone: the pool is not told. *)
GoneUnfreed(i) ==
  /\ row' = [row EXCEPT ![running[i]] = NoRow]
  /\ UNCHANGED << pool, ask, said, device, journal, lens, mixed, faults,
                  committed, depth, left, drafts, plan, at, tok, sampled, outcome >>
Gone(i) ==
  /\ pool' = Free(pool, running[i])
  /\ row' = [row EXCEPT ![running[i]] = NoRow]
  /\ UNCHANGED << ask, said, device, journal, lens, mixed, faults,
                  committed, depth, left, drafts, plan, at, tok, sampled, outcome >>
Retire ==
  /\ phase = "retire" /\ done # {}
  /\ LET i == Max({ j \in 1 .. Len(running) : running[j] \in done })
     IN  /\ Gone(i)
         /\ running' = SwapRemove(running, i)
         /\ done' = done \ {running[i]}
  /\ UNCHANGED << status, phase >>
StepDone ==
  /\ phase = "retire" /\ done = {}
  /\ phase' = "admit"
  /\ UNCHANGED << texts, pool, device, journal, lens, running, row, mixed, faults, step >>

(* Mutant of FailRow: nobody is told. *)
FailRowSilently ==
  /\ phase = "fail" /\ running # << >>
  /\ Gone(1)
  /\ running' = Tail(running)
  /\ UNCHANGED << status, phase, done >>
(* fail_all: the running rows, and then whatever waits. *)
FailRow ==
  /\ phase = "fail" /\ running # << >>
  /\ Gone(1)
  /\ status' = [status EXCEPT ![row[running[1]].req] = "failed"]
  /\ running' = Tail(running)
  /\ UNCHANGED << phase, done >>
FailRest(rs) ==
  /\ phase = "fail" /\ running = << >>
  /\ rs \subseteq { r \in Requests : status[r] = "waiting" }
  /\ status' = [r \in Requests |-> IF r \in rs THEN "failed" ELSE status[r]]
  /\ phase' = "admit" /\ plan' = << >> /\ at' = 1 /\ tok' = 1 /\ done' = {}
  /\ drafts' = NoDrafts /\ outcome' = NoDrafts /\ sampled' = [id \in SeqIds |-> Eog]
  /\ committed' = 0 /\ depth' = 0 /\ left' = 0
  /\ UNCHANGED << ask, said, pool, device, journal, lens, running, row, mixed, faults >>

-----------------------------------------------------------------------------
Step ==
  \/ \E id \in SeqIds : Admit(id)
  \/ BeginDrafting
  \/ \E id \in SeqIds : DraftSkip(id) \/ DraftNoSlots(id) \/ DraftDesynced(id)
  \/ \E id \in SeqIds : \E draft \in [1 .. depth -> Tokens] : Draft(id, draft)
  \/ MakePlan
  \/ Forward \/ ForwardFails
  \/ Sample \/ SettleFails
  \/ \E accepted \in 0 .. K, token \in Tokens : Settle(accepted, token)
  \/ SettleNext
  \/ AdvancePrompt \/ AdvanceRow \/ AdvanceVerified \/ AdvanceDone
  \/ Retire \/ StepDone
  \/ FailRow \/ \E rs \in SUBSET Requests : FailRest(rs)

(* One thread, with nothing else to do. *)
SpecSpec == SpecInit /\ [][Step]_specvars /\ WF_specvars(Step)

-----------------------------------------------------------------------------
(* The values the state may take. *)
SpecTypeOK ==
  /\ pool \in Pools
  /\ said \in [Requests -> Seq(Tokens)]
  /\ status \in [Requests -> {"waiting", "running", "stop", "length", "failed"}]
  /\ state \in [SeqIds -> Seq(Tokens)] /\ conv \in [SeqIds -> Seq(Tokens)]
  /\ journal.armed \subseteq SeqIds
  /\ lens \in [SeqIds -> 0 .. MaxSeq]
  /\ pool.live = { running[i] : i \in 1 .. Len(running) }
  /\ Cardinality(pool.live) = Len(running)
  /\ \A id \in pool.live : row[id].req \in Requests
  /\ done \subseteq pool.live /\ mixed \subseteq Requests

(* Between steps everything a row has in memory is the text it has been fed, *)
(* whatever was drafted, refused, rolled back or replayed on the way: keys   *)
(* and values by what stays after a truncation, the recurrent state and the  *)
(* convolution window by what was replayed. (Not so for the rows of `mixed`.)*)
Fed(id) == IF PromptComplete(id) THEN Len(Text(id)) - 1 ELSE row[id].prefilled
InMemory(id) ==
  /\ SeqLen(pool, id) = Fed(id)
  /\ ReadsOwnKv(id, Fed(id))
  /\ Fed(id) > 0 => Keeps(state, id, Fed(id)) /\ Keeps(conv, id, Fed(id))
MemoryIsText ==
  phase = "admit" => \A id \in pool.live : row[id].req \notin mixed => InMemory(id)

(* Rows own their slots and the free stack the rest: what one row gives back *)
(* when drafts are refused is nobody's while other rows extend.              *)
Stack == -1
SlotsPartitioned ==
  \A s \in Slots :
    LET free == { << Stack, i >> : i \in { n \in 1 .. FreeSlots(pool) : pool.free[n] = s } }
        held == { place \in SeqIds \X (1 .. MaxSeq) :
                    place[2] <= SeqLen(pool, place[1]) /\ pool.slots[place[1]][place[2]] = s }
    IN  Cardinality(free \cup held) = 1

(* A verification pass finds the room it was planned for: every candidate    *)
(* has a slot, a place in its row and a row of logits in the pass, beside    *)
(* whatever prompts and single tokens share it.                              *)
CandidatesFit == phase = "forward" => CanForward /\ Len(Flat) <= BatchTokens

(* "Getting the third one off by one is the mistake that costs acceptance    *)
(* rate and nothing else" (spec.rs). A row's feed names the last pass's      *)
(* confirmed tokens: they end where the row's keys end, one short of its     *)
(* text, and start no later than the pass did.                               *)
FeedIsLastPass ==
  phase = "admit" => \A id \in pool.live :
    row[id].feed # NoFeed =>
      /\ row[id].feed.first + row[id].feed.len = SeqLen(pool, id)
      /\ row[id].feed.first + row[id].feed.len = Len(Text(id)) - 1

(* "A failed pass leaves the journal armed, and the next step would then     *)
(* commit rows it never recorded" (spec.rs). Between steps nothing is armed,  *)
(* and it takes a step that failed after its pass to leave it otherwise.     *)
Disarmed == phase = "admit" /\ "settle" \notin Range(faults) => journal.armed = {}

(* Every request comes to an end: a round emits at least one token, "which   *)
(* is what keeps speculation from livelocking" (spec.rs).                    *)
EveryReplyEnds ==
  \A r \in Requests : status[r] = "running" ~> status[r] \in {"stop", "length", "failed"}

(* Speculation says nothing plain decoding could not have said.              *)
Plain == INSTANCE Decoding WITH adrift <- mixed
PlainDecoding == Plain!PlainSpec

(* spec.rs, stage: "every slot this call did not arm has `n_tok <= 0` for    *)
(* the whole armed pass".                                                    *)
StateIsText ==
  phase = "admit" => \A id \in pool.live : Fed(id) > 0 => Keeps(state, id, Fed(id))

=============================================================================
