------------------------------ MODULE Decoding ------------------------------
(***************************************************************************)
(* What a generation promises, whatever runs underneath: one token after   *)
(* another, each of them one the model could have chosen after the text so *)
(* far, and nothing after the token that ends the reply. It is the loop of *)
(* Scheduler::advance and advance_token in crates/server/src/scheduler.rs  *)
(* with a forward pass of one token in front of each turn, and it knows    *)
(* neither drafts nor pools nor batches.                                   *)
(*                                                                         *)
(* crates/model/src/spec.rs promises that speculation is "a pure speedup   *)
(* rather than a different sampler": module Speculation implements this.   *)
(***************************************************************************)
EXTENDS Naturals, Sequences

CONSTANTS
  Requests,
  Asks,         \* what a request may ask: [prompt, max_tokens, greedy]
  Tokens,       \* the vocabulary
  Eog,          \* the token that ends a generation and is not part of it
  Stops,        \* tokens that complete a stop string
  Support(_)    \* the tokens a request's own distribution allows after a text

VARIABLES
  ask,      \* what each request asks for: [prompt, max_tokens, greedy]
  said,     \* the prompt and what was generated
  status,   \* "waiting", "running", or how it ended
  adrift    \* requests whose answers no longer come from their own text

Generated(r) == Len(said[r]) - Len(ask[r].prompt)

PlainInit ==
  /\ ask \in [Requests -> Asks]
  /\ said = [r \in Requests |-> ask[r].prompt]
  /\ status = [r \in Requests |-> "waiting"]
  /\ adrift = {}

Begin(r) ==
  /\ status[r] = "waiting"
  /\ status' = [status EXCEPT ![r] = "running"]
  /\ UNCHANGED << ask, said, adrift >>

(* A token the model may choose: kept, unless it is the end... *)
MayChoose(r, t) == status[r] = "running" /\ (t \in Support(said[r]) \/ r \in adrift)
EndOfText(r) ==
  /\ MayChoose(r, Eog)
  /\ status' = [status EXCEPT ![r] = "stop"]
  /\ UNCHANGED << ask, said, adrift >>

(* ... and the reply is over where a stop string or the budget ends it. It  *)
(* may also be cut short for want of memory, but it never goes on.          *)
Say(r, t) ==
  /\ t # Eog /\ MayChoose(r, t)
  /\ said' = [said EXCEPT ![r] = Append(@, t)]
  /\ \E next \in {"running", "stop", "length"} :
       /\ status' = [status EXCEPT ![r] = next]
       /\ next = "stop" <=> t \in Stops
       /\ Generated(r) + 1 >= ask[r].max_tokens => next # "running"
  /\ UNCHANGED << ask, adrift >>

(* A failed step fails whoever was running or waiting. *)
Fail(rs) ==
  /\ rs # {} /\ \A r \in rs : status[r] \in {"waiting", "running"}
  /\ status' = [r \in Requests |-> IF r \in rs THEN "failed" ELSE status[r]]
  /\ UNCHANGED << ask, said, adrift >>

Drift(rs) ==
  /\ rs \subseteq { r \in Requests : status[r] = "running" }
  /\ adrift' = adrift \cup rs
  /\ UNCHANGED << ask, said, status >>

PlainNext ==
  \/ \E r \in Requests : Begin(r) \/ EndOfText(r)
  \/ \E r \in Requests, t \in Tokens : Say(r, t)
  \/ \E rs \in SUBSET Requests : Fail(rs) \/ Drift(rs)

plainvars == << ask, said, status, adrift >>
PlainSpec == PlainInit /\ [][PlainNext]_plainvars

=============================================================================
