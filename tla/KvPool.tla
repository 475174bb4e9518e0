------------------------------- MODULE KvPool -------------------------------
(***************************************************************************)
(* The paged key/value pool of crates/model/src/cache.rs.                  *)
(*                                                                         *)
(* A pool is a stack of free token slots and a table of sequence rows. A   *)
(* row lists the physical slots of its tokens in logical order; its first  *)
(* `borrowed` slots belong to somebody else and are never returned by it.  *)
(*                                                                         *)
(* This module holds no state. Each method of KvPool is an operator from a *)
(* pool value to a pool value, so that a component which calls several of  *)
(* them in one handler composes them in one action; a method's `ensure!`s  *)
(* are the operator Can<Method>. PrefixPool and Scheduler own the state.   *)
(*                                                                         *)
(* SeqState::len is not kept apart from the slot list: every method        *)
(* changes both together, so len is Len(slots).                            *)
(***************************************************************************)
EXTENDS Integers, Sequences, FiniteSets, SequencesExt

CONSTANTS
  Slots,    \* 0..n_slots: the token slots shared by all the sequences
  MaxSeqs,  \* max_seqs: sequence rows
  MaxSeq    \* max_seq: tokens one sequence may hold

ASSUME PoolSizes ==
  /\ IsFiniteSet(Slots) /\ Slots # {}
  /\ MaxSeqs \in Nat \ {0}
  /\ MaxSeq \in Nat \ {0}

SeqIds == 0 .. MaxSeqs - 1

(* A pool value: KvPool::{free, seqs}. A row that is None has no slots. *)
Pools == [ free     : Seq(Slots),
           live     : SUBSET SeqIds,
           slots    : [SeqIds -> Seq(Slots)],
           borrowed : [SeqIds -> Nat] ]

(* KvPool::new, given the order the free stack starts in. The code stacks   *)
(* the highest slot first "so a dump of the table reads naturally"; slots   *)
(* are interchangeable, and here any order will do.                         *)
StackOrders == { order \in [1 .. Cardinality(Slots) -> Slots] : IsInjective(order) }
NewPool(order) == [ free     |-> order,
                    live     |-> {},
                    slots    |-> [id \in SeqIds |-> << >>],
                    borrowed |-> [id \in SeqIds |-> 0] ]

FreeSlots(p) == Len(p.free)
SeqLen(p, id) == Len(p.slots[id])
Headroom(p, id) == MaxSeq - SeqLen(p, id)

(* The slots a row owns: everything past what it borrows. *)
Owned(p, id) == SubSeq(p.slots[id], p.borrowed[id] + 1, Len(p.slots[id]))

(* Mutant of Cleared: the row forgets its slots and not what it borrowed. *)
ClearedSlotsOnly(p, id) == [ p EXCEPT !.slots[id] = << >> ]

(* A row goes back to None. *)
Cleared(p, id) == [ p EXCEPT !.slots[id] = << >>, !.borrowed[id] = 0 ]

-----------------------------------------------------------------------------
(* alloc: claims the first row that is None. *)
CanAlloc(p, id) == id \in SeqIds \ p.live /\ \A other \in SeqIds \ p.live : id <= other
Alloc(p, id) == [ p EXCEPT !.live = @ \cup {id} ]

(* Mutant of Free: without skip(borrowed). *)
FreeAll(p, id) ==
  IF id \in p.live
  THEN [ Cleared(p, id) EXCEPT !.free = @ \o Reverse(p.slots[id]), !.live = @ \ {id} ]
  ELSE p

(* free: returns only what the row owns, top of the stack last. *)
Free(p, id) ==
  IF id \in p.live
  THEN [ Cleared(p, id) EXCEPT !.free = @ \o Reverse(Owned(p, id)),
                               !.live = @ \ {id} ]
  ELSE p

(* extend: n slots off the top of the stack, in the order they are popped. *)
CanExtend(p, id, n) ==
  /\ id \in p.live
  /\ SeqLen(p, id) + n <= MaxSeq
  /\ n <= FreeSlots(p)
Popped(p, n) == Reverse(SubSeq(p.free, FreeSlots(p) - n + 1, FreeSlots(p)))
Extend(p, id, n) ==
  [ p EXCEPT !.free = SubSeq(@, 1, FreeSlots(p) - n),
             !.slots[id] = @ \o Popped(p, n) ]

(* Mutant of Truncate: also gives back the last slot it keeps. *)
TruncateOneMore(p, id, len) ==
  IF id \in p.live /\ len < SeqLen(p, id)
  THEN [ p EXCEPT !.free = @ \o Reverse(SubSeq(p.slots[id], len, SeqLen(p, id))),
                  !.slots[id] = SubSeq(@, 1, len) ]
  ELSE p

(* truncate: drops the tail, one slot at a time, and stops at the borrowed prefix. *)
Truncate(p, id, len) ==
  LET keep == IF len < p.borrowed[id] THEN p.borrowed[id] ELSE len
  IN  IF id \in p.live /\ keep < SeqLen(p, id)
      THEN [ p EXCEPT !.free = @ \o Reverse(SubSeq(p.slots[id], keep + 1, SeqLen(p, id))),
                      !.slots[id] = SubSeq(@, 1, keep) ]
      ELSE p

-----------------------------------------------------------------------------
(* Mutant of Fork: the row takes the slots for its own. *)
ForkOwning(p, src, dst) == [ p EXCEPT !.slots[dst] = p.slots[src] ]

(* fork: an empty row borrows all the tokens of another. *)
CanFork(p, src, dst) == src # dst /\ {src, dst} \subseteq p.live /\ SeqLen(p, dst) = 0
Fork(p, src, dst) == [ p EXCEPT !.slots[dst] = p.slots[src], !.borrowed[dst] = SeqLen(p, src) ]

(* Mutant of AttachPrefix: the row takes the slots for its own. *)
AttachOwning(p, dst, slots) == [ p EXCEPT !.slots[dst] = slots ]

(* attach_prefix: an empty row borrows slots a cache owns. *)
CanAttachPrefix(p, dst, slots) == dst \in p.live /\ SeqLen(p, dst) = 0 /\ Len(slots) <= MaxSeq
AttachPrefix(p, dst, slots) == [ p EXCEPT !.slots[dst] = slots, !.borrowed[dst] = Len(slots) ]

(* keep_prefix: the row stops owning its first `upto` slots. *)
CanKeepPrefix(p, id, upto) == id \in p.live /\ upto <= SeqLen(p, id)
KeepPrefix(p, id, upto) == [ p EXCEPT !.borrowed[id] = IF @ < upto THEN upto ELSE @ ]

(* release_slots: an owner outside the pool is done with them. *)
ReleaseSlots(p, slots) == [ p EXCEPT !.free = @ \o Reverse(slots) ]

=============================================================================
