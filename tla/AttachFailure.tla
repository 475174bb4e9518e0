--------------------------- MODULE AttachFailure ---------------------------
(***************************************************************************)
(* Scheduler, and one more error of the device: the upload attach_prefix   *)
(* ends with (crates/model/src/cache.rs). By then it has filled in the     *)
(* row; admit gives the references back and keeps the row.                 *)
(***************************************************************************)
EXTENDS Scheduler

AttachFails(seq) ==
  /\ Granted
  /\ faults < MaxFaults /\ faults' = faults + 1
  /\ CanAlloc(pool, seq) /\ ~HadVision(cand.prompt)
  /\ \E n \in 1 .. FullBlocks(cand.prompt) :
       /\ Longest(cache, cand.prompt, Len(cand.prompt) - 1, n)
       /\ LET hit == HitKeys(cand.prompt, n)
          IN  cache' = Release(Lookup(cache, hit), hit)
       /\ pool' = AttachPrefix(Alloc(pool, seq), seq, HitSlots(cache, cand.prompt, n))
  /\ text' = [text EXCEPT ![seq] = cand.prompt]
  /\ Starts(seq, 0)
  /\ UNCHANGED << lease, kv >>

AttachNext == SchedNext \/ \E seq \in SeqIds : AttachFails(seq)
AttachSpec == SchedInit /\ [][AttachNext]_svars

(* scheduler.rs, admit, on an error of attach_prefix: "Not fatal: recompute  *)
(* the prompt". A row that is still to be fed has the KV of what was fed.    *)
RecomputesPrompt ==
  phase = "drop" => \A i \in 1 .. Len(running) :
    ~PromptComplete(running[i]) => SeqLen(pool, running[i].seq) = running[i].prefilled

=============================================================================
