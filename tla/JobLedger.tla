------------------------------ MODULE JobLedger ------------------------------
(***************************************************************************)
(* What the job table promises to the code that queues work, with leases,  *)
(* claims, crashes and retries left out: a unit of work is opened by a     *)
(* trigger, then either finished once, its business writes landing at that *)
(* instant, or given up on.  A trigger reopens work that was given up on   *)
(* and is absorbed by work that is open or finished.                       *)
(***************************************************************************)
EXTENDS Naturals

CONSTANT Jobs            \* the deterministic job ids

VARIABLES status,        \* [Jobs -> {"none", "open", "done", "dead"}]
          applied        \* [Jobs -> Nat]: business commits since the trigger

ledger == <<status, applied>>

Init == /\ status = [j \in Jobs |-> "none"]
        /\ applied = [j \in Jobs |-> 0]

Trigger(j) == /\ status[j] \in {"none", "dead"}
              /\ status' = [status EXCEPT ![j] = "open"]
              /\ applied' = [applied EXCEPT ![j] = 0]

Finish(j) == /\ status[j] = "open"
             /\ status' = [status EXCEPT ![j] = "done"]
             /\ applied' = [applied EXCEPT ![j] = applied[j] + 1]

GiveUp(j) == /\ status[j] = "open"
             /\ status' = [status EXCEPT ![j] = "dead"]
             /\ UNCHANGED applied

(* Retention forgets finished and abandoned work, never open work. *)
Purge(S) == /\ \A j \in S : status[j] \in {"done", "dead"}
            /\ status' = [j \in Jobs |-> IF j \in S THEN "none" ELSE status[j]]
            /\ UNCHANGED applied

Next == \/ \E j \in Jobs : Trigger(j) \/ Finish(j) \/ GiveUp(j)
        \/ \E S \in SUBSET Jobs : Purge(S)

Spec == Init /\ [][Next]_ledger
=============================================================================
