----------------------------- MODULE Lifecycle -----------------------------
(***************************************************************************)
(* One process from its start to its teardown: the interval's tick over    *)
(* the open stores (pipeline/runner.ts), the model call it may be awaiting *)
(* (pipeline/llm-call.ts) and the effect that stops the runner and closes  *)
(* the stores (index.ts, store/store.ts dispose).  What a job does to its  *)
(* store, and the other processes, are JobQueue's, MemoryLayers' and       *)
(* Curation's; here a claimed job is one that is no longer waiting.  The   *)
(* names leave room for those of JobQueue, whose row one runner works on.  *)
(***************************************************************************)
EXTENDS Naturals, Sequences

CONSTANTS Stores,
          Damaged,   \* stores whose queue cannot be read: every claim throws
          CLEANUP_INTERVAL  \* intervals between two maintenance passes

ASSUME StoresAssumption == Damaged \subseteq Stores
ASSUME IntervalAssumption == CLEANUP_INTERVAL \in Nat \ {0}

VARIABLES opened,    \* the registry: open stores in the order of their opening
          waiting,   \* stores with a job to run
          since,     \* intervals since the clock of maintenance was set
          stopped,   \* the runner's latch, set with the abort of its signal
          tick,      \* the tick in flight
          teardown   \* "none", "awaiting" the tick or "closed"
process == <<opened, waiting, since, stopped, tick, teardown>>

NoTick == [at |-> "idle", todo |-> <<>>, cleanup |-> FALSE]
Running == tick.at # "idle"
Current == Head(tick.todo)
\* The tick awaits: the loop runs from one of these to the next without interruption.
Yields == tick.at \in {"idle", "pinned", "fallback", "resume"}
Member(s, q) == \E i \in DOMAIN q : q[i] = s

ProcessInit ==
  /\ opened = <<>> /\ waiting = {}
  /\ since = CLEANUP_INTERVAL + 1       \* lastCleanup starts at 0
  /\ stopped = FALSE /\ tick = NoTick /\ teardown = "none"

-----------------------------------------------------------------------------
(* The sessions. *)

Known(s) == Member(s, opened)

Open(s) == /\ Yields /\ teardown # "closed" /\ ~Known(s)
           /\ opened' = Append(opened, s)
           /\ UNCHANGED <<waiting, since, stopped, tick, teardown>>

\* A turn is captured with its job, or another process adds one.
Arrive(s) == /\ Member(s, opened) /\ s \notin waiting
             /\ waiting' = waiting \cup {s}
             /\ UNCHANGED <<opened, since, stopped, tick, teardown>>

TimePasses == /\ since <= CLEANUP_INTERVAL
              /\ since' = since + 1
              /\ UNCHANGED <<opened, waiting, stopped, tick, teardown>>

-----------------------------------------------------------------------------
(* The tick. *)

Tick == /\ ~Running /\ ~stopped
        /\ tick' = [at |-> "store", todo |-> opened, cleanup |-> since > CLEANUP_INTERVAL]
        /\ since' = IF since > CLEANUP_INTERVAL THEN 0 ELSE since
        /\ UNCHANGED <<opened, waiting, stopped, teardown>>

(* Mutant: the flag is not cleared when the loop is left early.            *)
OverAtTheEnd == tick.todo = <<>>
Over == tick.todo = <<>> \/ stopped

EndTick == /\ tick.at \in {"store", "resume"} /\ Over
           /\ tick' = NoTick
           /\ UNCHANGED <<opened, waiting, since, stopped, teardown>>

(* Mutant: the latch is read when the tick starts, not at every store.     *)
ReachesAny == tick.at \in {"store", "resume"} /\ tick.todo # <<>>
Reaches == tick.at \in {"store", "resume"} /\ tick.todo # <<>> /\ ~stopped

GoTo(step) == tick' = [tick EXCEPT !.at = step]
LeaveFor(step) == tick' = [at |-> step, todo |-> Tail(tick.todo), cleanup |-> tick.cleanup]
LeaveStore == LeaveFor("store")

\* Maintenance may queue jobs; if it loses the write lock nothing is claimed of this store.
Maintain == /\ Reaches /\ tick.cleanup
            /\ LeaveStore \/ GoTo("claim")
            /\ waiting' \in {waiting, waiting \cup {Current}}
            /\ UNCHANGED <<opened, since, stopped, teardown>>

NoMaintenance == /\ Reaches /\ ~tick.cleanup
                 /\ GoTo("claim")
                 /\ UNCHANGED <<opened, waiting, since, stopped, teardown>>

(* Mutant: what one store throws ends the tick.                            *)
ThrowOn == tick' = NoTick
Caught == LeaveStore

Throw == /\ tick.at = "claim" /\ Current \in Damaged
         /\ Caught
         /\ UNCHANGED <<opened, waiting, since, stopped, teardown>>

\* Nothing to run, an agent of the store at work, or the write lock lost.
Pass == /\ tick.at = "claim" /\ Current \notin Damaged
        /\ LeaveStore
        /\ UNCHANGED <<opened, waiting, since, stopped, teardown>>

\* A decay job, a poisoned job and a fenced one are over at once; the others call the model.
Claim(s) == /\ tick.at = "claim" /\ Current = s /\ s \notin Damaged /\ s \in waiting
            /\ waiting' = waiting \ {s}
            /\ LeaveFor("resume") \/ GoTo("pinned")
            /\ UNCHANGED <<opened, since, stopped, teardown>>

\* The pinned route failed for a reason other than the abort, and the default is another route.
FallBack == /\ tick.at = "pinned" /\ ~stopped
            /\ GoTo("fallback")
            /\ UNCHANGED <<opened, waiting, since, stopped, teardown>>

\* The reply is committed, or the call has failed, timed out or been aborted and the job waits again.
\* Either writes to the store, unless the commit was fenced or the exit failed.
EndCall == /\ tick.at \in {"pinned", "fallback"}
           /\ LeaveFor("resume")
           /\ waiting' \in {waiting, waiting \cup {Current}}
           /\ UNCHANGED <<opened, since, stopped, teardown>>

-----------------------------------------------------------------------------
(* The teardown. *)

Dispose == /\ Yields /\ teardown = "none"
           /\ stopped' = TRUE /\ teardown' = "awaiting"
           /\ UNCHANGED <<opened, waiting, since, tick>>

(* Mutant: the stores are closed without awaiting the tick.                *)
AtOnce == TRUE
Settled == ~Running

CloseStores == /\ teardown = "awaiting" /\ Settled
               /\ teardown' = "closed" /\ opened' = <<>>
               /\ UNCHANGED <<waiting, since, stopped, tick>>

Work == \/ EndTick \/ Maintain \/ NoMaintenance \/ Throw \/ Pass
        \/ (\E s \in Stores : Claim(s)) \/ FallBack \/ EndCall

ProcessNext == \/ \E s \in Stores : Open(s) \/ Arrive(s)
               \/ TimePasses \/ Tick \/ Work \/ Dispose \/ CloseStores

ProcessSpec == ProcessInit /\ [][ProcessNext]_process

\* The interval and the event loop go on, a call ends (it is aborted, or times out after four
\* minutes), and nothing keeps a store from a claim at every tick: its agents rest, its lock frees.
Maintained(s) == Maintain /\ Current = s /\ tick'.at = "claim"
ProcessFairness ==
  /\ WF_process(Tick) /\ WF_process(Work) /\ WF_process(CloseStores)
  /\ \A s \in Stores : SF_process(Claim(s)) /\ SF_process(Maintained(s))

FairProcess == ProcessSpec /\ ProcessFairness

-----------------------------------------------------------------------------
(* Properties. *)

(* Everything has its type, and the registry holds a store once: one        *)
(* connection, visited once by a tick (store.ts open).                     *)
ProcessTypes == /\ opened \in Seq(Stores)
                /\ \A i, j \in DOMAIN opened : opened[i] = opened[j] => i = j
                /\ waiting \subseteq Stores
                /\ since \in 0..(CLEANUP_INTERVAL + 1) /\ stopped \in BOOLEAN
                /\ tick \in [at : {"idle", "store", "resume", "claim", "pinned", "fallback"},
                             todo : Seq(Stores), cleanup : BOOLEAN]
                /\ teardown \in {"none", "awaiting", "closed"}

(* While a tick is on its way, whatever it is waiting for, the store it will *)
(* come back to is open: teardown closes nothing under the runner (index.ts, *)
(* the single teardown; runner.ts dispose).  A stopped runner is not about   *)
(* to claim: teardown burns no claim of the stores behind the interrupted   *)
(* one.                                                                     *)
TeardownIsSafe ==
  /\ Running => \A i \in DOMAIN tick.todo : Member(tick.todo[i], opened)
  /\ tick.at = "claim" => ~stopped

(* Teardown comes to its end, whatever it interrupts.                      *)
TeardownEnds == stopped ~> teardown = "closed"

(* A store with a job is served, or the process stops, however the stores   *)
(* before it fail and however long their jobs take.                        *)
EveryStoreIsServed ==
  \A s \in Stores \ Damaged : s \in waiting ~> s \notin waiting \/ stopped
=============================================================================
