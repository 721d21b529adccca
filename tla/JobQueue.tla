------------------------------ MODULE JobQueue ------------------------------
(***************************************************************************)
(* The `jobs` table of one store and the runners of the processes that     *)
(* share it (packages/memory/src/pipeline/jobs.ts and runner.ts).  Every   *)
(* access is one BEGIN IMMEDIATE transaction, so a transaction is a step;  *)
(* between two steps of a runner any other process may act, time may pass, *)
(* or the process may die.                                                 *)
(*                                                                         *)
(* Times are kept relative to the present: `due` is run_after - now,       *)
(* `lease` is lease_until - now, `age` is now - completed_at.  A column no *)
(* statement reads in a row's state holds 0.  ClockTick moves the present  *)
(* and lets a value saturate once no comparison can tell it from an older  *)
(* one, so time itself is unbounded.                                       *)
(***************************************************************************)
EXTENDS Integers

CONSTANTS Procs,             \* processes with a runner on this store
          Jobs,              \* deterministic job ids
          Rebuilds,          \* the ids of kind 'rebuild'
          Tokens,            \* lease tokens (randomUUID)
          NULL,              \* SQL NULL
          MaxClaims,         \* MAX_CLAIMS
          LeaseDuration,     \* LEASE_DURATION_MS
          JobTimeout,        \* JOB_TIMEOUT_MS
          RetryBackoff,      \* RETRY_BACKOFF_MS
          DoneRetention,     \* DONE_RETENTION_MS
          FailedRetention,   \* FAILED_RETENTION_MS
          MaxLag             \* bound: the stalest clock reading looked at

ASSUME JobsAssumption == Rebuilds \subseteq Jobs /\ NULL \notin Tokens

ASSUME TimesAssumption ==
  /\ MaxClaims \in Nat /\ LeaseDuration \in Nat /\ JobTimeout \in Nat
  /\ RetryBackoff \in Nat /\ DoneRetention \in Nat /\ FailedRetention \in Nat
  /\ MaxLag \in Nat

VARIABLES jobs,        \* [Jobs -> Row]: the table; state "none" is no row
          worker,      \* [Procs -> Worker]: each process's runner
          superseded,  \* the rebuild ids whose revision the store has left
          runs,        \* history: handler runs of the job since its trigger
          applied      \* history: business commits of the job since its trigger

vars == <<jobs, worker, superseded, runs, applied>>

-----------------------------------------------------------------------------
(* Rows and runners. *)

Larger(a, b) == IF a > b THEN a ELSE b
Smaller(a, b) == IF a < b THEN a ELSE b
LeaseFloor == -MaxLag - 1
AgeCap == Larger(DoneRetention, FailedRetention) + MaxLag + 1

Row == [state: {"none", "pending", "running", "done", "failed"},
        attempts: 0 .. MaxClaims + 1, due: Int, token: Tokens \cup {NULL},
        lease: Int, age: Nat]

NoRow == [state |-> "none", attempts |-> 0, due |-> 0, token |-> NULL,
          lease |-> 0, age |-> 0]

PendingRow(n, d) == [state |-> "pending", attempts |-> n, due |-> d,
                     token |-> NULL, lease |-> 0, age |-> 0]

(* "scan": the tick has read the clock and not reached this store's claim; *)
(* "poison": claimed past the dead-letter line; "run": in the handler.     *)
(* `lag` is how stale the tick's clock reading is or was at the claim,     *)
(* `ran` how long the handler has been running.                            *)
Worker == [phase: {"idle", "scan", "poison", "run"}, lag: 0 .. MaxLag,
           job: Jobs \cup {NULL}, token: Tokens \cup {NULL},
           attempts: 0 .. MaxClaims + 1, ran: 0 .. JobTimeout + 1]

Idle == [phase |-> "idle", lag |-> 0, job |-> NULL, token |-> NULL,
         attempts |-> 0, ran |-> 0]

Init == /\ jobs = [j \in Jobs |-> NoRow]
        /\ worker = [p \in Procs |-> Idle]
        /\ superseded = {}
        /\ runs = [j \in Jobs |-> 0]
        /\ applied = [j \in Jobs |-> 0]

-----------------------------------------------------------------------------
(* The table's statements. *)

(* Mutant: the conflict clause without its WHERE state = 'failed'.          *)
TriggersDone(j) == jobs[j].state \in {"none", "failed", "done"}

(* INSERT, or the ON CONFLICT ... WHERE state = 'failed' revival; any other *)
(* state absorbs the trigger.                                               *)
Triggers(j) == jobs[j].state \in {"none", "failed"}

EnqueueJob(j) ==
  /\ Triggers(j)
  /\ jobs' = [jobs EXCEPT ![j] = PendingRow(0, 0)]
  /\ runs' = [runs EXCEPT ![j] = 0]
  /\ applied' = [applied EXCEPT ![j] = 0]
  /\ UNCHANGED <<worker, superseded>>

(* Mutants: a claim that ignores the lease, and one tick too early.        *)
ClaimableWhileLeased(j, now) ==
  jobs[j].state \in {"pending", "running"} /\ jobs[j].due <= now

ClaimableAtExpiry(j, now) ==
  /\ \/ jobs[j].state = "pending"
     \/ jobs[j].state = "running" /\ jobs[j].lease <= now
  /\ jobs[j].due <= now

(* peekClaimable: `now` is the tick's clock reading, relative to the present. *)
Claimable(j, now) ==
  /\ \/ jobs[j].state = "pending"
     \/ jobs[j].state = "running" /\ jobs[j].lease < now
  /\ jobs[j].due <= now

(* ORDER BY run_after LIMIT 1; a tie, which created_at breaks, is a choice. *)
FirstClaimable(j, now) ==
  /\ Claimable(j, now)
  /\ \A k \in Jobs : Claimable(k, now) => jobs[j].due <= jobs[k].due

InUse == {jobs[j].token : j \in Jobs} \cup {worker[p].token : p \in Procs}

(* Mutant: taking over a crashed worker's claim costs no attempt.          *)
FreeTakeover(j) == IF jobs[j].state = "running" THEN jobs[j].attempts
                   ELSE Smaller(jobs[j].attempts + 1, MaxClaims + 1)

(* attempts + 1, saturating: it is only ever compared with MAX_CLAIMS. *)
NextAttempt(j) == Smaller(jobs[j].attempts + 1, MaxClaims + 1)

IsPoisoned(n) == n > MaxClaims

ClaimNextJob(p, j, t) ==
  LET now == -worker[p].lag
      n == NextAttempt(j)
  IN /\ worker[p].phase = "scan"
     /\ FirstClaimable(j, now)
     /\ t \in Tokens \ InUse
     /\ jobs' = [jobs EXCEPT ![j] =
          [state |-> "running", attempts |-> n, due |-> jobs[j].due, token |-> t,
           lease |-> now + LeaseDuration, age |-> 0]]
     /\ worker' = [worker EXCEPT ![p] =
          [phase |-> IF IsPoisoned(n) THEN "poison" ELSE "run",
           lag |-> worker[p].lag, job |-> j, token |-> t, attempts |-> n, ran |-> 0]]
     /\ runs' = [runs EXCEPT ![j] = IF IsPoisoned(n) THEN runs[j] ELSE runs[j] + 1]
     /\ UNCHANGED <<superseded, applied>>

(* Mutant: the fencing test without the token.                             *)
HoldsAnyLease(p) == jobs[worker[p].job].state = "running"

(* WHERE id = ? AND state = 'running' AND lease_token = ?: the fencing test. *)
HoldsLease(p) == /\ jobs[worker[p].job].state = "running"
                 /\ jobs[worker[p].job].token = worker[p].token

DoneRow(t) == [state |-> "done", attempts |-> 0, due |-> 0,
               token |-> t, lease |-> 0, age |-> 0]

FailedRow == [state |-> "failed", attempts |-> 0, due |-> 0,
              token |-> NULL, lease |-> 0, age |-> 0]

(* The row is done and the business writes land, in one transaction; a     *)
(* FencingError rolls both back and the runner yields to the successor.    *)
CommitClaimedJob(p) ==
  LET j == worker[p].job
  IN /\ worker[p].phase = "run"
     /\ \/ /\ HoldsLease(p)
           /\ jobs' = [jobs EXCEPT ![j] = DoneRow(worker[p].token)]
           /\ applied' = [applied EXCEPT ![j] = applied[j] + 1]
        \/ ~HoldsLease(p) /\ UNCHANGED <<jobs, applied>>
     /\ worker' = [worker EXCEPT ![p] = Idle]
     /\ UNCHANGED <<superseded, runs>>

(* Back to pending, its attempts kept, after a backoff that grows with the  *)
(* claims the worker knows of.                                             *)
RetryRow(p) == PendingRow(jobs[worker[p].job].attempts, RetryBackoff * worker[p].attempts)

(* Mutant: no failure is final.                                            *)
AlwaysRetry(p, dead) == RetryRow(p)

ExitRow(p, dead) == IF dead \/ IsPoisoned(worker[p].attempts)
                    THEN FailedRow
                    ELSE RetryRow(p)

FailClaimedJob(p, dead) ==
  /\ \/ /\ HoldsLease(p)
        /\ jobs' = [jobs EXCEPT ![worker[p].job] = ExitRow(p, dead)]
     \/ ~HoldsLease(p) /\ UNCHANGED jobs
  /\ worker' = [worker EXCEPT ![p] = Idle]
  /\ UNCHANGED <<superseded, runs, applied>>

(* done past its retention, failed past its own, and failed rebuilds whose *)
(* revision the store has left.                                            *)
Expired(j, lag) ==
  \/ jobs[j].state = "done" /\ jobs[j].age - lag > DoneRetention
  \/ jobs[j].state = "failed" /\ jobs[j].age - lag > FailedRetention
  \/ jobs[j].state = "failed" /\ j \in superseded

CleanupJobs(p) ==
  /\ worker[p].phase = "scan"
  /\ \E j \in Jobs : Expired(j, worker[p].lag)
  /\ jobs' = [j \in Jobs |-> IF Expired(j, worker[p].lag) THEN NoRow ELSE jobs[j]]
  /\ UNCHANGED <<worker, superseded, runs, applied>>

-----------------------------------------------------------------------------
(* The runner. *)

(* JobRunner.tick: single-flight, and `now` is read once for every store.  *)
BeginTick(p) ==
  /\ worker[p].phase = "idle"
  /\ worker' = [worker EXCEPT ![p] = [Idle EXCEPT !.phase = "scan"]]
  /\ UNCHANGED <<jobs, superseded, runs, applied>>

(* Nothing claimable, the agent is busy, or the transaction lost the lock. *)
SkipTick(p) ==
  /\ worker[p].phase = "scan"
  /\ worker' = [worker EXCEPT ![p] = Idle]
  /\ UNCHANGED <<jobs, superseded, runs, applied>>

(* runJob of a poisoned claim: the dead-letter exit, no handler.           *)
DeadLetter(p) == worker[p].phase = "poison" /\ FailClaimedJob(p, TRUE)

(* The handler threw: a model error, a bad reply, the timeout's abort, a   *)
(* rolled-back commit, or the runner being disposed.                       *)
RetryExit(p) == worker[p].phase = "run" /\ FailClaimedJob(p, FALSE)

(* The process dies, or its exit transaction fails and is only logged: the *)
(* row stays as it is until its lease runs out.                            *)
Crash(p) ==
  /\ worker[p].phase # "idle"
  /\ worker' = [worker EXCEPT ![p] = Idle]
  /\ UNCHANGED <<jobs, superseded, runs, applied>>

-----------------------------------------------------------------------------
(* The environment. *)

(* A write to the source set moves store_revision past a rebuild's.        *)
Supersede(j) ==
  /\ j \in Rebuilds \ superseded
  /\ superseded' = superseded \cup {j}
  /\ UNCHANGED <<jobs, worker, runs, applied>>

AgedRow(r) ==
  [state |-> r.state, attempts |-> r.attempts, token |-> r.token,
   due |-> IF r.state \in {"pending", "running"} THEN Larger(r.due - 1, -MaxLag) ELSE 0,
   lease |-> IF r.state = "running" THEN Larger(r.lease - 1, LeaseFloor) ELSE 0,
   age |-> IF r.state \in {"done", "failed"} THEN Smaller(r.age + 1, AgeCap) ELSE 0]

AgedWorker(w) ==
  [phase |-> w.phase, job |-> w.job, token |-> w.token, attempts |-> w.attempts,
   lag |-> IF w.phase = "scan" THEN w.lag + 1 ELSE w.lag,
   ran |-> IF w.phase = "run" THEN Smaller(w.ran + 1, JobTimeout + 1) ELSE 0]

(* One unit of time.  Nothing in the code bounds what a tick spends on the *)
(* jobs of earlier stores; MaxLag only ends the count, past a whole lease. *)
ClockTick ==
  /\ \A p \in Procs : worker[p].phase = "scan" => worker[p].lag < MaxLag
  /\ jobs' = [j \in Jobs |-> AgedRow(jobs[j])]
  /\ worker' = [p \in Procs |-> AgedWorker(worker[p])]
  /\ UNCHANGED <<superseded, runs, applied>>

RunnerStep(p) ==
  \/ BeginTick(p)
  \/ SkipTick(p)
  \/ CleanupJobs(p)
  \/ \E j \in Jobs, t \in Tokens : ClaimNextJob(p, j, t)
  \/ DeadLetter(p)
  \/ CommitClaimedJob(p)
  \/ RetryExit(p)
  \/ Crash(p)

Next == \/ \E j \in Jobs : EnqueueJob(j) \/ Supersede(j)
        \/ \E p \in Procs : RunnerStep(p)
        \/ ClockTick

Spec == Init /\ [][Next]_vars

(* What the schedule gives: intervals keep firing, a tick leaves this      *)
(* store, a handler ends (its signal times out).  A job that stays         *)
(* claimable becomes the oldest by run_after and the agent is idle at some *)
(* tick, so it is claimed; and the process is not killed at every one of   *)
(* the dead-letter transactions that directly follow a poisoned claim.     *)
Fairness ==
  /\ WF_vars(ClockTick)
  /\ \A p \in Procs :
       /\ WF_vars(BeginTick(p))
       /\ WF_vars(SkipTick(p) \/ \E j \in Jobs, t \in Tokens : ClaimNextJob(p, j, t))
       /\ WF_vars(CommitClaimedJob(p) \/ RetryExit(p))
       /\ WF_vars(DeadLetter(p))
  /\ \A j \in Jobs :
       /\ SF_vars(\E p \in Procs, t \in Tokens : ClaimNextJob(p, j, t))
       /\ SF_vars(\E p \in Procs : worker[p].job = j /\ HoldsLease(p) /\ DeadLetter(p))

FairSpec == Spec /\ Fairness

-----------------------------------------------------------------------------
(* Properties. *)

(* Type invariant of the table and the runners.                            *)
TypeOK == /\ jobs \in [Jobs -> Row]
          /\ worker \in [Procs -> Worker]
          /\ superseded \subseteq Rebuilds
          /\ runs \in [Jobs -> Nat]
          /\ applied \in [Jobs -> Nat]

Working(p) == worker[p].phase \in {"run", "poison"}

(* A worker whose claim another worker has taken over ends its run without *)
(* touching the row or applying a business write, whichever of its three   *)
(* exits it takes (D6; the FencingError of commitClaimedJob and the        *)
(* conditional UPDATEs of failClaimedJob).                                 *)
LateWorkerWritesNothing ==
  [][\A p \in Procs :
       Working(p) /\ worker'[p] = Idle /\ jobs[worker[p].job].token # worker[p].token
         => jobs' = jobs /\ applied' = applied]_vars

TakenFrom(j) == jobs[j].state = "running"
                  /\ (jobs'[j].state # "running" \/ jobs'[j].token # jobs[j].token)

HolderExits(j) == \E p \in Procs : /\ Working(p) /\ worker'[p] = Idle
                                   /\ worker[p].job = j
                                   /\ worker[p].token = jobs[j].token

(* A running row leaves its holder's hands only through the holder's own   *)
(* exit or after the lease has run out by the clock: no other process, and *)
(* no sweep, takes work from a worker inside its lease.                    *)
LeaseRespected ==
  [][\A j \in Jobs : TakenFrom(j) => jobs[j].lease < 0 \/ HolderExits(j)]_vars

(* Between two triggers of a job its handler is started at most MAX_CLAIMS *)
(* times, crashes, lost leases and failed exits included: an attempt is    *)
(* spent when it is claimed, which is the poison-job defence.              *)
BudgetRespected == \A j \in Jobs : runs[j] <= MaxClaims

(* The row of a worker still in its handler has gone to another worker.    *)
Overtaken(p) == worker[p].phase = "run" /\ ~HoldsLease(p)

(* A worker loses its job to another one only when it has outlived its     *)
(* cooperative timeout, or was given a lease already used up beyond the    *)
(* slack between the two durations, by a tick whose clock reading had      *)
(* grown stale over earlier stores' jobs: the timeout reduces duplicate    *)
(* work (constants.ts), and these are the two ways in which it cannot.     *)
OnlyLateWorkersAreOvertaken ==
  \A p \in Procs : Overtaken(p) => \/ worker[p].ran > JobTimeout
                                   \/ worker[p].lag > LeaseDuration - JobTimeout

(* The queue keeps the ledger's promise: the row of a finished job shows   *)
(* exactly one business commit, and claims, leases, retries and crashes    *)
(* are steps the ledger does not see.                                      *)
LedgerStatus(r) == CASE r.state = "none" -> "none"
                     [] r.state \in {"pending", "running"} -> "open"
                     [] r.state = "done" -> "done"
                     [] r.state = "failed" -> "dead"

Ledger == INSTANCE JobLedger WITH status <- [j \in Jobs |-> LedgerStatus(jobs[j])]

LedgerSpec == Ledger!Spec

(* Every job a trigger opened is finished or dead-lettered in the end,     *)
(* whatever its workers suffer: an expired lease is taken over and the     *)
(* claim budget runs out.                                                  *)
EveryJobSettles ==
  \A j \in Jobs : jobs[j].state \in {"pending", "running"}
                    ~> jobs[j].state \in {"done", "failed"}
=============================================================================
