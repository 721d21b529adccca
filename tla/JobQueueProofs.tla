--------------------------- MODULE JobQueueProofs ---------------------------
(***************************************************************************)
(* Theorems about JobQueue, for any number of processes, jobs and tokens   *)
(* and any values of the durations; and about Lifecycle, the process whose *)
(* runner works on such a queue, for any stores and any interval.          *)
(***************************************************************************)
EXTENDS JobQueue, Lifecycle, SequenceTheorems, TLAPS

USE TimesAssumption, JobsAssumption

(* The types of the records the steps build. *)
LEMMA NoRowType == NoRow \in Row
  BY DEF NoRow, Row

LEMMA IdleType == Idle \in Worker
  BY DEF Idle, Worker

LEMMA AgedRowType == ASSUME NEW r \in Row PROVE AgedRow(r) \in Row
  BY DEF AgedRow, Row, Larger, Smaller, LeaseFloor, AgeCap

LEMMA PendingRowType ==
  ASSUME NEW n \in 0 .. MaxClaims + 1, NEW d \in Int
  PROVE  PendingRow(n, d) \in Row
  BY DEF PendingRow, Row

LEMMA RetryRowType ==
  ASSUME TypeOK, NEW p \in Procs, worker[p].job \in Jobs
  PROVE  RetryRow(p) \in Row
<1>1. /\ jobs[worker[p].job].attempts \in 0 .. MaxClaims + 1
      /\ worker[p].attempts \in 0 .. MaxClaims + 1
  BY DEF TypeOK, Row, Worker
<1>2. RetryBackoff * worker[p].attempts \in Int
  BY <1>1
<1>3. QED
  BY <1>1, <1>2, PendingRowType DEF RetryRow

LEMMA SettledRowType == FailedRow \in Row /\ \A t \in Tokens : DoneRow(t) \in Row
  BY DEF FailedRow, DoneRow, Row

LEMMA NextAttemptType ==
  ASSUME TypeOK, NEW j \in Jobs
  PROVE  NextAttempt(j) \in 0 .. MaxClaims + 1
  BY DEF TypeOK, Row, NextAttempt, Smaller

LEMMA AgedWorkerType ==
  ASSUME NEW w \in Worker, w.phase = "scan" => w.lag < MaxLag
  PROVE  AgedWorker(w) \in Worker
  BY DEF AgedWorker, Worker, Smaller

(* Who is in the handler holds a claim on a job. *)
ClaimOK == \A p \in Procs : Working(p) => /\ worker[p].job \in Jobs
                                          /\ worker[p].token \in Tokens

LEMMA TypeInit == Init => TypeOK
  BY NoRowType, IdleType DEF Init, TypeOK

LEMMA ClaimInit == Init => ClaimOK
  BY DEF Init, ClaimOK, Working, Idle

(* Each step keeps the types and the claim of every working process. *)
LEMMA TypeStep == TypeOK /\ ClaimOK /\ [Next]_vars => TypeOK' /\ ClaimOK'
<1> SUFFICES ASSUME TypeOK, ClaimOK, [Next]_vars PROVE TypeOK' /\ ClaimOK'
  OBVIOUS
<1> USE DEF TypeOK, ClaimOK, Working
<1>1. ASSUME NEW j \in Jobs, EnqueueJob(j) PROVE TypeOK' /\ ClaimOK'
  BY <1>1, PendingRowType DEF EnqueueJob
<1>2. ASSUME NEW j \in Jobs, Supersede(j) PROVE TypeOK' /\ ClaimOK'
  BY <1>2 DEF Supersede
<1>3. ASSUME NEW p \in Procs, BeginTick(p) PROVE TypeOK' /\ ClaimOK'
  BY <1>3 DEF BeginTick, Worker, Idle
<1>4. ASSUME NEW p \in Procs, SkipTick(p) \/ Crash(p) PROVE TypeOK' /\ ClaimOK'
  BY <1>4, IdleType DEF SkipTick, Crash, Idle
<1>5. ASSUME NEW p \in Procs, CleanupJobs(p) PROVE TypeOK' /\ ClaimOK'
  BY <1>5, NoRowType DEF CleanupJobs
<1>6. ASSUME NEW p \in Procs, NEW j \in Jobs, NEW t \in Tokens, ClaimNextJob(p, j, t)
      PROVE  TypeOK' /\ ClaimOK'
  <2> DEFINE n == NextAttempt(j)
             row == [state |-> "running", attempts |-> n, due |-> jobs[j].due,
                     token |-> t, lease |-> -worker[p].lag + LeaseDuration, age |-> 0]
             wk == [phase |-> IF IsPoisoned(n) THEN "poison" ELSE "run",
                    lag |-> worker[p].lag,
                    job |-> j, token |-> t, attempts |-> n, ran |-> 0]
  <2>1. n \in 0 .. MaxClaims + 1
    BY NextAttemptType
  <2>2. row \in Row /\ wk \in Worker
    <3> HIDE DEF n
    <3> QED
      BY <2>1 DEF Row, Worker, IsPoisoned
  <2>3. jobs' = [jobs EXCEPT ![j] = row] /\ worker' = [worker EXCEPT ![p] = wk]
    BY <1>6 DEF ClaimNextJob
  <2>4. runs' \in [Jobs -> Nat] /\ UNCHANGED <<superseded, applied>>
    BY <1>6 DEF ClaimNextJob
  <2>5. wk.job \in Jobs /\ wk.token \in Tokens
    OBVIOUS
  <2> HIDE DEF row, wk
  <2> QED
    BY <2>2, <2>3, <2>4, <2>5
<1>7. ASSUME NEW p \in Procs, NEW d \in BOOLEAN, Working(p), FailClaimedJob(p, d)
      PROVE  TypeOK' /\ ClaimOK'
  <2>1. worker[p].job \in Jobs
    BY <1>7
  <2>2. ExitRow(p, d) \in Row
    BY <2>1, RetryRowType, SettledRowType DEF ExitRow
  <2>3. QED
    BY <1>7, <2>2, IdleType DEF FailClaimedJob, Idle
<1>8. ASSUME NEW p \in Procs, CommitClaimedJob(p) PROVE TypeOK' /\ ClaimOK'
  BY <1>8, SettledRowType, IdleType DEF CommitClaimedJob, Idle
<1>9. CASE ClockTick
  <2>1. \A j \in Jobs : AgedRow(jobs[j]) \in Row
    BY AgedRowType
  <2>2. \A p \in Procs : AgedWorker(worker[p]) \in Worker
    BY <1>9, AgedWorkerType DEF ClockTick
  <2>3. \A p \in Procs : /\ AgedWorker(worker[p]).phase = worker[p].phase
                         /\ AgedWorker(worker[p]).job = worker[p].job
                         /\ AgedWorker(worker[p]).token = worker[p].token
    BY DEF AgedWorker
  <2>4. QED
    BY <1>9, <2>1, <2>2, <2>3 DEF ClockTick
<1>10. CASE UNCHANGED vars
  BY <1>10 DEF vars
<1>11. QED
  BY <1>1, <1>2, <1>3, <1>4, <1>5, <1>6, <1>7, <1>8, <1>9, <1>10
     DEF Next, RunnerStep, DeadLetter, RetryExit

(* The table and the runners keep their types. *)
THEOREM TypeCorrect == Spec => [](TypeOK /\ ClaimOK)
<1>1. Init => TypeOK /\ ClaimOK
  BY TypeInit, ClaimInit
<1>2. QED
  BY <1>1, TypeStep, PTL DEF Spec

-----------------------------------------------------------------------------
(* Claims.  Two workers never share a token.                               *)
TokensDistinct == \A p, q \in Procs :
                    p # q /\ Working(p) /\ Working(q) => worker[p].token # worker[q].token

(* Every handler run of an open job was paid for by an attempt of its row. *)
RunsPaidFor == \A j \in Jobs : jobs[j].state \in {"pending", "running"}
                                 => runs[j] <= jobs[j].attempts

IInv == TypeOK /\ ClaimOK /\ TokensDistinct /\ RunsPaidFor /\ BudgetRespected

LEMMA InvInit == Init => IInv
<1>1. Init => TokensDistinct
  BY DEF Init, TokensDistinct, Working, Idle
<1>2. Init => RunsPaidFor /\ BudgetRespected
  BY DEF Init, RunsPaidFor, BudgetRespected, NoRow
<1>3. QED
  BY <1>1, <1>2, TypeInit, ClaimInit DEF IInv

(* A claim takes a token nobody else has. *)
LEMMA TokensStep == IInv /\ [Next]_vars => TokensDistinct'
<1> SUFFICES ASSUME IInv, [Next]_vars PROVE TokensDistinct'
  OBVIOUS
<1> USE DEF IInv, TypeOK, ClaimOK, TokensDistinct, Working
<1>1. ASSUME UNCHANGED worker PROVE TokensDistinct'
  BY <1>1
<1>2. ASSUME NEW p \in Procs, NEW w, worker' = [worker EXCEPT ![p] = w],
             w.phase \notin {"run", "poison"}
      PROVE  TokensDistinct'
  BY <1>2
<1>3. ASSUME NEW p \in Procs, NEW j \in Jobs, NEW t \in Tokens, ClaimNextJob(p, j, t)
      PROVE  TokensDistinct'
  <2>1. \A q \in Procs : worker[q].token # t
    BY <1>3 DEF ClaimNextJob, InUse
  <2>2. worker'[p].token = t /\ \A q \in Procs : q # p => worker'[q] = worker[q]
    BY <1>3 DEF ClaimNextJob
  <2>3. QED
    BY <2>1, <2>2
<1>4. ASSUME NEW p \in Procs,
             BeginTick(p) \/ SkipTick(p) \/ Crash(p) \/ CommitClaimedJob(p)
               \/ DeadLetter(p) \/ RetryExit(p)
      PROVE  TokensDistinct'
  BY <1>2, <1>4 DEF BeginTick, SkipTick, Crash, CommitClaimedJob, DeadLetter,
                    RetryExit, FailClaimedJob, Idle
<1>5. CASE ClockTick
  BY <1>5 DEF ClockTick, AgedWorker
<1>6. QED
  BY <1>1, <1>3, <1>4, <1>5
     DEF Next, RunnerStep, EnqueueJob, Supersede, CleanupJobs, vars

(* The part of IInv that counts handler runs. *)
LEMMA BudgetStep == IInv /\ [Next]_vars => RunsPaidFor' /\ BudgetRespected'
<1> SUFFICES ASSUME IInv, [Next]_vars PROVE RunsPaidFor' /\ BudgetRespected'
  OBVIOUS
<1> USE DEF IInv, TypeOK, ClaimOK, RunsPaidFor, BudgetRespected
<1>1. ASSUME NEW j \in Jobs, EnqueueJob(j) PROVE RunsPaidFor' /\ BudgetRespected'
  BY <1>1 DEF EnqueueJob, PendingRow
<1>2. ASSUME UNCHANGED <<jobs, runs>> PROVE RunsPaidFor' /\ BudgetRespected'
  BY <1>2
<1>3. ASSUME NEW p \in Procs, CleanupJobs(p) PROVE RunsPaidFor' /\ BudgetRespected'
  BY <1>3 DEF CleanupJobs, NoRow
<1>4. ASSUME NEW p \in Procs, NEW j \in Jobs, NEW t \in Tokens, ClaimNextJob(p, j, t)
      PROVE  RunsPaidFor' /\ BudgetRespected'
  <2>1. runs[j] <= jobs[j].attempts /\ runs[j] <= MaxClaims
    BY <1>4 DEF ClaimNextJob, FirstClaimable, Claimable
  <2>2. jobs[j].attempts \in 0 .. MaxClaims + 1
    BY DEF Row
  <2>3. /\ jobs' = [jobs EXCEPT ![j] = jobs'[j]]
        /\ jobs'[j].attempts = NextAttempt(j)
        /\ runs' = [runs EXCEPT ![j] = IF IsPoisoned(NextAttempt(j)) THEN runs[j]
                                       ELSE runs[j] + 1]
    BY <1>4 DEF ClaimNextJob
  <2>4. runs'[j] <= jobs'[j].attempts /\ runs'[j] <= MaxClaims
    BY <2>1, <2>2, <2>3 DEF NextAttempt, IsPoisoned, Smaller
  <2>5. QED
    BY <2>3, <2>4
<1>5. ASSUME NEW p \in Procs, NEW d \in BOOLEAN, Working(p), FailClaimedJob(p, d)
      PROVE  RunsPaidFor' /\ BudgetRespected'
  <2>1. CASE HoldsLease(p)
    <3> DEFINE j == worker[p].job
    <3>1. j \in Jobs /\ runs[j] <= jobs[j].attempts
      BY <1>5, <2>1 DEF HoldsLease, Working
    <3>2. /\ ExitRow(p, d).state = "pending" => ExitRow(p, d).attempts = jobs[j].attempts
          /\ ExitRow(p, d).state # "running"
      BY DEF ExitRow, RetryRow, PendingRow, FailedRow
    <3>3. jobs' = [jobs EXCEPT ![j] = ExitRow(p, d)] /\ UNCHANGED runs
      BY <1>5, <2>1 DEF FailClaimedJob
    <3>4. QED
      BY <3>1, <3>2, <3>3
  <2>2. CASE ~HoldsLease(p)
    BY <1>5, <2>2 DEF FailClaimedJob
  <2>3. QED
    BY <2>1, <2>2
<1>6. ASSUME NEW p \in Procs, CommitClaimedJob(p) PROVE RunsPaidFor' /\ BudgetRespected'
  BY <1>6 DEF CommitClaimedJob, DoneRow, Working
<1>7. CASE ClockTick
  BY <1>7 DEF ClockTick, AgedRow
<1>8. QED
  BY <1>1, <1>2, <1>3, <1>4, <1>5, <1>6, <1>7
     DEF Next, RunnerStep, DeadLetter, RetryExit, Supersede, BeginTick, SkipTick,
         Crash, Working, vars

LEMMA InvStep == IInv /\ [Next]_vars => IInv'
  BY TypeStep, TokensStep, BudgetStep DEF IInv

THEOREM Invariance == Spec => []IInv
  BY InvInit, InvStep, PTL DEF Spec

(* No job's handler runs more than MAX_CLAIMS times for one trigger: a     *)
(* crash, a lost lease and a failed exit each cost the attempt the claim   *)
(* spent, and a claim past the line never reaches a handler.               *)
THEOREM Budget == Spec => []BudgetRespected
<1>1. IInv => BudgetRespected
  BY DEF IInv
<1>2. QED
  BY <1>1, Invariance, PTL

-----------------------------------------------------------------------------
(* Steps. *)

(* Only a process's own exit idles a working process, and what that exit   *)
(* may write it writes only while it holds the row's token.                *)
LEMMA ExitStep ==
  ASSUME IInv, [Next]_vars, NEW p \in Procs, Working(p), worker'[p] = Idle
  PROVE  \/ UNCHANGED <<jobs, applied>>
         \/ HoldsLease(p) /\ \A k \in Jobs : k # worker[p].job => jobs'[k] = jobs[k]
<1> USE DEF IInv, TypeOK, ClaimOK, Working
<1>1. ASSUME NEW j \in Jobs, EnqueueJob(j) \/ Supersede(j) PROVE FALSE
  BY <1>1 DEF EnqueueJob, Supersede, Idle
<1>2. CASE ClockTick
  BY <1>2 DEF ClockTick, AgedWorker, Idle
<1>3. ASSUME NEW q \in Procs, q # p, RunnerStep(q) PROVE FALSE
  <2>1. ASSUME NEW w, worker' = [worker EXCEPT ![q] = w] PROVE FALSE
    BY <1>3, <2>1 DEF Idle
  <2>2. ASSUME UNCHANGED worker PROVE FALSE
    BY <2>2 DEF Idle
  <2>3. CASE BeginTick(q) \/ SkipTick(q) \/ CleanupJobs(q) \/ Crash(q)
    BY <2>1, <2>2, <2>3 DEF BeginTick, SkipTick, CleanupJobs, Crash
  <2>4. CASE \E j \in Jobs, t \in Tokens : ClaimNextJob(q, j, t)
    BY <2>1, <2>4 DEF ClaimNextJob
  <2>5. CASE DeadLetter(q) \/ RetryExit(q) \/ CommitClaimedJob(q)
    BY <2>1, <2>5 DEF DeadLetter, RetryExit, FailClaimedJob, CommitClaimedJob
  <2>6. QED
    BY <1>3, <2>3, <2>4, <2>5 DEF RunnerStep
<1>4. CASE DeadLetter(p) \/ RetryExit(p)
  BY <1>4 DEF DeadLetter, RetryExit, FailClaimedJob
<1>5. CASE CommitClaimedJob(p)
  BY <1>5 DEF CommitClaimedJob
<1>6. CASE Crash(p)
  BY <1>6 DEF Crash
<1>7. ASSUME BeginTick(p) \/ SkipTick(p) \/ CleanupJobs(p)
             \/ \E j \in Jobs, t \in Tokens : ClaimNextJob(p, j, t)
      PROVE  FALSE
  BY <1>7 DEF BeginTick, SkipTick, CleanupJobs, ClaimNextJob
<1>8. CASE UNCHANGED vars
  BY <1>8 DEF vars
<1>9. QED
  BY <1>1, <1>2, <1>3, <1>4, <1>5, <1>6, <1>7, <1>8 DEF Next, RunnerStep

(* A worker whose token the row no longer carries ends its run without a   *)
(* write: the fencing of D6, for every exit and every interleaving.        *)
THEOREM Fencing == Spec => LateWorkerWritesNothing
<1> DEFINE Late(p) == Working(p) /\ worker'[p] = Idle
                        /\ jobs[worker[p].job].token # worker[p].token
<1>1. IInv /\ [Next]_vars
        => [\A p \in Procs : Late(p) => jobs' = jobs /\ applied' = applied]_vars
  <2> SUFFICES ASSUME IInv, [Next]_vars, NEW p \in Procs, Late(p)
               PROVE  jobs' = jobs /\ applied' = applied
    OBVIOUS
  <2>1. ~HoldsLease(p)
    BY DEF HoldsLease
  <2>2. QED
    BY <2>1, ExitStep
<1>2. QED
  BY <1>1, Invariance, PTL DEF Spec, LateWorkerWritesNothing

(* A running row leaves its holder only by the holder's exit or after its  *)
(* lease has run out.                                                      *)
LEMMA TakeStep == ASSUME IInv, [Next]_vars, NEW k \in Jobs, TakenFrom(k)
                  PROVE  jobs[k].lease < 0 \/ HolderExits(k)
<1> USE DEF IInv, TypeOK, ClaimOK, Working, TakenFrom, HolderExits
<1>1. ASSUME NEW j \in Jobs, EnqueueJob(j) PROVE FALSE
  BY <1>1 DEF EnqueueJob, Triggers
<1>2. ASSUME UNCHANGED jobs PROVE FALSE
  BY <1>2
<1>3. ASSUME NEW p \in Procs, CleanupJobs(p) PROVE FALSE
  BY <1>3 DEF CleanupJobs, Expired
<1>4. ASSUME NEW p \in Procs, NEW j \in Jobs, NEW t \in Tokens, ClaimNextJob(p, j, t)
      PROVE  jobs[k].lease < 0 \/ HolderExits(k)
  <2>1. worker[p].lag \in Nat /\ jobs[k].lease \in Int
    BY DEF Worker, Row
  <2>2. k = j /\ jobs[j].lease < -worker[p].lag
    BY <1>4 DEF ClaimNextJob, FirstClaimable, Claimable
  <2>3. QED
    BY <2>1, <2>2
<1>5. ASSUME NEW p \in Procs, NEW d \in BOOLEAN, Working(p), FailClaimedJob(p, d)
      PROVE  jobs[k].lease < 0 \/ HolderExits(k)
  BY <1>5 DEF FailClaimedJob, HoldsLease
<1>6. ASSUME NEW p \in Procs, CommitClaimedJob(p) PROVE jobs[k].lease < 0 \/ HolderExits(k)
  BY <1>6 DEF CommitClaimedJob, HoldsLease
<1>7. CASE ClockTick
  BY <1>7 DEF ClockTick, AgedRow
<1>8. QED
  BY <1>1, <1>2, <1>3, <1>4, <1>5, <1>6, <1>7
     DEF Next, RunnerStep, DeadLetter, RetryExit, Supersede, BeginTick, SkipTick,
         Crash, vars

THEOREM LeaseHonoured == Spec => LeaseRespected
<1>1. IInv /\ [Next]_vars => [\A j \in Jobs : TakenFrom(j) => jobs[j].lease < 0 \/ HolderExits(j)]_vars
  BY TakeStep
<1>2. QED
  BY <1>1, Invariance, PTL DEF Spec, LeaseRespected

-----------------------------------------------------------------------------
(* Time.  A worker inside its timeout holds an unexpired lease if its      *)
(* claim's clock reading was no staler than the slack between the two      *)
(* durations; of a worker that claimed later than that nothing is said.    *)
InTime(p) == /\ worker[p].phase = "run" /\ worker[p].ran <= JobTimeout
             /\ worker[p].lag <= LeaseDuration - JobTimeout

InTimeHolds ==
  \A p \in Procs : InTime(p) =>
    /\ HoldsLease(p)
    /\ jobs[worker[p].job].lease >= LeaseDuration - worker[p].lag - worker[p].ran

LEMMA InTimeStep ==
  ASSUME IInv, InTimeHolds, [Next]_vars
  PROVE  InTimeHolds'
<1> USE DEF IInv, TypeOK, ClaimOK, Working, InTimeHolds, InTime, HoldsLease
<1>1. ASSUME NEW j \in Jobs, EnqueueJob(j) PROVE InTimeHolds'
  BY <1>1 DEF EnqueueJob, Triggers
<1>2. ASSUME UNCHANGED <<jobs, worker>> PROVE InTimeHolds'
  BY <1>2
<1>3. ASSUME NEW p \in Procs, BeginTick(p) \/ SkipTick(p) \/ Crash(p) PROVE InTimeHolds'
  BY <1>3 DEF BeginTick, SkipTick, Crash, Idle
<1>4. ASSUME NEW p \in Procs, CleanupJobs(p) PROVE InTimeHolds'
  BY <1>4 DEF CleanupJobs, Expired
<1>5. ASSUME NEW p \in Procs, NEW j \in Jobs, NEW t \in Tokens, ClaimNextJob(p, j, t)
      PROVE  InTimeHolds'
  <2>1. worker[p].lag \in 0 .. MaxLag
    BY DEF Worker
  <2>2. \A q \in Procs : InTime(q) => worker[q].job # j
    <3> SUFFICES ASSUME NEW q \in Procs, InTime(q), worker[q].job = j PROVE FALSE
      OBVIOUS
    <3>1. jobs[j].lease >= LeaseDuration - worker[q].lag - worker[q].ran
          /\ jobs[j].state = "running"
      OBVIOUS
    <3>2. jobs[j].lease < -worker[p].lag
      BY <1>5, <3>1 DEF ClaimNextJob, FirstClaimable, Claimable
    <3>3. /\ worker[q].ran \in 0 .. JobTimeout /\ jobs[j].lease \in Int
          /\ worker[q].lag \in 0 .. MaxLag /\ worker[q].lag <= LeaseDuration - JobTimeout
      BY DEF Worker, Row
    <3>4. QED
      BY <2>1, <3>1, <3>2, <3>3
  <2>3. /\ worker'[p].job = j /\ worker'[p].token = t /\ worker'[p].ran = 0
        /\ worker'[p].lag = worker[p].lag
        /\ jobs'[j].state = "running" /\ jobs'[j].token = t
        /\ jobs'[j].lease = -worker[p].lag + LeaseDuration
    BY <1>5 DEF ClaimNextJob
  <2>4. /\ \A q \in Procs : q # p => worker'[q] = worker[q]
        /\ \A k \in Jobs : k # j => jobs'[k] = jobs[k]
    BY <1>5 DEF ClaimNextJob
  <2>5. ASSUME NEW q \in Procs, InTime(q)'
        PROVE  /\ HoldsLease(q)'
               /\ jobs'[worker'[q].job].lease
                    >= LeaseDuration - worker'[q].lag - worker'[q].ran
    <3>1. CASE q = p
      BY <2>1, <2>3, <3>1
    <3>2. CASE q # p
      BY <2>2, <2>4, <2>5, <3>2
    <3>3. QED
      BY <3>1, <3>2
  <2>6. QED
    BY <2>5
<1>6. ASSUME NEW p \in Procs, NEW d \in BOOLEAN, Working(p), FailClaimedJob(p, d)
      PROVE  InTimeHolds'
  <2>1. worker' = [worker EXCEPT ![p] = Idle]
    BY <1>6 DEF FailClaimedJob
  <2>2. /\ \A k \in Jobs : k # worker[p].job => jobs'[k] = jobs[k]
        /\ ~HoldsLease(p) => jobs' = jobs
    BY <1>6 DEF FailClaimedJob
  <2>3. ASSUME NEW q \in Procs, q # p, InTime(q)
        PROVE  jobs'[worker[q].job] = jobs[worker[q].job]
    BY <1>6, <2>2, <2>3 DEF TokensDistinct
  <2>4. \A q \in Procs : InTime(q)' => q # p /\ worker'[q] = worker[q]
    BY <2>1 DEF Idle
  <2>5. QED
    BY <2>3, <2>4
<1>7. ASSUME NEW p \in Procs, CommitClaimedJob(p) PROVE InTimeHolds'
  BY <1>7 DEF CommitClaimedJob, TokensDistinct, Idle
<1>8. CASE ClockTick
  <2> SUFFICES ASSUME NEW p \in Procs, InTime(p)'
               PROVE  /\ HoldsLease(p)'
                      /\ jobs'[worker'[p].job].lease
                           >= LeaseDuration - worker'[p].lag - worker'[p].ran
    OBVIOUS
  <2> DEFINE r == jobs[worker[p].job]
  <2>1. /\ worker'[p].phase = worker[p].phase /\ worker'[p].job = worker[p].job
        /\ worker'[p].token = worker[p].token
        /\ worker'[p].ran = Smaller(worker[p].ran + 1, JobTimeout + 1)
    BY <1>8 DEF ClockTick, AgedWorker
  <2>2. worker[p].ran \in Nat /\ worker[p].lag \in 0 .. MaxLag /\ r \in Row
    BY <2>1 DEF Worker
  <2>3. /\ worker'[p].ran = worker[p].ran + 1 /\ worker'[p].lag = worker[p].lag
        /\ InTime(p)
    BY <1>8, <2>1, <2>2 DEF Smaller, ClockTick, AgedWorker
  <2>4. jobs'[worker[p].job] = AgedRow(r)
    BY <1>8, <2>3 DEF ClockTick
  <2>5. /\ AgedRow(r).state = r.state /\ AgedRow(r).token = r.token
        /\ AgedRow(r).lease = Larger(r.lease - 1, LeaseFloor)
    BY <2>3 DEF AgedRow
  <2>6. AgedRow(r).lease >= r.lease - 1
    BY <2>2, <2>5 DEF Larger, LeaseFloor, Row
  <2>7. r.lease \in Int /\ AgedRow(r).lease \in Int
    BY <2>2, <2>5 DEF Larger, LeaseFloor, Row
  <2>8. QED
    BY <2>1, <2>2, <2>3, <2>4, <2>5, <2>6, <2>7
<1>9. QED
  BY <1>1, <1>2, <1>3, <1>4, <1>5, <1>6, <1>7, <1>8
     DEF Next, RunnerStep, DeadLetter, RetryExit, Supersede, vars

(* A worker's job goes to another one only when the worker has outlived    *)
(* its timeout or began on a stale clock reading, however long ticks take. *)
THEOREM OvertakenWhenLate == Spec => []OnlyLateWorkersAreOvertaken
<1>1. Init => InTimeHolds
  BY DEF Init, InTimeHolds, InTime, Idle
<1>2. IInv /\ InTimeHolds /\ [Next]_vars => InTimeHolds'
  BY InTimeStep
<1>3. IInv /\ InTimeHolds => OnlyLateWorkersAreOvertaken
  <2> SUFFICES ASSUME IInv, InTimeHolds, NEW p \in Procs, Overtaken(p),
                      ~(worker[p].ran > JobTimeout),
                      ~(worker[p].lag > LeaseDuration - JobTimeout)
               PROVE  FALSE
    BY DEF OnlyLateWorkersAreOvertaken
  <2>1. worker[p].ran \in 0 .. JobTimeout + 1 /\ worker[p].lag \in 0 .. MaxLag
    BY DEF IInv, TypeOK, Worker
  <2>2. InTime(p)
    BY <2>1 DEF InTime, Overtaken
  <2>3. QED
    BY <2>2 DEF InTimeHolds, Overtaken
<1>4. QED
  BY <1>1, <1>2, <1>3, Invariance, PTL DEF Spec

-----------------------------------------------------------------------------
(* The table implements the ledger. *)
Status == [j \in Jobs |-> LedgerStatus(jobs[j])]

LEMMA StatusValues ==
  ASSUME NEW r \in Row
  PROVE  /\ r.state = "none" => LedgerStatus(r) = "none"
         /\ r.state \in {"pending", "running"} => LedgerStatus(r) = "open"
         /\ r.state = "done" => LedgerStatus(r) = "done"
         /\ r.state = "failed" => LedgerStatus(r) = "dead"
  BY DEF LedgerStatus, Row

(* One step of the table is a step of the ledger or one it does not see. *)
LEMMA LedgerStep ==
  ASSUME IInv, IInv', [Next]_vars
  PROVE  Ledger!Next \/ (Status' = Status /\ applied' = applied)
<1> USE DEF IInv, TypeOK, ClaimOK, Status, Working
<1>1. /\ \A j \in Jobs : jobs[j] \in Row /\ jobs'[j] \in Row
      /\ jobs = [j \in Jobs |-> jobs[j]] /\ applied = [j \in Jobs |-> applied[j]]
  OBVIOUS
<1>2. ASSUME NEW j \in Jobs, EnqueueJob(j) PROVE Ledger!Trigger(j)
  <2>1. /\ Status[j] \in {"none", "dead"}
        /\ Status' = [Status EXCEPT ![j] = "open"]
    <3>1. LedgerStatus(jobs'[j]) = "open" /\ LedgerStatus(jobs[j]) \in {"none", "dead"}
      BY <1>1, <1>2, StatusValues DEF EnqueueJob, Triggers, PendingRow
    <3>2. \A k \in Jobs : k # j => jobs'[k] = jobs[k]
      BY <1>2 DEF EnqueueJob
    <3>3. QED
      BY <3>1, <3>2
  <2>2. QED
    BY <1>2, <2>1 DEF EnqueueJob, Ledger!Trigger
<1>3. ASSUME NEW p \in Procs, CommitClaimedJob(p), HoldsLease(p)
      PROVE  Ledger!Finish(worker[p].job)
  <2> DEFINE j == worker[p].job
  <2>1. /\ LedgerStatus(jobs'[j]) = "done" /\ LedgerStatus(jobs[j]) = "open"
        /\ \A k \in Jobs : k # j => jobs'[k] = jobs[k]
    BY <1>1, <1>3, StatusValues DEF CommitClaimedJob, HoldsLease, DoneRow
  <2>2. j \in Jobs /\ Status[j] = "open" /\ Status' = [Status EXCEPT ![j] = "done"]
    BY <1>3, <2>1 DEF CommitClaimedJob
  <2>3. applied' = [applied EXCEPT ![j] = applied[j] + 1]
    BY <1>3 DEF CommitClaimedJob
  <2>4. QED
    BY <2>2, <2>3 DEF Ledger!Finish
<1>4. ASSUME NEW p \in Procs, NEW d \in BOOLEAN, Working(p), FailClaimedJob(p, d),
             HoldsLease(p)
      PROVE  Ledger!GiveUp(worker[p].job) \/ (Status' = Status /\ applied' = applied)
  <2> DEFINE j == worker[p].job
  <2>1. j \in Jobs /\ LedgerStatus(jobs[j]) = "open"
    BY <1>1, <1>4, StatusValues DEF HoldsLease
  <2>2. LedgerStatus(ExitRow(p, d)) \in {"open", "dead"}
    <3>1. ExitRow(p, d) \in Row
      BY <1>1, <1>4, <2>1 DEF FailClaimedJob
    <3>2. ExitRow(p, d).state \in {"failed", "pending"}
      BY DEF ExitRow, RetryRow, PendingRow, FailedRow
    <3>3. QED
      BY <3>1, <3>2, StatusValues
  <2>3. jobs' = [jobs EXCEPT ![j] = ExitRow(p, d)] /\ applied' = applied
    BY <1>4 DEF FailClaimedJob
  <2>4. Status' = [Status EXCEPT ![j] = LedgerStatus(ExitRow(p, d))]
    BY <2>1, <2>3
  <2>5. Status[j] = "open"
    BY <2>1
  <2>6. CASE LedgerStatus(ExitRow(p, d)) = "open"
    <3>1. \A k \in Jobs : Status'[k] = Status[k]
      BY <2>4, <2>5, <2>6
    <3>2. QED
      BY <2>3, <3>1
  <2>7. CASE LedgerStatus(ExitRow(p, d)) = "dead"
    <3>1. Status' = [Status EXCEPT ![j] = "dead"]
      BY <2>4, <2>7
    <3>2. QED
      BY <2>3, <2>5, <3>1 DEF Ledger!GiveUp
  <2>8. QED
    BY <2>2, <2>6, <2>7
<1>5. ASSUME NEW p \in Procs, CleanupJobs(p) PROVE Ledger!Next
  <2> DEFINE S == {j \in Jobs : Expired(j, worker[p].lag)}
  <2>1. \A j \in S : Status[j] \in {"done", "dead"}
    BY <1>1, StatusValues DEF Expired
  <2>2. Status' = [j \in Jobs |-> IF j \in S THEN "none" ELSE Status[j]]
    BY <1>5, StatusValues, NoRowType DEF CleanupJobs, NoRow
  <2>3. Ledger!Purge(S)
    BY <1>5, <2>1, <2>2 DEF CleanupJobs, Ledger!Purge
  <2>4. QED
    BY <2>3 DEF Ledger!Next
<1>6. ASSUME \A j \in Jobs : jobs'[j].state = jobs[j].state
                             \/ {jobs[j].state, jobs'[j].state} \subseteq {"pending", "running"},
             applied' = applied
      PROVE  Status' = Status /\ applied' = applied
  <2>1. \A j \in Jobs : LedgerStatus(jobs'[j]) = LedgerStatus(jobs[j])
    BY <1>1, <1>6, StatusValues DEF Row
  <2>2. QED
    BY <1>6, <2>1
<1>7. ASSUME NEW p \in Procs, NEW j \in Jobs, NEW t \in Tokens, ClaimNextJob(p, j, t)
      PROVE  Status' = Status /\ applied' = applied
  BY <1>6, <1>7 DEF ClaimNextJob, FirstClaimable, Claimable
<1>8. CASE ClockTick
  BY <1>6, <1>8 DEF ClockTick, AgedRow
<1>9. ASSUME NEW p \in Procs, CommitClaimedJob(p) \/ \E d \in BOOLEAN : FailClaimedJob(p, d),
             ~HoldsLease(p)
      PROVE  Status' = Status /\ applied' = applied
  BY <1>9 DEF CommitClaimedJob, FailClaimedJob
<1>10. ASSUME UNCHANGED <<jobs, applied>> PROVE Status' = Status /\ applied' = applied
  BY <1>10
<1>11. ASSUME NEW j \in Jobs, Ledger!Trigger(j) \/ Ledger!Finish(j) \/ Ledger!GiveUp(j)
       PROVE  Ledger!Next
  BY <1>11 DEF Ledger!Next
<1>12. ASSUME NEW p \in Procs, CommitClaimedJob(p)
       PROVE  Ledger!Next \/ (Status' = Status /\ applied' = applied)
  <2>1. worker[p].job \in Jobs
    BY <1>12 DEF CommitClaimedJob
  <2>2. QED
    BY <1>3, <1>9, <1>11, <1>12, <2>1
<1>13. ASSUME NEW p \in Procs, NEW d \in BOOLEAN, Working(p), FailClaimedJob(p, d)
       PROVE  Ledger!Next \/ (Status' = Status /\ applied' = applied)
  BY <1>4, <1>9, <1>11, <1>13
<1>14. ASSUME NEW p \in Procs, RunnerStep(p)
       PROVE  Ledger!Next \/ (Status' = Status /\ applied' = applied)
  BY <1>5, <1>7, <1>10, <1>12, <1>13, <1>14
     DEF RunnerStep, DeadLetter, RetryExit, BeginTick, SkipTick, Crash
<1>15. QED
  BY <1>2, <1>8, <1>10, <1>11, <1>14 DEF Next, Supersede, vars

(* Every behaviour of the table is one of the ledger: whatever the leases, *)
(* retries and crashes, a trigger's work is applied once, exactly when the *)
(* job is done, and only retention forgets it.                             *)
THEOREM Refinement == Spec => LedgerSpec
<1>1. Init => Ledger!Init
  BY NoRowType, StatusValues DEF Init, Ledger!Init, NoRow
<1>2. IInv /\ IInv' /\ [Next]_vars => [Ledger!Next]_(Ledger!ledger)
  BY LedgerStep DEF Ledger!ledger, Status
<1>3. QED
  BY <1>1, <1>2, Invariance, PTL DEF Spec, LedgerSpec, Ledger!Spec

(* What is left of an open job's claims.                                   *)
IsOpen(j) == jobs[j].state \in {"pending", "running"}
ClaimsLeft(j) == MaxClaims + 1 - jobs[j].attempts
Spends(j) == /\ ClaimsLeft(j) \in Nat
             /\ ClaimsLeft(j)' <= ClaimsLeft(j)
             /\ runs'[j] # runs[j] => ClaimsLeft(j)' < ClaimsLeft(j)

(* The measure behind EveryJobSettles: what is left of an open job's claims *)
(* never grows, whoever takes the row over, retries it or lets it age, and  *)
(* every start of the handler uses one up.                                 *)
THEOREM ClaimsRunOut ==
  Spec => [][\A j \in Jobs : IsOpen(j) /\ IsOpen(j)' => Spends(j)]_vars
<1>1. IInv /\ [Next]_vars =>
        [\A j \in Jobs : IsOpen(j) /\ IsOpen(j)' => Spends(j)]_vars
  <2> SUFFICES ASSUME IInv, Next, NEW j \in Jobs, IsOpen(j), IsOpen(j)' PROVE Spends(j)
    OBVIOUS
  <2>t. jobs \in [Jobs -> Row] /\ jobs[j].attempts \in 0 .. MaxClaims + 1 /\ MaxClaims \in Nat
    BY DEF IInv, TypeOK, Row
  <2>k. ASSUME jobs'[j].attempts = jobs[j].attempts, runs'[j] = runs[j] PROVE Spends(j)
    BY <2>t, <2>k DEF Spends, ClaimsLeft
  <2>1. ASSUME NEW i \in Jobs, EnqueueJob(i) PROVE Spends(j)
    <3>1. i # j
      BY <2>1 DEF EnqueueJob, Triggers, IsOpen
    <3> QED
      BY <2>t, <2>1, <2>k, <3>1 DEF EnqueueJob
  <2>2. ASSUME NEW p \in Procs, NEW i \in Jobs, NEW t \in Tokens, ClaimNextJob(p, i, t)
        PROVE  Spends(j)
    <3>1. CASE i # j
      BY <2>t, <2>2, <2>k, <3>1 DEF ClaimNextJob
    <3>2. CASE i = j
      <4>1. jobs'[j].attempts = NextAttempt(j)
        BY <2>t, <2>2, <3>2 DEF ClaimNextJob
      <4>2. IsPoisoned(NextAttempt(j)) => runs'[j] = runs[j]
        BY <2>2, <3>2 DEF ClaimNextJob, IInv, TypeOK
      <4> QED
        BY <2>t, <4>1, <4>2 DEF NextAttempt, Smaller, IsPoisoned, Spends, ClaimsLeft
    <3> QED
      BY <3>1, <3>2
  <2>3. ASSUME NEW p \in Procs, CommitClaimedJob(p) PROVE Spends(j)
    <3>1. jobs'[j] = jobs[j] /\ runs' = runs
      BY <2>t, <2>3 DEF CommitClaimedJob, DoneRow, IsOpen
    <3> QED
      BY <3>1, <2>k
  <2>4. ASSUME NEW p \in Procs, NEW dead \in BOOLEAN, FailClaimedJob(p, dead) PROVE Spends(j)
    <3>1. runs' = runs
      BY <2>4 DEF FailClaimedJob
    <3>2. jobs'[j].attempts = jobs[j].attempts
      <4>1. CASE jobs'[j] = jobs[j]
        BY <4>1
      <4>2. CASE worker[p].job = j /\ jobs'[j] = ExitRow(p, dead)
        BY <4>2 DEF ExitRow, FailedRow, RetryRow, PendingRow, IsOpen
      <4> QED
        BY <2>t, <2>4, <4>1, <4>2 DEF FailClaimedJob
    <3> QED
      BY <3>1, <3>2, <2>k
  <2>5. ASSUME NEW p \in Procs, CleanupJobs(p) PROVE Spends(j)
    <3>1. jobs'[j] = jobs[j] /\ runs' = runs
      BY <2>5 DEF CleanupJobs, NoRow, IsOpen
    <3> QED
      BY <3>1, <2>k
  <2>6. CASE ClockTick
    BY <2>6, <2>k DEF ClockTick, AgedRow
  <2>7. ASSUME UNCHANGED <<jobs, runs>> PROVE Spends(j)
    BY <2>7, <2>k
  <2> QED
    BY <2>1, <2>2, <2>3, <2>4, <2>5, <2>6, <2>7
       DEF Next, RunnerStep, BeginTick, SkipTick, DeadLetter, RetryExit, Crash, Supersede
<1> QED
  BY <1>1, Invariance, PTL DEF Spec

-----------------------------------------------------------------------------
(* The process.                                                            *)

(* The latch is set with the teardown and never without it.                *)
LatchIsTeardown == stopped <=> teardown # "none"

(* The stores are closed after the last tick.                              *)
ClosedIsQuiet == teardown = "closed" => ~Running

(* A step at a store has one to be at.                                     *)
AtAStore == tick.at \in {"claim", "pinned", "fallback"} => tick.todo # <<>>

LifeIInv == ProcessTypes /\ TeardownIsSafe /\ LatchIsTeardown /\ ClosedIsQuiet /\ AtAStore

Quiet == <<opened, stopped, teardown>>

LEMMA StillAMember ==
  ASSUME NEW q \in Seq(Stores), NEW s \in Stores, NEW x, Member(x, q)
  PROVE  Member(x, Append(q, s))
BY DEF Member

LEMMA OfTheTail ==
  ASSUME NEW q \in Seq(Stores), q # <<>>, NEW i \in DOMAIN Tail(q)
  PROVE  i + 1 \in DOMAIN q /\ Tail(q)[i] = q[i + 1]
<1>1. Tail(q) \in Seq(Stores) /\ Len(Tail(q)) = Len(q) - 1
  BY HeadTailProperties
<1>2. i \in 1..Len(Tail(q)) /\ Tail(q)[i] = q[i + 1]
  BY <1>1, HeadTailProperties
<1>3. DOMAIN q = 1..Len(q) /\ Len(q) \in Nat
  OBVIOUS
<1> QED
  BY <1>1, <1>2, <1>3

LEMMA LifeInit == ProcessInit => LifeIInv
<1> SUFFICES ASSUME ProcessInit PROVE LifeIInv
  OBVIOUS
<1>1. ProcessTypes
  <2>1. since \in 0..(CLEANUP_INTERVAL + 1)
    BY IntervalAssumption DEF ProcessInit
  <2>2. opened \in Seq(Stores) /\ \A i, j \in DOMAIN opened : opened[i] = opened[j] => i = j
    BY DEF ProcessInit
  <2> QED
    BY <2>1, <2>2 DEF ProcessInit, ProcessTypes, NoTick
<1>2. TeardownIsSafe /\ LatchIsTeardown /\ ClosedIsQuiet /\ AtAStore
  BY DEF ProcessInit, TeardownIsSafe, LatchIsTeardown, ClosedIsQuiet, AtAStore, Running,
         NoTick
<1> QED
  BY <1>1, <1>2 DEF LifeIInv

(* Within a tick the loop goes on with the same stores or with one less.    *)
LEMMA TickGoesOn ==
  ASSUME LifeIInv, tick.at # "idle", UNCHANGED Quiet, waiting' \subseteq Stores, since' = since,
         NEW step \in {"store", "resume", "claim", "pinned", "fallback"},
         tick.todo # <<>>, step = "claim" => ~stopped,
         \/ GoTo(step)
         \/ LeaveFor(step) /\ step \in {"store", "resume"}
  PROVE  LifeIInv'
<1> USE DEF LifeIInv, Quiet
<1>1. tick.todo \in Seq(Stores) /\ tick.cleanup \in BOOLEAN
  BY DEF ProcessTypes
<1>2. /\ tick' = [at |-> step, todo |-> tick'.todo, cleanup |-> tick.cleanup]
      /\ tick'.todo \in {tick.todo, Tail(tick.todo)} /\ tick'.todo \in Seq(Stores)
      /\ step \in {"claim", "pinned", "fallback"} => tick'.todo = tick.todo
  <2>1. Tail(tick.todo) \in Seq(Stores)
    BY <1>1
  <2>2. CASE GoTo(step)
    BY <1>1, <2>2 DEF ProcessTypes, GoTo
  <2>3. CASE LeaveFor(step) /\ step \in {"store", "resume"}
    BY <1>1, <2>1, <2>3 DEF LeaveFor
  <2> QED
    BY <2>2, <2>3
<1>3. ProcessTypes'
  BY <1>1, <1>2 DEF ProcessTypes
<1>4. ASSUME NEW i \in DOMAIN tick'.todo
      PROVE  Member(tick'.todo[i], opened)
  <2>1. CASE tick'.todo = tick.todo
    BY <2>1, <1>4 DEF TeardownIsSafe, Running
  <2>2. CASE tick'.todo = Tail(tick.todo)
    <3>1. i + 1 \in DOMAIN tick.todo /\ tick'.todo[i] = tick.todo[i + 1]
      BY <1>1, <2>2, <1>4, OfTheTail
    <3> QED
      BY <3>1 DEF TeardownIsSafe, Running
  <2> QED
    BY <1>2, <2>1, <2>2
<1>5. TeardownIsSafe'
  BY <1>2, <1>4 DEF TeardownIsSafe, Member
<1>6. LatchIsTeardown' /\ ClosedIsQuiet' /\ AtAStore'
  BY <1>2 DEF LatchIsTeardown, ClosedIsQuiet, AtAStore, Running
<1> QED
  BY <1>3, <1>5, <1>6

LEMMA LifeStep == LifeIInv /\ [ProcessNext]_process => LifeIInv'
<1> SUFFICES ASSUME LifeIInv, [ProcessNext]_process PROVE LifeIInv'
  OBVIOUS
<1>t. /\ tick \in [at : {"idle", "store", "resume", "claim", "pinned", "fallback"},
                   todo : Seq(Stores), cleanup : BOOLEAN]
      /\ opened \in Seq(Stores) /\ waiting \subseteq Stores
      /\ since \in 0..(CLEANUP_INTERVAL + 1)
  BY DEF LifeIInv, ProcessTypes
<1>h. tick.todo # <<>> => Current \in Stores
  BY <1>t DEF Current
<1>1. ASSUME NEW s \in Stores, Open(s) PROVE LifeIInv'
  <2>1. /\ opened' \in Seq(Stores) /\ UNCHANGED <<waiting, since, stopped, tick, teardown>>
        /\ \A i, j \in DOMAIN opened' : opened'[i] = opened'[j] => i = j
    BY <1>1, <1>t DEF Open, Known, Member, LifeIInv, ProcessTypes
  <2>2. \A x : Member(x, opened) => Member(x, opened')
    BY <1>1, <1>t, StillAMember DEF Open
  <2> QED
    BY <2>1, <2>2 DEF LifeIInv, ProcessTypes, TeardownIsSafe, LatchIsTeardown, ClosedIsQuiet,
                      AtAStore, Running
<1>2. ASSUME NEW s \in Stores, Arrive(s) PROVE LifeIInv'
  BY <1>2 DEF Arrive, LifeIInv, ProcessTypes, TeardownIsSafe, LatchIsTeardown,
              ClosedIsQuiet, AtAStore,
              Running, Member
<1>3. CASE TimePasses
  BY <1>3, IntervalAssumption DEF TimePasses, LifeIInv, ProcessTypes, TeardownIsSafe,
              LatchIsTeardown,
              ClosedIsQuiet, AtAStore, Running, Member
<1>4. CASE Tick
  <2>1. /\ tick' = [at |-> "store", todo |-> opened, cleanup |-> since > CLEANUP_INTERVAL]
        /\ UNCHANGED <<opened, waiting, stopped, teardown>> /\ ~stopped
        /\ since' \in 0..(CLEANUP_INTERVAL + 1)
    BY <1>4, <1>t, IntervalAssumption DEF Tick
  <2>2. ProcessTypes'
    BY <2>1, <1>t DEF LifeIInv, ProcessTypes
  <2>3. TeardownIsSafe'
    BY <2>1 DEF TeardownIsSafe, Member
  <2> QED
    BY <2>1, <2>2, <2>3 DEF LifeIInv, LatchIsTeardown, ClosedIsQuiet, AtAStore, Running
<1>5. CASE EndTick
  BY <1>5 DEF EndTick, NoTick, LifeIInv, ProcessTypes, TeardownIsSafe,
              LatchIsTeardown, ClosedIsQuiet,
              AtAStore, Running, Member
<1>6. CASE Maintain
  <2>1. /\ tick.at # "idle" /\ tick.todo # <<>> /\ ~stopped /\ UNCHANGED Quiet /\ since' = since
        /\ LeaveFor("store") \/ GoTo("claim")
    BY <1>6 DEF Maintain, Reaches, Quiet, LeaveStore
  <2>2. waiting' \subseteq Stores
    BY <1>6, <2>1, <1>t, <1>h DEF Maintain
  <2> QED
    BY <2>1, <2>2, TickGoesOn
<1>7. CASE NoMaintenance
  <2>1. /\ tick.at # "idle" /\ tick.todo # <<>> /\ ~stopped /\ UNCHANGED Quiet /\ since' = since
        /\ GoTo("claim") /\ waiting' \subseteq Stores
    BY <1>7, <1>t DEF NoMaintenance, Reaches, Quiet
  <2> QED
    BY <2>1, TickGoesOn
<1>8. CASE Throw \/ Pass
  <2>1. /\ tick.at # "idle" /\ tick.todo # <<>> /\ UNCHANGED Quiet /\ since' = since
        /\ LeaveFor("store") /\ waiting' \subseteq Stores
    BY <1>8, <1>t DEF Throw, Pass, Caught, LeaveStore, Quiet, LifeIInv, AtAStore
  <2> QED
    BY <2>1, TickGoesOn
<1>9. ASSUME NEW s \in Stores, Claim(s) PROVE LifeIInv'
  <2>1. /\ tick.at # "idle" /\ tick.todo # <<>> /\ UNCHANGED Quiet /\ since' = since
        /\ LeaveFor("resume") \/ GoTo("pinned")
        /\ waiting' \subseteq Stores
    BY <1>9, <1>t DEF Claim, Quiet, LifeIInv, AtAStore
  <2> QED
    BY <2>1, TickGoesOn
<1>10. CASE FallBack
  <2>1. /\ tick.at # "idle" /\ tick.todo # <<>> /\ UNCHANGED Quiet /\ since' = since
        /\ GoTo("fallback") /\ waiting' \subseteq Stores
    BY <1>10, <1>t DEF FallBack, Quiet, LifeIInv, AtAStore
  <2> QED
    BY <2>1, TickGoesOn
<1>11. CASE EndCall
  <2>1. /\ tick.at # "idle" /\ tick.todo # <<>> /\ UNCHANGED Quiet /\ since' = since
        /\ LeaveFor("resume")
    BY <1>11 DEF EndCall, Quiet, LifeIInv, AtAStore
  <2>2. waiting' \subseteq Stores
    BY <1>11, <2>1, <1>t, <1>h DEF EndCall
  <2> QED
    BY <2>1, <2>2, TickGoesOn
<1>12. CASE Dispose
  BY <1>12 DEF Dispose, Yields, LifeIInv, ProcessTypes, TeardownIsSafe,
               LatchIsTeardown, ClosedIsQuiet,
               AtAStore, Running, Member
<1>13. CASE CloseStores
  BY <1>13 DEF CloseStores, Settled, LifeIInv, ProcessTypes, TeardownIsSafe,
               LatchIsTeardown, ClosedIsQuiet,
               AtAStore, Running, Member
<1>14. CASE UNCHANGED process
  BY <1>14 DEF process, LifeIInv, ProcessTypes, TeardownIsSafe, LatchIsTeardown,
               ClosedIsQuiet, AtAStore,
               Running, Member
<1> QED
  BY <1>1, <1>2, <1>3, <1>4, <1>5, <1>6, <1>7, <1>8, <1>9, <1>10, <1>11, <1>12, <1>13, <1>14
     DEF ProcessNext, Work

(* The inductive invariant: what a tick still has to visit is open, and the *)
(* registry is closed after the last tick only (index.ts, the teardown     *)
(* effect; runner.ts, dispose).                                            *)
THEOREM LifeInvariance == ProcessSpec => []LifeIInv
  BY LifeInit, LifeStep, PTL DEF ProcessSpec

(* The registry holds a store once, whatever opens and closes around it.    *)
THEOREM LifeTypes == ProcessSpec => []ProcessTypes
<1>1. LifeIInv => ProcessTypes
  BY DEF LifeIInv
<1> QED
  BY <1>1, LifeInvariance, PTL

(* Teardown closes nothing under the runner and burns no claim: whatever    *)
(* the tick waits for when the process is told to stop, the stores it will  *)
(* come back to are open and nothing more is claimed.                      *)
THEOREM SafeTeardown == ProcessSpec => []TeardownIsSafe
<1>1. LifeIInv => TeardownIsSafe
  BY DEF LifeIInv
<1> QED
  BY <1>1, LifeInvariance, PTL

(* The latch is one-way, so a stopped runner never starts another tick.     *)
THEOREM StoppedForGood ==
  ProcessSpec => [][stopped => stopped' /\ (tick.at = "idle" => tick'.at = "idle")]_process
<1>1. LifeIInv /\ [ProcessNext]_process =>
        [stopped => stopped' /\ (tick.at = "idle" => tick'.at = "idle")]_process
  <2> SUFFICES ASSUME LifeIInv, ProcessNext, stopped
               PROVE  stopped' /\ (tick.at = "idle" => tick'.at = "idle")
    BY DEF process
  <2> USE DEF LifeIInv, ProcessTypes
  <2> QED
    BY DEF ProcessNext, Work, Open, Arrive, TimePasses, Tick, EndTick,
           NoTick, Maintain, NoMaintenance,
           Reaches, Throw, Pass, Claim, FallBack, EndCall,
           Dispose, CloseStores, GoTo, LeaveFor,
           LeaveStore, Caught
<1> QED
  BY <1>1, LifeInvariance, PTL DEF ProcessSpec

(* How much of a tick is left: five steps at most for every store still to  *)
(* be visited, and the leaving of the loop.                                *)
StepsAt(at) == CASE at = "claim" -> 3 [] at = "pinned" -> 2 [] at = "fallback" -> 1 [] OTHER -> 4
StepsLeft == IF Running THEN 5 * Len(tick.todo) + StepsAt(tick.at) ELSE 0

LEMMA OneStepLess ==
  ASSUME LifeIInv, Running, NEW step \in {"store", "resume", "claim", "pinned", "fallback"},
         \/ GoTo(step) /\ StepsAt(step) < StepsAt(tick.at)
         \/ LeaveFor(step) /\ step \in {"store", "resume"} /\ tick.todo # <<>>
  PROVE  StepsLeft \in Nat /\ StepsLeft' \in Nat /\ StepsLeft' < StepsLeft
<1>1. /\ tick.todo \in Seq(Stores) /\ Len(tick.todo) \in Nat
      /\ tick.at \in {"store", "resume", "claim", "pinned", "fallback"}
  BY DEF LifeIInv, ProcessTypes, Running
<1>2. StepsAt(step) \in 1..4 /\ StepsAt(tick.at) \in 1..4
  BY <1>1 DEF StepsAt
<1>3. CASE GoTo(step) /\ StepsAt(step) < StepsAt(tick.at)
  <2>1. tick'.at = step /\ tick'.todo = tick.todo
    BY <1>3 DEF GoTo, LifeIInv, ProcessTypes
  <2>2. StepsLeft' = 5 * Len(tick.todo) + StepsAt(step)
    BY <2>1 DEF StepsLeft, Running, StepsAt
  <2> QED
    BY <1>1, <1>2, <1>3, <2>2 DEF StepsLeft
<1>4. CASE LeaveFor(step) /\ step \in {"store", "resume"} /\ tick.todo # <<>>
  <2>1. tick'.at = step /\ tick'.todo = Tail(tick.todo)
    BY <1>4 DEF LeaveFor
  <2>2. Len(Tail(tick.todo)) = Len(tick.todo) - 1 /\ Len(tick.todo) > 0
    BY <1>1, <1>4
  <2>3. StepsLeft' = 5 * (Len(tick.todo) - 1) + 4
    BY <2>1, <2>2, <1>4 DEF StepsLeft, Running, StepsAt
  <2> QED
    BY <1>1, <1>2, <2>2, <2>3 DEF StepsLeft
<1> QED
  BY <1>3, <1>4

LEMMA WorkRunsDown ==
  LifeIInv /\ Work => StepsLeft \in Nat /\ StepsLeft' \in Nat /\ StepsLeft' < StepsLeft
<1> SUFFICES ASSUME LifeIInv, Work
             PROVE  StepsLeft \in Nat /\ StepsLeft' \in Nat /\ StepsLeft' < StepsLeft
  OBVIOUS
<1>1. CASE EndTick
  <2>1. StepsLeft' = 0
    BY <1>1 DEF EndTick, NoTick, StepsLeft, Running
  <2>2. StepsLeft = 5 * Len(tick.todo) + 4 /\ Len(tick.todo) \in Nat
    <3>1. StepsAt(tick.at) = 4 /\ Running
      BY <1>1 DEF EndTick, StepsAt, Running
    <3>2. Len(tick.todo) \in Nat
      BY DEF LifeIInv, ProcessTypes
    <3> QED
      BY <3>1, <3>2 DEF StepsLeft
  <2> QED
    BY <2>1, <2>2
<1>2. CASE Maintain
  BY <1>2, OneStepLess DEF Maintain, Reaches, Running, StepsAt, LeaveStore
<1>3. CASE NoMaintenance
  BY <1>3, OneStepLess DEF NoMaintenance, Reaches, Running, StepsAt
<1>4. CASE Throw \/ Pass
  BY <1>4, OneStepLess DEF Throw, Pass, Caught, LeaveStore, Running, LifeIInv, AtAStore
<1>5. ASSUME NEW s \in Stores, Claim(s)
      PROVE  StepsLeft \in Nat /\ StepsLeft' \in Nat /\ StepsLeft' < StepsLeft
  BY <1>5, OneStepLess DEF Claim, Running, StepsAt, LifeIInv, AtAStore
<1>6. CASE FallBack
  BY <1>6, OneStepLess DEF FallBack, Running, StepsAt
<1>7. CASE EndCall
  BY <1>7, OneStepLess DEF EndCall, Running, LifeIInv, AtAStore
<1> QED
  BY <1>1, <1>2, <1>3, <1>4, <1>5, <1>6, <1>7 DEF Work

(* The measure behind TeardownEnds and EveryStoreIsServed: every step of a  *)
(* tick uses it up, nothing that happens at its awaits adds to it, and only *)
(* a new tick of a running process sets it: however the stores fail, a tick *)
(* makes at most one call and one fallback for each and comes to its end.   *)
THEOREM TickRunsDown ==
  ProcessSpec => [][/\ StepsLeft \in Nat /\ (Work => StepsLeft' < StepsLeft)
                    /\ StepsLeft' > StepsLeft => ~Running /\ ~stopped]_process
<1>1. LifeIInv /\ [ProcessNext]_process =>
        [/\ StepsLeft \in Nat /\ (Work => StepsLeft' < StepsLeft)
         /\ StepsLeft' > StepsLeft => ~Running /\ ~stopped]_process
  <2> SUFFICES ASSUME LifeIInv, ProcessNext
               PROVE  /\ StepsLeft \in Nat /\ (Work => StepsLeft' < StepsLeft)
                      /\ StepsLeft' > StepsLeft => ~Running /\ ~stopped
    OBVIOUS
  <2>1. StepsLeft \in Nat
    <3>1. Len(tick.todo) \in Nat /\ StepsAt(tick.at) \in Nat
      BY DEF LifeIInv, ProcessTypes, StepsAt
    <3> QED
      BY <3>1 DEF StepsLeft
  <2>2. Work => StepsLeft' < StepsLeft
    BY WorkRunsDown
  <2>3. Tick => ~Running /\ ~stopped
    BY DEF Tick
  <2>4. tick' = tick => StepsLeft' = StepsLeft
    BY DEF StepsLeft, Running
  <2>5. Work \/ Tick \/ tick' = tick
    BY DEF ProcessNext, Open, Arrive, TimePasses, Dispose, CloseStores
  <2>6. Work => ~(StepsLeft' > StepsLeft)
    BY WorkRunsDown
  <2> QED
    BY <2>1, <2>2, <2>3, <2>4, <2>5, <2>6
<1> QED
  BY <1>1, LifeInvariance, PTL DEF ProcessSpec
=============================================================================
