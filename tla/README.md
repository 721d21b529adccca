# StrataLoom memory plugin: TLA+ models and proofs

StrataLoom (`src/packages/memory`) gives an agent harness a long-term memory.
Every repository has a SQLite store of its own and there is one global store for
personal memories.  Several harness processes may have the same store open.  A
turn of conversation is captured as it ends; background jobs, leased from a
table in the store, ask a model what is worth remembering, reconcile the answer
with what is stored, put idle memories to sleep, and summarise the active ones
in a *derived layer* that stands in for them in every prompt.  People propose,
forget and share memories at any time.

The code is short on locks and long on care: each SQL transaction is atomic
(`BEGIN IMMEDIATE`, `store/tx.ts`), but a job is several transactions and reads
with a model call of minutes in between, and anything may happen in the gaps.
These models are about the gaps.  The rest of the code is synchronous and decides
with arithmetic, sets and lists: what fits a budget, which repositories are in
scope, how far a memory is trusted, which upgrade a file gets.  Those parts are
modelled with the states they are used in.

## Inventory

| Part | Source (under `src/packages/memory/src`) | State | Operations | Hard behaviour | What makes it correct |
|---|---|---|---|---|---|
| Job queue | `pipeline/jobs.ts` | `jobs` table: state, attempts, run_after, lease token and time, completed_at | enqueue (revives a dead letter), peek, claim, commit, fail, sweep | two processes, lost leases, late workers, crashes at any point, retention | one commit per finished job, no write by a late worker, bounded attempts, every job settles |
| Runner | `pipeline/runner.ts` | single-flight flag, stop flag, maintenance clock, one clock reading per tick | tick, run a job, maintain, dispose | stale clock reading, timeout against lease, failed exits, disposal with a call in flight | a lease is honoured, only a timed-out handler or one that began on a stale reading is overtaken |
| Derived layers | `pipeline/rebuild.ts`, triggers in `store/schema.ts`, queries in `store/fts.ts` | derived rows, `meta.store_revision`, rebuild jobs keyed by revision | invalidate (trigger), enqueue, precheck, read sources, read portrait, commit | reads in separate snapshots, writes during the model call, outdated jobs | a layer describes exactly the present sources, and a rebuild that is done left one |
| Turn capture and retention | `auto-extract.ts`, `store/conversations.ts` | `conversations` (L0), extract jobs | capture, prune, read | replayed turns, retention against queued jobs and citations | a queued job can read its turn |
| Extract and reconcile | `pipeline/extract.ts`, `pipeline/reconcile.ts` | candidates, evidence, the batch in the reconcile payload | read, ask, commit | forgets, proposals and decay during the call; takeover | no candidate lost but by a reply that passes it over, none learned twice or from a forgotten source, replacements end |
| Decay | `pipeline/decay.ts` | status of memories, `usage` | sleep, revive | races the other writers | only the dormant come back |
| Service | `service.ts` | none but caches | propose, forget, share, list, recall, source | share awaits a person between check and update; file outside the transaction | forgetting is final on every read surface |
| Sharing and projection | `projection.ts`, `service.ts` | `visibility`, `human_confirmed`, the file `.repo_memory/memories.md` | share, refresh | approval await, write failures, two processes and one file | the file says nothing nobody approved; what was forgotten comes back only with a rewrite that is overtaken |
| Groups | `store/group.ts`, `service.ts` | per-session promise, process-wide grants | resolve, approve, and the four operations that read by the result | approval await, the declaration and the checkouts changed meanwhile, two calls of one session | nothing is read that was not allowed; a scope is settled once; nothing is written elsewhere |
| Migrations, registry | `store/schema.ts`, `store/store.ts` | `user_version`, `application_id`, tables, triggers, index | open, migrate, verify, note the source, dispose | two processes opening one old store, a crash half way, twelve arrival paths | each version step once, all or nothing, nothing lost |
| Transactions | `store/tx.ts` | none | begin with retries, commit, roll back | lost locks, exhausted retries | no partial commit, every attempt ends |
| Recall, rendering, injection | `recall/*.ts`, `store/fts.ts`, budgets in `constants.ts` and `tools.ts` | none (reads) | price, cut, select, render | budgets in different units, personal cap, oversized rows | the packet fits its container, what was stored arrives, the cut is the largest |
| Transcript, provenance | `transcript.ts`, `auto-extract.ts`, `pipeline/extract.ts` | the rows of a turn | collect, classify, gate, render, assign provenance | reused call ids, repeated stops, oversized events, wrong citations | trust never rises, no event hides another |
| Model calls | `pipeline/llm-call.ts` | none | stream, fall back once, parse | any failure, any reply, abort | no half product, no call outlives its abort |
| Entry and teardown | `index.ts`, `pipeline/runner.ts`, `store/store.ts` | the interval, the runner's latch, the open stores | start, tick over all stores, stop, abort, await, close | a teardown at any await, broken stores | no store is closed under the tick; teardown ends |
| Tools, command, prompts, identity, repository keys, metrics | `tools.ts`, `command.ts`, `pipeline/prompts.ts`, `identity.ts`, `store/repo-key.ts`, `metrics.ts` | none of their own | wiring, wording, reads | none | see Not modelled |

The parts meet in the store.  Handlers call the queue (`commitClaimedJob` wraps
all their writes), commits enqueue further jobs in the same transaction (extract
opens reconcile), every write to a raw memory runs the invalidation triggers,
maintenance reads what they left and opens rebuild jobs, and retention reads the
evidence the jobs wrote.  Every session's calls go through the registry that
migrates a store as it opens it, and the scope a session resolved once.

## Modules

| Module | What it is |
|---|---|
| `JobLedger` | what the queue promises: work is opened, then finished once or given up on |
| `JobQueue` | the jobs table and the runners of its processes, with leases, tokens and time |
| `JobQueueProofs` | theorems about `JobQueue`, the refinement of `JobLedger` among them, and about `Lifecycle`, which it extends as well |
| `LayerCache` | what a derived layer promises to whoever reads the store: a cache of the raw memories |
| `MemoryLayers` | the derived layer of one store; its job rows are `JobLedger`'s actions |
| `MemoryLayersProofs` | theorems about `MemoryLayers`: it implements `LayerCache`, and its jobs `JobLedger` |
| `MemoryLife` | what curation promises: a turn is learned from in one instant and judged in another, each once |
| `Curation` | the life of a memory: capture, extract, reconcile, propose, forget, decay, retention |
| `CurationProofs` | theorems about `Curation`: it implements `MemoryLife`, and its jobs `JobLedger` |
| `Publication` | what sharing promises to whoever reads a checkout's file: refreshes that may overtake each other, each of what was agreed to and not withdrawn in one instant |
| `Sharing` | what a repository publishes: share, forget's refresh, the file in each checkout |
| `SharingProofs` | theorems about `Sharing`, the refinement of `Publication` among them |
| `StoreFile` | what a store file promises: it is upgraded in one instant, or written to |
| `Migration` | opening one store file from several processes: the journal, the lock, twelve version steps, the checks, the stamp |
| `MigrationProofs` | theorems about `Migration`, the refinement of `StoreFile` among them |
| `Consent` | what a session reads of others, to the person who is asked |
| `GroupScope` | which other repositories a session reads: declaration, approval, grants, and recall, list, source and forget by them |
| `GroupScopeProofs` | theorems about `GroupScope`, the refinement of `Consent` among them |
| `Packet` | what stored text costs and what of it a model is shown: the cut, the selection, the two renderings and the guards on the constants |
| `PacketProofs` | theorems about `Packet` |
| `Lifecycle` | one process: the tick over its stores, its model calls, its teardown |
| `Provenance` | from a session's events to the trust of what is learned from them |
| `ProvenanceProofs` | theorems about `Provenance` |
| `MC*` | instances for TLC |

The modules compose by abstraction.  `JobQueue` is shown to implement
`JobLedger`; `MemoryLayers` and `Curation` then use a job row at the ledger's
level: a row is open until one commit finishes it, and *who holds it* is a
variable that any claim may overwrite at any time, which allows more takeovers
than leases do.  That neither leaves the ledger is proved (`LedgerKept`,
`LedgersKept`).  `Lifecycle` keeps of a store that it has a job and of a job that
it waits, runs or is over; `Migration` ends where a store is open, which is where
every other module begins; `Provenance` and `Packet` are the two ends of a memory's
text, what it came from and what is shown of it.

Six abstract specifications say what a part looks like from outside, each in a
page without processes, claims, crashes and model calls: `JobLedger` to whoever
enqueues work, `LayerCache` to whoever reads a layer, `MemoryLife` to whoever asks
what became of a turn, `StoreFile` to whoever has an older release of the store open,
`Consent` to the person who is asked whether a session may read other repositories,
`Publication` to whoever reads what a checkout publishes.
Each is checked by TLC on an instance and proved to be implemented.

### JobQueue

`jobs` is the table, `worker` each process's position in `JobRunner.run`, and
`superseded` the rebuild ids whose revision is past.  One action is one
transaction: `EnqueueJob`, `ClaimNextJob`, `CommitClaimedJob`, `FailClaimedJob`
(under `DeadLetter` and `RetryExit`), `CleanupJobs`.  `Crash` is a process that
dies, or whose exit transaction fails and is only logged, in any phase.

Times are relative to the present (`due`, `lease`, `age`) and saturate where no
comparison can tell two values apart, so time is unbounded and the state space is
finite.  `lag` is how long ago the tick read its clock: `run()` reads `Date.now()`
once and awaits the jobs of earlier stores, so a claim compares and grants its
lease by an old reading, and the worker remembers how old.  Nothing in the code bounds
it.  `MaxLag` ends the count so that the state space is finite; the run lets a reading
grow staler than a whole lease, so that a claim may be born expired, and the theorems
hold for every `MaxLag`.

Two history variables, `runs` and `applied`, count handler starts and commits
since the last trigger.

### MemoryLayers

`raw` says of every raw memory whether it is in the source set and what it says;
`Write` is *any* writer's statement with the trigger that fires under it.
`layer` is the derived layer as a whole and remembers what it was built from.
The two kinds of store share the module: `kind` decides whether a layer is called
for (`Wanted`) and whether the job reads the portrait.  A process is in
maintenance (`measured`, `keyed`) or in a job (`claimed`, `checked`, `sourced`,
`asking`, `settle`); each of these is a point between two statements of the
code.  `Overflows` stands for the packet's token count against the budget and is
an arbitrary predicate of the sources.

### Curation

`mem` joins a memory with its session evidence; `l0` and `aged` are the stored
turns; `batch` is the reconcile payload.  A job run is `claimed`, `asking` (read,
waiting for the model) or `settle`; commits write all or nothing behind the
fencing test (`CanCommit`).  A reply is any set of candidates to learn, or any decision
on any part of the candidates read (`Decided`): an index that is a fraction counts as
covered and names no candidate.  A memory to make way may be any that is active at the
commit, shown to the model or not.  `skipped` is a history variable, the candidates that
a reply passed over.  The rows of a turn are one value, an id is spent once, and
`Decay` moves one memory at a time: its thresholds are times and counts nothing
else depends on.  Retention of job rows is left to `JobQueue`: a turn's end is
not replayed a week after its job finished, and an extract id "never recurs"
(`jobs.ts:293-294`).

### Sharing

`mem` keeps of a memory its status and its mark (`team`: visibility and
`human_confirmed`, set by one statement), `file` is `memories.md` of each
checkout, `asked` the approvals a process awaits.  `task` is a process between
the answer of the person, or the tombstone of a forget, and the end of the file's
rewrite.  The code awaits nothing there, so the process does nothing else; other
processes, in the same checkout too, act between any two of its statements: `Promote`,
`LookForFile`, `ReadRows`, then `RemoveFile`, or `OpenFile` and `WriteFile`, since
`writeFileSync` empties the file before it writes.  Two writers of one file may leave
the end of the longer text behind the other's, and rows written into a file that was
removed since it was opened are gone (`Written`; where the file has been made again
meanwhile, that is as if they were written just before it was removed).  `Propose` and
`Curate` stand for the other writers of `Curation`.  A rewrite may break off and leave a
part.  The history variables are what a person agreed to (`approved`), which forgets
have refreshed which checkout (`forgotten`), which memories a rewrite under way had selected when they were forgotten
(`overtaken`), and what a share that has just returned reports (`told`).

### Migration

`store` is the committed file; a process inside `BEGIN IMMEDIATE` works on a copy
(`proc[p].work`), so a crash or a throw in any step leaves the file alone.  Of a
file the model keeps its brand and version, its kind, whether it is in WAL mode,
the shape of the full-text index and of the derived-row columns, the trigger
families, and for each row whether it is there, cited and indexed.  A step is what
its statements do to these, and it throws where SQLite would: a bare
`DROP TRIGGER` of a trigger that is gone, a `CREATE` of one that is there, a column
that exists, a copied row the new CHECK refuses.  `EraTriggers(n)` is what release
`n` left behind, `RebuiltTriggers(n)` the same version reached through a table
rebuild of this release; a file may be of either kind, or foreign, or newer.
`DROP TABLE` takes the evidence along when foreign keys are on.

### GroupScope

A call runs up to its first await in one action (`Recall`, `List`, `Source`,
`Forget`); the answer of the person (`Allow`, `Deny`) and the rest of the call
(`Return`) are others.  `cache` is the promise of each session, `grants` the pairs of
asking repository and fingerprint the process remembers.  Meanwhile others edit
declarations, clone and remove checkouts, create stores and lose rows, and the
process may start again; `MaxChanges` bounds these for TLC.  `prompts`, `seen`, `wrote`
and `denied` are histories.

### Packet

A row is its rendered length and the store it came from.  `Rebuild` and `AskSource`
cut bodies by the halving of `truncatedToBudget`, a step at a time; a body is the
sequence of the rendered lengths of its prefixes, which jumps at newlines and
surrogate pairs.  `Inject` and `Recall` select by `Keep` and `Skip`, section by section,
and select again when they render.  The guards that run as the plugin loads are
assumptions, translated with the formula that prices the worst packet.

### Lifecycle

`tick` is where the runner's loop is (`store`, `claim`, awaiting the `pinned` route or
the `fallback`, or about to `resume`) and the stores still to visit.  The loop runs
from one await to the next; everything else happens at the awaits, but for
arriving jobs, which other processes add at any time.  `since` is the maintenance
clock in intervals.

### Provenance

`log` is the session's event log, an external part: it is append-only, a turn may
end without its marker, and an id serves one call at a time (it comes back once
it has been answered, or in a later turn).  `TurnStopping` may happen repeatedly
while events are still coming, as turns do stop more than once.  `Claim` reads the rows and
renders the transcript, `Commit` takes any list of cited numbers.  A text is its
length; the records of a turn are taken in order by a recursive function
(`OverRows`).  One candidate per reply is enough: those of one reply are parsed one by
one and share nothing.

## Runs

| Run | Instance | Shows |
|---|---|---|
| `queue_safety` | 2 processes, 2 jobs (one a rebuild), 4 tokens, `MAX_CLAIMS` 2, lease 2, timeout 1, readings up to 3 stale | `BudgetRespected`, `OnlyLateWorkersAreOvertaken`, `LateWorkerWritesNothing`, `LeaseRespected`, `LedgerSpec` |
| `queue_liveness` | 2 processes, 1 job, 3 tokens, lease and timeout 1 | `EveryJobSettles` |
| `layers_safety` | 2 processes, 2 memories, overflow above one source, 2 writes to the source set, both kinds | `LayerIsCurrent`, `DoneMeansBuilt`, `OnlySourceWritesRetire`, `CacheSpec` |
| `layers_liveness` | 1 process, 2 memories, 1 write to the source set | `LayerComesBack` |
| `curation_safety` | 2 processes, 1 turn, 3 memories, 1 of them a procedure, at most 2 candidates | `ForgottenIsFinal`, `ReplacementsEnd`, `NoCandidateStranded`, `LifeSpec`, `NothingLearnedFromForgotten` |
| `sharing_safety` | 2 processes with sessions in the same 2 checkouts, 2 memories, 1 awaited approval per process | `PublishedWasApproved`, `ForgottenStaysOut`, `PublicationSpec` |
| `migration_safety` | 2 processes that ask for version 10 or 12, files of versions 0, 1, 3, 5, 8 to 12 in both trigger sets and of both kinds, one newer and two that are not ours, 3 rows, 2 retries | `StoreIsConsistent`, `ServedStoreSound`, `NothingLost`, `FileSpec`, `StuckOnlyOnContradiction`, `EveryOpenEnds` |
| `group_safety` | 2 sessions in checkouts of two repositories, a third one archived, 2 calls at a time, 1 memory, 2 changes by others | `ReadWasAllowed`, `WritesStayHome`, `ShownIsNeverDenied`, `ScopeSpec` |
| `packet` | the constants divided down so that both tight guards are tight, 3 row lengths, 3 bodies, 2 members | `InjectFits`, `DerivedLayerDelivered`, `WhatIsFoundIsHeard`, `CutIsLargest` |
| `lifecycle` | 3 stores, 1 of them with an unreadable queue, maintenance in every other interval or less often | `TeardownIsSafe`, `TeardownEnds`, `EveryStoreIsServed` |
| `provenance` | 2 turns, a log of 5 events, evidence of 2 sources, a transcript with room for a long record and short ones | `TypeOK`, `TrustIsEarned`, `OversizedHidesNothing`, `StoredIsMeasured` |
| `layers_portrait` | the instance of `layers_safety` | an empty portrait is stored (below) |

The type invariants are theorems (`TypeCorrect` of each proof module, `LifeTypes` for
`Lifecycle`); the one that a run still checks is that of `Provenance`, whose types
depend on the values of recursive functions.

Why the bounds are enough.  A lost lease takes a holder and one successor, hence
two processes; a third adds only another late worker, which the proofs cover.
Two jobs are needed for the order of claims and for a sweep beside a run.  Four
tokens let every row and every process hold a different one.  The lease
is one longer than the timeout, and a clock reading may be one, two or three units
stale: within the slack, beyond it, and beyond the lease itself, where the claim is
born expired.  Two writes to the source set let a job be
outdated before its precheck and again during its model call.  Three memories
let a candidate replace a memory that replaced another, and two candidates
compete for one target.  Two shared memories tell a file that loses one
from a file that is removed, and two checkouts with both processes in each one are a
race for a file and a file the race leaves alone; a second awaited approval of one
process changes nothing, since the calls do not overlap after the answer.  None of the
memories looks like a credential: one is never asked about and so never marked, and
the scan of the rows is a second gate that the theorems, for any `Secrets`, cover.

Two migrating processes lose races to each other and to a crash; the files are
those before and after each step that drops, creates or rebuilds something, and
three rows are one that must survive, one that a step may refuse and one to be
written.  Two calls overlap within a session and across sessions; of the two
changes one can come before an answer and one after it, and a start of the process
is one of them.  The memory is at home for one session and a member's for the other.
A question that a remembered grant answers takes a second session of the same
repository, which is outside these bounds: that path is covered by the theorems alone.
In `packet` a row of 14 characters is one that a member cannot pay for, and the
portrait, the scenarios and the packet fill their budgets to the last token.
Three stores put a broken one before, between and behind the others.  In
`provenance` five events hold a call, its result, the same id again, and a marker;
three distinct citations are one more than the evidence holds.

Deadlock is checked in every run but two: a process that has torn down its
runner and closed its stores has nothing left to do (`lifecycle`), nor has a session
whose log is full and whose jobs are done (`provenance`).

### What the code does against its own words

The first item is a run.  The others are kept as instances, each a `.cfg` that TLC
answers with a counterexample: `CurationRelearn`, `CurationSupersede`,
`CurationStranded`, `CurationRetention`, `SharingAsleep`, `SharingRace`, `GroupUnlisted`,
`MigrationRefused` and `ProvenanceMixed`, in this order.

* **An empty portrait.**  `runPersonaJob` takes the "keep" branch only when a
  portrait exists; a "keep" without one falls through and stores the verdict's
  empty body (`rebuild.ts:557-577`), which `rebuild.ts:583-584` and `:619-620` say
  cannot happen.
* **Suppression before activation.**  `plugin-architecture.md:749-750` has both
  jobs look for a tombstone of the source before a candidate becomes active; the
  reconcile commit does not, so a forget between the two commits comes too late.
* **A memory replaced by a tombstone.**  `reconcile.ts:291-294` argues that
  `superseded_by` always points at a row entering `active`; if the candidate is
  forgotten during the model call the old row is retired all the same.  The
  conclusion drawn from it, that replacements cannot loop, still holds
  (`ReplacementsEnd`).
* **A candidate passed over.**  `parseDecisions` takes any number between 0 and the
  number of candidates for an index (`reconcile.ts:50`) and counts what it has taken,
  against `:68` ("decisions must cover every candidate exactly once").  A fraction
  names no candidate and is skipped (`:200-201`), so the job is done and a candidate
  stays one for good (`EveryCandidateCovered`).  `NoCandidateStranded` is what does hold:
  there is no other way to lose one.
* **A queued turn pruned.**  After a shutdown longer than the retention the first
  tick prunes before it claims, against `conversations.ts:7-8`.
* **Shared, but not.**  A memory that falls asleep, is retired or forgotten while a
  person is asked is not promoted (`service.ts:1259`), and `share` returns
  `shared: true` all the same, against `service.ts:309-310`.
* **A forgotten memory in the file.**  Two processes in one checkout: a share has
  read its rows, or is about to create the file, while a forget commits and
  refreshes; the older rows are then written (`projection.ts:65-66`,
  `service.ts:177-178`; `ForgottenLeavesTheFile`).  The next share or forget there heals
  it.  `ForgottenStaysOut` is what does hold: only a rewrite that had selected the memory
  when it was forgotten brings it back.
* **Read, but not listed.**  A grant is remembered for the asking repository and the
  declared set (`service.ts:415-419`), while the question lists only the members
  admitted in the checkout it was asked in.  In a second clone another member of the
  same declaration may be admitted, and is read without having been listed,
  against `group.ts:371-374` ("the person has to be able to see WHICH repository").
  `ReadWasAllowed` is what does hold: the declaration that was allowed names it.
* **The old schema.**  A store whose rows cannot meet the v10 CHECK is said to keep
  "working on the old schema" (`schema.ts:800-802`); the migration rolls back, and
  the open that ran it throws, so this release does not serve the store at all.
* **More sources than evidence.**  The cited numbers are cut to `WORST_SOURCE_SEQS`
  before the least trust among them is taken (`extract.ts:264`), so a tool result
  that is cited behind ten messages of the agent does not lower the trust, against
  `extract.ts:4-5` and `plugin-architecture.md:423`.  `TrustIsEarned` is what does
  hold: of what the evidence quotes, and of every citation while they are few.

## Fairness

`queue_liveness` assumes that the clock advances, that intervals fire, that a
tick leaves the store and that a handler ends (its signal times out): weak
fairness of each.  Two strong assumptions are about luck.  A job that is
claimable again and again is claimed at some tick: claims go by `run_after`, so
it becomes the oldest, and the agent whose work defers jobs is idle at some tick.
And of the poisoned claims of one job, one is not killed before the dead-letter
transaction that directly follows it.  Nothing says that any run succeeds.

`layers_liveness` assumes that maintenance and ticks keep coming and that steps
which are reached again and again are one day completed: the model answers
usably, the process survives, the lease lasts.  Without that the code promises
nothing, since every run may fail.  It asks for it only of the holder of the job.

`migration_safety` assumes that a process that is opening a store runs on: `open`
never yields to its event loop, and its retries are a counted loop with a sleep
between them.  It may crash at any point all the same, and no order among processes
is assumed.

`lifecycle` assumes that the interval and the event loop go on and that a model call
ends (it is aborted, or times out).  For a store with a job it assumes strongly
that the claim, and the maintenance before it, are not kept from it at every
single tick: its agents rest at some tick, and its lock frees.  `TeardownEnds` uses
only the first part.

## Proofs

`tlapm` checks every theorem below for all values of the constants.

**JobQueue.**  `TypeCorrect` carries the claim of every working process along
with the types.  `IInv` adds that no two working processes have the same token
(`TokensDistinct`: a token is never issued while a row or a worker has it) and
that the handler runs of an open row were paid for by its attempts
(`RunsPaidFor`, with at most `MAX_CLAIMS` of them).  The budget is not inductive
without the second: it holds only because a failed exit leaves the attempts as
the claim left them.  From `IInv`: `Budget`, `Fencing`, `LeaseHonoured`, and
`Refinement` (`LedgerSpec`: every step is a ledger step or a stutter).
`OvertakenWhenLate` says when a worker can lose its job to another one: past its own
timeout, or after a claim granted by a reading staler than the lease less the timeout.
The shipped numbers (5 and 4 minutes) leave one minute for the stores that a tick runs
before this one, and nothing in the code bounds that time, so the second case is real;
it costs duplicate work and, by `Fencing`, nothing else.  The theorem has no hypothesis
about the lag: the invariant (`InTimeHolds`) follows each worker's lease from the lag
its claim was granted with.

**MemoryLayers.**  `IInv` relates each point of a run to the store: no job and
no process is ahead of `store_revision` (`NoneAhead`), and what a process read is
what the store holds, as long as its revision is the present one (`ReadsHold`).
The second is what makes two reads without a snapshot sound: if the sources were
read after a write, the revision they were checked against is past and the
commit is fenced.  From it: `Current` (D9), `Built`, `Narrowed` (v12).  `CacheImplemented` is the
whole of it in one formula (`CacheSpec`): a rebuild of four transactions and a model
call is, to a reader, a layer that appears in one instant, built of the sources of that
instant, and only when they call for one.  That needs one more part of `ReadsHold`:
a run that is asking the model has seen sources that overflow, and they still do when
its two fences let it commit.

**Curation.**  `IInv` says how far a turn has come (`JobsInOrder`: a batch exists
only after its extract job is done, a reconcile job only with a batch), that
batches are disjoint and hold memories that exist (`BatchesApart`), and what a
reconcile run knows: all of its batch that is still undecided (`ReadsWhole`) and,
*while its claim holds*, nothing that was decided by anybody else
(`Undecided`).  `NoLoops` needs the last one: a commit points `superseded_by` at
candidates it read before the model call, and only because no candidate it read
can have been activated and replaced meanwhile is the target a row without a
replacement of its own, so that a loop would have to be there before.  The proof
shows what the missing cycle check of `reconcile.ts` rests on: the fencing of the
commit, not the status of the target.  `NoneStranded` needs `ReadsWhole`: the commit
that finishes a job has seen every candidate of its batch, and leaves only those that
the reply passed over (`skipped`).  `ForgetFinal`,
`OneBatch` and `SourceSuppressed` follow step by step.  `LifeImplemented` is
`LifeSpec`: with a finished reconcile job as the only trace of a judgement, a commit is
one instant in which any part of the candidates the turn has *then* is kept or dropped
and the turn is never judged again, although the model was asked about those it had
before, and in which an active memory makes
way only for one that is kept, no two for the same.  It may make way for one that was
forgotten meanwhile, which is the disagreement of `CurationSupersede` below: the
specification that the code implements has to allow it.  `LedgersKept` reads the rows of
each kind as a `JobLedger` (`Rows(kind)`): the extract commit that finishes one row and
queues the other is one step of both.

**Sharing.**  `IInv` follows an approval to the file: a mark and a promotion under
way are approved (`MarksAreApproved`), so is what a process has read and not yet
written (`RowsAreApproved`), hence what any file says, even a broken one.
`AInv` follows a forget to the file, for any number of processes in a checkout.  The
tombstone is committed before the rows are read (`Tombstoned`), so the rows of the forget
itself do not name the memory (`WritesOthers`), and rows under way that do were selected
before it (`RowsOvertaken`).  Once a forget has emptied the file to write it anew, the
memory is there only if such a rewrite has put it there since (`FileCleared`).
`Forgotten` follows: a memory that is in a file from which it was refreshed away is there by an overtaken rewrite.

`PublicationImplemented` is `PublicationSpec`.  The reader sees no store and no
statements but a refresh per process (`Refreshes`): it starts with the answer of a person,
or with a forget that finds a file; it takes what it will write in one instant, the reading
of the rows; and it puts that in place of the old text, whole or in part.  What it takes
was agreed to, is no credential and was not withdrawn *there*: what was withdrawn may be
agreed to again, by a person who was asked before the forget, and still is never taken
again.  A file comes into being only where a share writes, or a forget that had found one.
That refreshes overtake each other is part of what the reader sees, as is the old text
that an overtaken one brings back.  The proof needs `PInv`, that a process at an await has
no share under way.

**Lifecycle** (in `JobQueueProofs`, which extends both modules: the
names of `Lifecycle`'s frame begin with `Process`).  `LifeIInv` adds that the runner's latch and the teardown go
together (`LatchIsTeardown`) and that the stores are closed after the last tick
(`ClosedIsQuiet`), without which the stores a tick will come back to would be
open only by luck.  From it `SafeTeardown`; and `StoppedForGood`, that no interval
revives a stopped runner.

**GroupScope.**  `IInv` says that a session's question is put once, while its promise is
pending, about members of the declaration that will be granted
(`QuestionsAreSingle`), that a grant is somebody's answer (`GrantsAreAnswers`), and
that what was shown lies in the scope and what was denied outside it (`ShownInScope`,
`DeniedOutside`).  A pending promise that is remembered before it resolves is what
makes the first inductive, and with it `Allowed`: two calls cannot ask, or settle
two different scopes.  From it also `StayHome`, `Undenied`, `Settled`.
`ScopeImplemented` is `ScopeSpec`: for every session the promise, the calls that wait for
it, the declaration that may have changed since and the grants the process remembers add
up to one instant, that of the answer, or, without a question, one in which everything the
session gets was allowed by a single earlier answer (`AllowedAtOnce`): the grants are keyed
by the whole declaration, so two answers never add up to a third scope.

**Migration.**  The committed file is some release's, historic or rebuilt; a migrating
process holds the lock over a copy whose content is that of the last step it took;
whoever has passed the checks has what it asked for.  The core is a lemma per
property of a step: from either trigger set of version `v - 1`, step `v` throws
only for a contradicting row at v10 (`StuckOnlyOnContradiction`), ends in one of
version `v`'s, and keeps rows, evidence and kind.  That covers all twelve steps and
every arrival path; the runs start from nine versions.  From it: `Consistent`,
`ServedSound`, `Lossless`, `OnlyContradictionSticks`.  `FileImplemented` joins the
file's two fates in `FileSpec`: however many versions, statements, retries and
processes it takes, a migration is one step of the file from the version it had to the
one that was asked for, it keeps every memory and its evidence, and marks the file with
its kind once.  The other step is a write, by any release that has the file open, which
retires what was derived from version 5 on.  It needs that the work in progress is of
the kind of the file or of its place, and that a process migrates only a file older
than its target.

**Packet.**  `IInv` says that an injection has paid four characters a token for
everything it holds, within the budget it started with, over at most twice
`INJECT_TOP_N` rows (`Paid`), that a layer has no more rows than a rebuild may store,
and that a search has the answer between its ends (`Narrowed`).  `ContainerHolds`: for
all constants that pass the load-time guards, every injected packet fits its
container.  It needs one assumption the code does not check, though its constants
meet it: `WindowIsAffordable`, that `INJECT_TOP_N` of the cheapest entries fit either
side's budget.  Without it the guard may count fewer entries, and newlines between
them, than a packet of derived rows has on one side and raw ones on the other.
`LargestCut` is the correctness of the halving, for every body whose rendered length
grows with its code points.

What arrives is a second invariant on top of it, `Delivery`.  The code selects with a
greedy pass that skips what it cannot pay for and goes on, and selects again as it
renders, so "the first pass chose it" says nothing by itself.  What carries over is that
the chosen rows are `Affordable`: there is an account of them, one running total per
row, that ends within a budget.  The second pass has that budget, so it skips nothing
(`NothingSkipped`), and the layer at the end of the offer is at the end of the packet:
`LayersDelivered`.  For a recall, an asked member with a payable row has a row among
the chosen or can still pay for one to come (`Visiting`), since each section has a budget
of its own: `FoundIsHeard`.

**Provenance.**  `IInv` says that a turn begins once in the log (`LogOK`), that a stored
row is still the row its event makes (`StoredOK`), that a run has read rows that are
stored (`WorkOK`), and that what a memory claims is earned (`LearnedOK`).  The second is
the heart of it: a row is measured once, with the log as it is, while the log goes on and
an id of a tool call may come back.  `RowStays` shows that nothing that is logged later
changes the turn of an event, the call it answers or who spoke, since each is looked up
among the events before it.  From it `Earning`, `Shown`, `Measured` and `TypeCorrect`.

The transcript's budget and its size are computed by recursive functions, which the
provers know only as a `CHOOSE`.  `Recursion` shows that such a function
exists, from the well-foundedness of the naturals (the set of arguments up to which
there is none has a least element), and `Spending` and `Pricing` prove what the two
walks compute by the same argument on the least row that breaks it.

**What liveness rests on.**  That something must eventually happen is out of the
prover's reach; that each fair step uses up something nothing else adds to is not.
`ClaimsRunOut` (for `EveryJobSettles`): while a row is open its claims left,
`MAX_CLAIMS + 1 - attempts`, never grow, whoever takes it over, retries it or dies, and
each start of the handler uses one up.  `TickRunsDown` (for `TeardownEnds` and
`EveryStoreIsServed`): a tick has a natural number of steps left, at most four at the
store it is at and five for every other it has still to visit; each uses some up, nothing
that happens at its awaits adds any, and only an interval of a running process sets them
anew.  `OpenRunsDown` (for `EveryOpenEnds`): an open has at most `3 * Retries + 17` steps
left, every one of them uses some up, a lock race that is lost included, and no other
process adds any.
For `LayerComesBack` it is `Built`: the job of the present revision is never done without
the layer, so one of enqueuing, reviving and claiming it is always left to do.

Only model-checked: the liveness properties themselves, since fairness and `ENABLED` are
out of the prover's reach (`EveryJobSettles`, `LayerComesBack`, `EveryOpenEnds`,
`TeardownEnds`, `EveryStoreIsServed`).  Every other property of a passing run is a
theorem, and only `ContainerHolds` assumes an inequality that the code does not check.

## Not modelled

Of sharing, personal memories and a work tree deleted under a session (guards 1
and 2 of `refreshProjection`), and the patterns that recognise a credential.  Of the
decay job, its floor and thresholds: times and counts nothing else depends on.  Of
the service, the rule that only live principals write, and argument checks.  Of
migrations, the SQL itself beyond what it does to tables, triggers, index, evidence
and rows.  Full-text ranking is SQLite's, and a recall finds any of the live rows.
Of `Lifecycle`, a logger that throws: a store that fails is caught and logged
(`runner.ts:209-211`), and if the logging itself threw, the tick would reject and end
before the stores behind, and a teardown that awaits it would close the stores all the
same (`index.ts:121-125`).  Of a file that two processes write at once, what
a memory's own bytes look like where the two texts meet.

Prompts, the command, the tools' argument checks and wording, metrics and identity
keep no state that another part depends on: they read, format, or wire the parts
above together.

## Plan

1. `Lifecycle` with `JobQueue`: the staleness of a clock reading from the stores that a
   tick has run before, instead of any number.
2. The two disagreements about retired memories (`CurationRelearn`,
   `CurationSupersede`) may be joined.
