------------------------------ MODULE Curation ------------------------------
(***************************************************************************)
(* How one repository's memories come and go.  A turn is captured with its *)
(* extract job; the extract job asks a model for candidates and queues a   *)
(* reconcile job for them; the reconcile job asks again and activates,     *)
(* drops or supersedes.  Each job reads, awaits the model and commits in   *)
(* separate steps, while people propose and forget, decay puts memories to *)
(* sleep and retention prunes the conversations                            *)
(* (packages/memory/src: auto-extract.ts, pipeline/extract.ts,             *)
(* pipeline/reconcile.ts, pipeline/decay.ts, store/conversations.ts and    *)
(* service.ts).                                                            *)
(*                                                                         *)
(* A job row has the states of JobLedger, which JobQueue implements;       *)
(* leases are abstracted to who holds the row, and a takeover may come any *)
(* time.                                                                   *)
(***************************************************************************)
EXTENDS Naturals, FiniteSets

CONSTANTS Procs,          \* processes with this store open
          Sessions,
          Turns,          \* turns that may be captured
          SessionOf,      \* [Turns -> Sessions]
          Mems,           \* memory ids (randomUUID)
          Procedures,     \* the ids whose content is of kind 'procedure'
          NULL,
          MaxCandidates   \* candidates kept of one reply

ASSUME CurationAssumption ==
  /\ SessionOf \in [Turns -> Sessions]
  /\ Procedures \subseteq Mems
  /\ NULL \notin Procs \cup Mems \cup Sessions
  /\ {"activate", "drop"} \cap Mems = {}
  /\ MaxCandidates \in Nat

VARIABLES mem,      \* [Mems -> Memory]: memories with their session evidence
          l0,       \* turns whose rows are in `conversations`
          aged,     \* those of them past L0_RETENTION_MS
          batch,    \* [Turns -> SUBSET Mems]: the reconcile payloads
          status,   \* the jobs, by kind and turn
          holder,   \* the process whose token the job's row carries
          proc,     \* [Procs -> Process]: each process's job run
          skipped   \* history: candidates that an accepted reply passed over

vars == <<mem, l0, aged, batch, status, holder, proc, skipped>>

JobIds == {"extract", "reconcile"} \X Turns

Extract(t) == <<"extract", t>>
Reconcile(t) == <<"reconcile", t>>

-----------------------------------------------------------------------------
(* Rows. *)

(* `quote`: the evidence row carries an excerpt.                           *)
Memory == [status : {"none", "candidate", "active", "dormant", "superseded",
                     "archived", "tombstone"},
           by : Mems \cup {NULL}, ref : Sessions \cup {NULL}, quote : BOOLEAN]

NoMemory == [status |-> "none", by |-> NULL, ref |-> NULL, quote |-> FALSE]

NewMemory(st, s, quote) == [status |-> st, by |-> NULL, ref |-> s, quote |-> quote]

Moved(row, st, by) == [status |-> st, by |-> by, ref |-> row.ref, quote |-> row.quote]

Is(m, st) == mem[m].status = st

(* `got`: the candidates a reconcile run has read.                         *)
Process == [phase : {"idle", "claimed", "asking", "settle"},
            job : JobIds \cup {NULL}, got : SUBSET Mems]

Idle == [phase |-> "idle", job |-> NULL, got |-> {}]

Init == /\ mem = [m \in Mems |-> NoMemory]
        /\ l0 = {}
        /\ aged = {}
        /\ batch = [t \in Turns |-> {}]
        /\ status = [j \in JobIds |-> "none"]
        /\ holder = [j \in JobIds |-> NULL]
        /\ proc = [p \in Procs |-> Idle]
        /\ skipped = {}

At(p, phase) == proc[p].phase = phase
Yield(p) == proc' = [proc EXCEPT ![p] = Idle]
Holds(p) == holder[proc[p].job] = p

(* enqueueJob: opens a new or dead-lettered job, absorbed by any other.    *)
Opened(st, j) == IF st[j] \in {"none", "dead"} THEN [st EXCEPT ![j] = "open"] ELSE st

-----------------------------------------------------------------------------
(* The end of a turn, or its replay: rows already stored are kept; `want`  *)
(* is the gate on a model and on enough new text.                          *)
CaptureTurn(t, want) ==
  /\ l0' = l0 \cup {t}
  /\ aged' = IF t \in l0 THEN aged ELSE aged \ {t}
  /\ status' = IF want THEN Opened(status, Extract(t)) ELSE status
  /\ UNCHANGED <<mem, batch, holder, proc, skipped>>

AgeTurn(t) ==
  /\ t \in l0 \ aged
  /\ aged' = aged \cup {t}
  /\ UNCHANGED <<mem, l0, batch, status, holder, proc, skipped>>

(* A memory that is not forgotten cites the session.                       *)
Cited(s) == \E m \in Mems : mem[m].ref = s /\ ~Is(m, "tombstone")

(* pruneConversations: everything past retention whose session is uncited. *)
Prunable == {t \in aged : ~Cited(SessionOf[t])}

PruneConversations ==
  /\ Prunable # {}
  /\ l0' = l0 \ Prunable
  /\ aged' = aged \ Prunable
  /\ UNCHANGED <<mem, batch, status, holder, proc, skipped>>

-----------------------------------------------------------------------------
(* The jobs. *)

ClaimJob(p, j) ==
  /\ At(p, "idle")
  /\ status[j] = "open"
  /\ holder' = [holder EXCEPT ![j] = p]
  /\ proc' = [proc EXCEPT ![p] = [phase |-> "claimed", job |-> j, got |-> {}]]
  /\ UNCHANGED <<mem, l0, aged, batch, status, skipped>>

(* runExtractJob reads its own copy of the turn; a turn that is gone, or   *)
(* of which nothing fits the transcript, is settled without a model call.  *)
ReadTurn(p, t) ==
  /\ At(p, "claimed") /\ proc[p].job = Extract(t)
  /\ \E phase \in IF t \in l0 THEN {"asking", "settle"} ELSE {"settle"} :
       proc' = [proc EXCEPT ![p] =
         [phase |-> phase, job |-> proc[p].job, got |-> {}]]
  /\ UNCHANGED <<mem, l0, aged, batch, status, holder, skipped>>

(* runReconcileJob fetches what is left of its batch ...                   *)
FetchCandidates(p, t) ==
  LET got == {m \in batch[t] : Is(m, "candidate")}
  IN /\ At(p, "claimed") /\ proc[p].job = Reconcile(t)
     /\ proc' = [proc EXCEPT ![p] =
          [phase |-> IF got = {} THEN "settle" ELSE "asking",
           job |-> proc[p].job, got |-> got]]
     /\ UNCHANGED <<mem, l0, aged, batch, status, holder, skipped>>

(* Mutant: a commit without the fencing test.                              *)
Unfenced(p) == TRUE

(* commitClaimedJob: done with the writes while the token still holds, or  *)
(* a FencingError and no write at all.                                     *)
CanCommit(p) == Holds(p) /\ status[proc[p].job] = "open"

Finished(p) == [status EXCEPT ![proc[p].job] = "done"]

Settle(p) ==
  /\ At(p, "settle")
  /\ status' = IF CanCommit(p) THEN Finished(p) ELSE status
  /\ Yield(p)
  /\ UNCHANGED <<mem, l0, aged, batch, holder, skipped>>

(* The commit of a worker that has lost its claim.                         *)
Fenced(p) ==
  /\ At(p, "asking")
  /\ ~CanCommit(p)
  /\ Yield(p)
  /\ UNCHANGED <<mem, l0, aged, batch, status, holder, skipped>>

(* Mutant: a forgotten memory is found by the quote it no longer has.      *)
SuppressedByQuote(s) ==
  \E m \in Mems : mem[m].ref = s /\ Is(m, "tombstone") /\ mem[m].quote

(* The suppression query of the commit: a forgotten memory cites the       *)
(* session.                                                                *)
Suppressed(s) == \E m \in Mems : mem[m].ref = s /\ Is(m, "tombstone")

(* runExtractJob's commit: the reply's candidates with their evidence, and *)
(* the reconcile job in the same transaction; a suppressed source or an    *)
(* empty reply only finishes the job.                                      *)
CommitExtract(p, t) ==
  /\ At(p, "asking") /\ proc[p].job = Extract(t)
  /\ CanCommit(p)
  /\ \/ /\ status' = Finished(p)
        /\ UNCHANGED <<mem, batch>>
     \/ /\ ~Suppressed(SessionOf[t])
        /\ \E new \in SUBSET {m \in Mems : Is(m, "none")} :
             /\ Cardinality(new) \in 1 .. MaxCandidates
             /\ \E quoted \in SUBSET new :
                  mem' = [m \in Mems |->
                    IF m \in new THEN NewMemory("candidate", SessionOf[t], m \in quoted)
                    ELSE mem[m]]
             /\ batch' = [batch EXCEPT ![t] = new]
        /\ status' = Opened(Finished(p), Reconcile(t))
  /\ Yield(p)
  /\ UNCHANGED <<l0, aged, holder, skipped>>

(* The status an active memory leaves for when a candidate replaces it.    *)
Retirement(m) == IF m \in Procedures THEN "archived" ELSE "superseded"

(* Mutants: a candidate is activated whatever has become of it; a drop     *)
(* leaves the row a candidate, or a status the column's CHECK refuses.     *)
StandsAnyway(d, m) == m \in DOMAIN d

DroppedStays == "candidate"

DroppedUnknown == "dropped"

(* The decisions name m, and m is active when the transaction begins (the  *)
(* model is never told a candidate's id); a supersede that names no active *)
(* memory is a plain activation.                                           *)
Named(d, m) == Is(m, "active") /\ \E c \in DOMAIN d : d[c] = m

(* WHERE id = ? AND status = 'candidate': a candidate forgotten meanwhile  *)
(* is left as it is.                                                       *)
Stands(d, m) == m \in DOMAIN d /\ Is(m, "candidate")

Dropped == "superseded"

(* parseDecisions asks for as many distinct numbers below the batch's size *)
(* as it has candidates, and not that they be whole: a number between two  *)
(* counts as covered and names nobody, so that a reply may decide any part *)
(* of the batch.                                                           *)
Decided(p) == SUBSET proc[p].got

(* runReconcileJob's commit: each candidate decided is "activate", "drop", *)
(* or the id of the memory to supersede.  Of several candidates naming one *)
(* memory, `by` is the first in the reply's order; the memory points at it *)
(* whatever has become of the candidate itself.                            *)
CommitReconcile(p, t) ==
  /\ At(p, "asking") /\ proc[p].job = Reconcile(t)
  /\ CanCommit(p)
  /\ \E D \in Decided(p) : \E d \in [D -> {"activate", "drop"} \cup Mems] :
       /\ \E by \in [{m \in Mems : Named(d, m)} -> D] :
            /\ \A m \in DOMAIN by : d[by[m]] = m
            /\ mem' = [m \in Mems |->
                 IF m \in DOMAIN by THEN Moved(mem[m], Retirement(m), by[m])
                 ELSE IF Stands(d, m)
                   THEN Moved(mem[m], IF d[m] = "drop" THEN Dropped ELSE "active", NULL)
                 ELSE mem[m]]
       /\ skipped' = skipped \cup (proc[p].got \ D)
  /\ status' = Finished(p)
  /\ Yield(p)
  /\ UNCHANGED <<l0, aged, batch, holder>>

(* The dead-letter exit of a claim past the last attempt.                  *)
DeadLetter(p) ==
  /\ At(p, "claimed")
  /\ CanCommit(p)
  /\ status' = [status EXCEPT ![proc[p].job] = "dead"]
  /\ holder' = [holder EXCEPT ![proc[p].job] = NULL]
  /\ Yield(p)
  /\ UNCHANGED <<mem, l0, aged, batch, skipped>>

(* A model error, a malformed reply, a timeout, or the process dies: the   *)
(* job is left open for the next claim.                                    *)
Abandon(p) ==
  /\ ~At(p, "idle")
  /\ Yield(p)
  /\ UNCHANGED <<mem, l0, aged, batch, status, holder, skipped>>

-----------------------------------------------------------------------------
(* What people and decay do meanwhile. *)

(* propose: active at once, citing the session; `old`, if any, must still  *)
(* be active, or the whole transaction is rolled back.                     *)
Propose(m, s, old) ==
  /\ Is(m, "none")
  /\ old # NULL => Is(old, "active")
  /\ mem' = [n \in Mems |-> IF n = m THEN NewMemory("active", s, FALSE)
                            ELSE IF n = old THEN Moved(mem[n], "superseded", m)
                            ELSE mem[n]]
  /\ UNCHANGED <<l0, aged, batch, status, holder, proc, skipped>>

(* forget: the words and the quote go, the reference stays.                *)
Forget(m) ==
  /\ ~Is(m, "none") /\ ~Is(m, "tombstone")
  /\ mem' = [mem EXCEPT ![m] = [status |-> "tombstone", by |-> mem[m].by,
                                ref |-> mem[m].ref, quote |-> FALSE]]
  /\ UNCHANGED <<l0, aged, batch, status, holder, proc, skipped>>

(* Mutant: revival of everything found useful that is not active.          *)
RevivableRetired(m) == mem[m].status \in {"dormant", "archived", "superseded"}

Revivable(m) == Is(m, "dormant")

(* runDecayJob, in its commit: the idle go dormant, the useful come back.  *)
Decay(m) ==
  /\ \/ Is(m, "active") /\ mem' = [mem EXCEPT ![m] = Moved(mem[m], "dormant", mem[m].by)]
     \/ Revivable(m) /\ mem' = [mem EXCEPT ![m] = Moved(mem[m], "active", mem[m].by)]
  /\ UNCHANGED <<l0, aged, batch, status, holder, proc, skipped>>

-----------------------------------------------------------------------------
JobRun(p) ==
  \/ \E j \in JobIds : ClaimJob(p, j)
  \/ \E t \in Turns : \/ ReadTurn(p, t) \/ CommitExtract(p, t)
                      \/ FetchCandidates(p, t) \/ CommitReconcile(p, t)
  \/ Settle(p) \/ Fenced(p) \/ DeadLetter(p) \/ Abandon(p)

People == \E m \in Mems : \/ \E s \in Sessions, old \in Mems \cup {NULL} : Propose(m, s, old)
                          \/ Forget(m) \/ Decay(m)

Conversations == \/ \E t \in Turns : AgeTurn(t) \/ \E want \in BOOLEAN : CaptureTurn(t, want)
                 \/ PruneConversations

Next == People \/ Conversations \/ \E p \in Procs : JobRun(p)

Spec == Init /\ [][Next]_vars

-----------------------------------------------------------------------------
(* Properties. *)

(* Type invariant of the store and the processes.                          *)
TypeOK == /\ mem \in [Mems -> Memory]
          /\ l0 \subseteq Turns /\ aged \subseteq l0
          /\ batch \in [Turns -> SUBSET Mems]
          /\ status \in [JobIds -> {"none", "open", "done", "dead"}]
          /\ holder \in [JobIds -> Procs \cup {NULL}]
          /\ proc \in [Procs -> Process]
          /\ skipped \subseteq Mems

(* D5: a forgotten memory is out of everyone's reach: no reconcile that    *)
(* fetched it as a candidate, no supersession and no revival writes its    *)
(* row again.                                                              *)
ForgottenIsFinal == [][\A m \in Mems : Is(m, "tombstone") => mem'[m] = mem[m]]_vars

(* Replacements form no loop: no set of memories all point at each other   *)
(* through `superseded_by`, and a replaced memory never comes back to be   *)
(* replaced again, whatever proposals, reconciles, revivals and takeovers  *)
(* retire meanwhile (reconcile.ts keeps no cycle check).                   *)
ReplacementsEnd ==
  /\ \A C \in (SUBSET Mems) \ {{}} : \E m \in C : mem[m].by \notin C
  /\ \A m \in Mems : mem[m].by # NULL
                      => mem[m].status \in {"superseded", "archived", "tombstone"}

Awaited(m) == \E t \in Turns : /\ m \in batch[t]
                              /\ status[Reconcile(t)] \in {"open", "dead"}

(* A candidate is stranded by a reply that passes it over and in no other  *)
(* way: any other one waits for a reconcile job that holds it, or that was *)
(* given up on, whatever forgets, takeovers and late commits came between. *)
NoCandidateStranded ==
  \A m \in Mems : Is(m, "candidate") => Awaited(m) \/ m \in skipped

(* What the parser says it makes sure of: the decisions of a finished job  *)
(* cover every candidate.                                                  *)
EveryCandidateCovered == \A m \in Mems : Is(m, "candidate") => Awaited(m)

(* A turn is learned from once: retries, takeovers and replays of its end  *)
(* never insert a second batch of candidates.                              *)
LearnedOnce == [][\A t \in Turns : batch'[t] # batch[t] => batch[t] = {}]_vars

(* The session is cited by a memory somebody forgot.                       *)
Forgotten(s) == \E m \in Mems : Is(m, "tombstone") /\ mem[m].ref = s

(* No candidate is inserted from a session a forgotten memory cites, even  *)
(* one forgotten while the model was reading the turn (source suppression).*)
NothingLearnedFromForgotten ==
  [][\A m \in Mems : Is(m, "none") /\ mem'[m].status = "candidate"
                       => ~Forgotten(mem'[m].ref)]_vars

(* The architecture's stronger promise: the same reverse lookup stands     *)
(* before a candidate is activated.                                        *)
NothingActivatedFromForgotten ==
  [][\A m \in Mems : Is(m, "candidate") /\ mem'[m].status = "active"
                       => ~Forgotten(mem[m].ref)]_vars

(* The claim behind the missing cycle check: `superseded_by` is written on *)
(* a row leaving 'active', pointing at one that is entering it.            *)
RetiredForAnActiveRow ==
  [][\A m \in Mems : mem'[m].by # mem[m].by
                       => Is(m, "active") /\ mem'[mem'[m].by].status = "active"]_vars

(* A queued extract job can read the turn it was queued for.               *)
QueuedTurnReadable == \A t \in Turns : status[Extract(t)] = "open" => t \in l0

(* Two jobs that read, ask and commit in steps of their own, of any number *)
(* of processes, add up to two instants: one in which a turn is learned    *)
(* from, one in which what is left of it is judged, as far as the reply    *)
(* goes.                                                                   *)
Life == INSTANCE MemoryLife WITH judged <- {t \in Turns : status[Reconcile(t)] = "done"}

LifeSpec == Life!Spec
=============================================================================
