---------------------------- MODULE MemoryLayers ----------------------------
(***************************************************************************)
(* The derived layer of one store: the scenario blocks of a repository     *)
(* (L2) or the portrait of the global store (L3), which stand in for the   *)
(* raw memories in every injection.  Any write to the layer's source set   *)
(* deletes the layer and bumps store_revision, in triggers                 *)
(* (store/schema.ts); maintenance queues a rebuild keyed by the revision,  *)
(* and its handler reads, asks the model and writes in separate steps      *)
(* (pipeline/rebuild.ts), so a write of another process, a takeover or a   *)
(* crash can fall between any two of them.                                 *)
(*                                                                         *)
(* The job rows are those of JobLedger, which JobQueue implements; leases  *)
(* are abstracted to who holds the row, and a takeover may come any time.  *)
(***************************************************************************)
EXTENDS Integers

CONSTANTS Procs,          \* processes with this store open
          Mems,           \* ids of raw memories
          Texts,          \* what a source row says
          Overflows(_),   \* packetTokens(S) > INJECT_BODY_BUDGET_TOKENS
          NULL,
          MaxRevision     \* bound: writes to the source set

Snapshot == SUBSET (Mems \X Texts)

ASSUME LayersAssumption ==
  /\ MaxRevision \in Nat
  /\ {"none", "out", NULL} \cap Texts = {}
  /\ \A S \in Snapshot : Overflows(S) \in BOOLEAN
  /\ NULL \notin Procs
  /\ NULL \notin [of : Snapshot, empty : BOOLEAN]

VARIABLES kind,       \* OpenStore.kind, fixed when the store is opened
          raw,        \* [Mems -> RawRow]: the rows with derived = RAW
          revision,   \* meta.store_revision
          layer,      \* the derived rows: NULL, or what they were built from
          status,     \* the rebuild jobs, by the revision in their id ...
          applied,    \* ... with the ledger's count of their commits
          holder,     \* the process whose token the job's row carries
          proc        \* [Procs -> Process]: each process's maintenance or run

vars == <<kind, raw, revision, layer, status, applied, holder, proc>>

Revisions == 0 .. MaxRevision

Ledger == INSTANCE JobLedger WITH Jobs <- Revisions

-----------------------------------------------------------------------------
(* Rows. *)

(* No row; a row outside the source set (a candidate, a retired row, a     *)
(* provenance that is never injected); or a source row and what it says.   *)
RawRow == {"none", "out"} \cup Texts

(* Mutants: the source set seen from the new row only; any raw write.      *)
InvalidatesNewOnly(old, new) == new \in Texts
InvalidatesAll(old, new) == TRUE

(* The three triggers: OLD or NEW in the source set, same text or not.     *)
Invalidates(old, new) == old \in Texts \/ new \in Texts

(* queryInjectableSet and queryPersonaSources: one predicate.              *)
Sources == {s \in Mems \X Texts : raw[s[1]] = s[2]}

Layer == [of : Snapshot, empty : BOOLEAN]

(* Whether a snapshot calls for a layer, by kind of store.                 *)
Wanted(S) == IF kind = "global" THEN S # {} ELSE Overflows(S)

(* maintain: "measured" and "keyed"; runRebuildJob: "claimed", "checked",  *)
(* "sourced" (portrait only), "asking", "settle" (commit with no writes).  *)
Phases == {"idle", "measured", "keyed", "claimed", "checked", "sourced",
           "asking", "settle"}

Process == [phase : Phases, rev : Revisions, got : Snapshot, had : BOOLEAN]

Idle == [phase |-> "idle", rev |-> 0, got |-> {}, had |-> FALSE]

(* A store migrated from before the triggers has rows and no revision.     *)
Init == /\ kind \in {"repo", "global"}
        /\ raw \in [Mems -> RawRow]
        /\ revision = 0
        /\ layer = NULL
        /\ status = [j \in Revisions |-> "none"]
        /\ applied = [j \in Revisions |-> 0]
        /\ holder = [j \in Revisions |-> NULL]
        /\ proc = [p \in Procs |-> Idle]

At(p, phase) == proc[p].phase = phase

Goto(p, phase) == proc' = [proc EXCEPT ![p] =
  [phase |-> phase, rev |-> proc[p].rev, got |-> proc[p].got, had |-> proc[p].had]]

Yield(p) == proc' = [proc EXCEPT ![p] = Idle]

-----------------------------------------------------------------------------
(* Any write to a raw row, whoever the writer is.                          *)

Write(m, new) ==
  /\ new # "none" \/ raw[m] # "none"
  /\ raw' = [raw EXCEPT ![m] = new]
  /\ \/ /\ Invalidates(raw[m], new)
        /\ revision < MaxRevision
        /\ revision' = revision + 1
        /\ layer' = NULL
     \/ /\ ~Invalidates(raw[m], new)
        /\ UNCHANGED <<revision, layer>>
  /\ UNCHANGED <<kind, status, applied, holder, proc>>

-----------------------------------------------------------------------------
(* maintain. *)

(* enqueueRebuildIfOverflowing, enqueuePersonaRebuild: is a layer called   *)
(* for?                                                                    *)
Measure(p) ==
  /\ At(p, "idle")
  /\ Wanted(Sources)
  /\ Goto(p, "measured")
  /\ UNCHANGED <<kind, raw, revision, layer, status, applied, holder>>

(* Mutant: readRevision without its default.                               *)
RevisionOrNull == IF revision = 0 THEN NULL ELSE revision

(* readRevision: 0 while the row does not exist.                           *)
RevisionRead == revision

(* enqueueRebuild pins a revision, which may already be a later one ...    *)
ReadRevision(p) ==
  /\ At(p, "measured")
  /\ proc' = [proc EXCEPT ![p] =
       [phase |-> "keyed", rev |-> RevisionRead, got |-> {}, had |-> FALSE]]
  /\ UNCHANGED <<kind, raw, revision, layer, status, applied, holder>>

(* Mutant: a dead-lettered rebuild is never triggered again.               *)
EnqueueOnce(p) ==
  LET j == proc[p].rev
  IN /\ At(p, "keyed")
     /\ \/ /\ status[j] = "none"
           /\ Ledger!Trigger(j)
           /\ holder' = [holder EXCEPT ![j] = NULL]
        \/ status[j] # "none" /\ UNCHANGED <<status, applied, holder>>
     /\ Yield(p)
     /\ UNCHANGED <<kind, raw, revision, layer>>

(* ... and triggers the job of that revision, already outdated perhaps.    *)
EnqueueRebuild(p) ==
  LET j == proc[p].rev
  IN /\ At(p, "keyed")
     /\ \/ Ledger!Trigger(j) /\ holder' = [holder EXCEPT ![j] = NULL]
        \/ status[j] \in {"open", "done"} /\ UNCHANGED <<status, applied, holder>>
     /\ Yield(p)
     /\ UNCHANGED <<kind, raw, revision, layer>>

(* cleanupJobs: retention, and failed rebuilds of another revision.        *)
CleanupJobs(p) ==
  /\ At(p, "idle")
  /\ \E j \in Revisions : status[j] \in {"done", "dead"} /\ Ledger!Purge({j})
  /\ UNCHANGED <<kind, raw, revision, layer, holder, proc>>

-----------------------------------------------------------------------------
(* runRebuildJob and runPersonaJob. *)

(* A claim, of a queued job or from a worker whose lease ran out.          *)
ClaimRebuild(p, j) ==
  /\ At(p, "idle")
  /\ status[j] = "open"
  /\ holder' = [holder EXCEPT ![j] = p]
  /\ proc' = [proc EXCEPT ![p] =
       [phase |-> "claimed", rev |-> j, got |-> {}, had |-> FALSE]]
  /\ UNCHANGED <<kind, raw, revision, layer, status, applied>>

(* The precheck: a job of an older snapshot is settled without a model     *)
(* call.                                                                   *)
Precheck(p) ==
  /\ At(p, "claimed")
  /\ Goto(p, IF RevisionRead = proc[p].rev THEN "checked" ELSE "settle")
  /\ UNCHANGED <<kind, raw, revision, layer, status, applied, holder>>

(* Mutant: the threshold is not tested again.                              *)
SummarisedAnyway == IF kind = "global" THEN "sourced" ELSE "asking"

(* A set that no longer calls for a layer settles the job.                 *)
NextWithSources ==
  IF ~Wanted(Sources) THEN "settle"
  ELSE IF kind = "global" THEN "sourced" ELSE "asking"

(* The sources, in a read of their own.                                    *)
ReadSources(p) ==
  /\ At(p, "checked")
  /\ proc' = [proc EXCEPT ![p] =
       [phase |-> NextWithSources,
        rev |-> proc[p].rev, got |-> Sources, had |-> FALSE]]
  /\ UNCHANGED <<kind, raw, revision, layer, status, applied, holder>>

(* runPersonaJob: the current portrait, in another read.                   *)
ReadPortrait(p) ==
  /\ At(p, "sourced")
  /\ proc' = [proc EXCEPT ![p] =
       [phase |-> "asking", rev |-> proc[p].rev, got |-> proc[p].got,
        had |-> layer # NULL]]
  /\ UNCHANGED <<kind, raw, revision, layer, status, applied, holder>>

Holds(p) == holder[proc[p].rev] = p

(* commitClaimedJob with nothing to write, or its FencingError.            *)
SettleJob(p) ==
  /\ \/ Holds(p) /\ Ledger!Finish(proc[p].rev)
     \/ ~(Holds(p) /\ status[proc[p].rev] = "open") /\ UNCHANGED <<status, applied>>
  /\ Yield(p)
  /\ UNCHANGED <<kind, raw, revision, layer, holder>>

Settle(p) == At(p, "settle") /\ SettleJob(p)

(* Mutant: "keep" settles the job with or without a portrait to keep.      *)
KeepNothing(p) == At(p, "asking") /\ kind = "global" /\ SettleJob(p)

(* The model judges the portrait it was shown still right.                 *)
KeepPortrait(p) == At(p, "asking") /\ proc[p].had /\ SettleJob(p)

(* The writes inside the commit: fenced on the revision once more, then    *)
(* the layer replaced as a whole.                                          *)
ReplaceLayer(p, empty) ==
  \/ /\ RevisionRead = proc[p].rev
     /\ layer' = [of |-> proc[p].got, empty |-> empty]
  \/ RevisionRead # proc[p].rev /\ UNCHANGED layer

(* A usable reply: scenario blocks, a rewritten portrait, or "keep", which *)
(* carries no body, when there was no portrait to keep.                    *)
CommitLayer(p) ==
  /\ At(p, "asking")
  /\ \/ /\ Holds(p)
        /\ Ledger!Finish(proc[p].rev)
        /\ \E empty \in IF kind = "global" /\ ~proc[p].had THEN BOOLEAN ELSE {FALSE} :
             ReplaceLayer(p, empty)
     \/ /\ ~(Holds(p) /\ status[proc[p].rev] = "open")
        /\ UNCHANGED <<status, applied, layer>>
  /\ Yield(p)
  /\ UNCHANGED <<kind, raw, revision, holder>>

(* The dead-letter exit of a claim past the last attempt.                  *)
DeadLetter(p) ==
  /\ At(p, "claimed")
  /\ Holds(p)
  /\ Ledger!GiveUp(proc[p].rev)
  /\ Yield(p)
  /\ UNCHANGED <<kind, raw, revision, layer, holder>>

(* The process dies, its model call fails or its reply is malformed, it    *)
(* has no model route to pin, or it loses the write lock: the job is left  *)
(* open.                                                                   *)
Abandon(p) ==
  /\ ~At(p, "idle")
  /\ Yield(p)
  /\ UNCHANGED <<kind, raw, revision, layer, status, applied, holder>>

-----------------------------------------------------------------------------
Maintain(p) == Measure(p) \/ ReadRevision(p) \/ EnqueueRebuild(p) \/ CleanupJobs(p)

Rebuild(p) == \/ \E j \in Revisions : ClaimRebuild(p, j)
              \/ Precheck(p) \/ ReadSources(p) \/ ReadPortrait(p)
              \/ Settle(p) \/ KeepPortrait(p) \/ CommitLayer(p)
              \/ DeadLetter(p) \/ Abandon(p)

Next == \/ \E m \in Mems, r \in RawRow : Write(m, r)
        \/ \E p \in Procs : Maintain(p) \/ Rebuild(p)

Spec == Init /\ [][Next]_vars

(* The six-hour maintenance and the ticks keep coming.  An open job is not *)
(* passed over for ever, and a step that is reached again and again is     *)
(* one day not cut short: the model answers, the process survives, the     *)
(* lease is kept.                                                          *)
Fairness ==
  /\ \A p \in Procs :
       /\ SF_vars(Measure(p)) /\ SF_vars(ReadRevision(p)) /\ SF_vars(EnqueueRebuild(p))
       /\ SF_vars(Precheck(p)) /\ SF_vars(ReadSources(p)) /\ SF_vars(ReadPortrait(p))
  /\ SF_vars(\E p \in Procs : Holds(p) /\ Settle(p))
  /\ SF_vars(\E p \in Procs : Holds(p) /\ (KeepPortrait(p) \/ CommitLayer(p)))
  /\ \A j \in Revisions : SF_vars(\E p \in Procs : ClaimRebuild(p, j))

FairSpec == Spec /\ Fairness

-----------------------------------------------------------------------------
(* Properties. *)

(* Type invariant of the store and the processes.                          *)
TypeOK == /\ kind \in {"repo", "global"}
          /\ raw \in [Mems -> RawRow]
          /\ revision \in Revisions
          /\ layer \in Layer \cup {NULL}
          /\ status \in [Revisions -> {"none", "open", "done", "dead"}]
          /\ applied \in [Revisions -> Nat]
          /\ holder \in [Revisions -> Procs \cup {NULL}]
          /\ proc \in [Procs -> Process]

(* D9: whatever the layer says was built from exactly the raw memories the *)
(* store holds now; a memory deleted, changed or added while the model was *)
(* answering never lives on, or stays hidden, behind a layer.              *)
LayerIsCurrent == layer # NULL => layer.of = Sources

(* Maintenance collapses onto the job of the current revision, so that job *)
(* may only be done if it left nothing to build: no order of writes,       *)
(* triggers, takeovers and settled jobs may mark the snapshot's one        *)
(* rebuild done and leave the layer it calls for missing.                  *)
DoneMeansBuilt == status[revision] = "done" /\ Wanted(Sources) => layer # NULL

(* The v12 narrowing: a write that leaves the source set as it is, of a    *)
(* candidate, a retired row or an uninjectable one, leaves the layer too.  *)
OnlySourceWritesRetire ==
  [][layer # NULL /\ raw' # raw /\ Sources' = Sources => layer' = layer]_vars

(* A portrait, once stored, says something: the retry exit takes a verdict *)
(* without a body (parsePersona).                                          *)
PortraitHasBody == layer # NULL => ~layer.empty

(* Once the writes stop, a store that calls for a layer gets one, through  *)
(* jobs of outdated revisions, dead letters, takeovers and crashes.        *)
LayerComesBack == Wanted(Sources) ~> layer # NULL \/ ~Wanted(Sources)

(* The reads, the model call and the two fences of a rebuild add up to one *)
(* instant: to a reader the layer is a cache that every change of a source *)
(* retires and that is only ever built of what the store holds.            *)
Cache == INSTANCE LayerCache WITH
  Snapshots <- Snapshot, sources <- Sources, called <- Wanted(Sources),
  changes <- revision

CacheSpec == Cache!Spec
=============================================================================
