------------------------- MODULE MemoryLayersProofs -------------------------
(***************************************************************************)
(* Theorems about MemoryLayers, for any processes, memories and texts, any *)
(* pricing of a set of memories and any number of writes.                  *)
(***************************************************************************)
EXTENDS MemoryLayers, TLAPS

USE LayersAssumption

LEMMA SourcesType == Sources \in Snapshot
  BY DEF Sources, Snapshot

LEMMA WantedType == ASSUME NEW S \in Snapshot PROVE Wanted(S) \in BOOLEAN
  BY DEF Wanted

LEMMA IdleType == Idle \in Process
  BY DEF Idle, Process, Phases, Snapshot, Revisions

(* A write outside the source set leaves what the layer is built from. *)
LEMMA SourcesKept ==
  ASSUME TypeOK, NEW m \in Mems, NEW new \in RawRow,
         ~Invalidates(raw[m], new), raw' = [raw EXCEPT ![m] = new]
  PROVE  Sources' = Sources
<1>1. \A s \in Mems \X Texts : raw'[s[1]] = s[2] <=> raw[s[1]] = s[2]
  BY DEF TypeOK, Invalidates
<1>2. QED
  BY <1>1 DEF Sources

(* The job row only ever moves along the ledger. *)
LEMMA LedgerTypes ==
  ASSUME TypeOK, NEW j \in Revisions,
         \/ Ledger!Trigger(j) \/ Ledger!Finish(j) \/ Ledger!GiveUp(j)
         \/ Ledger!Purge({j})
         \/ UNCHANGED <<status, applied>>
  PROVE  /\ status' \in [Revisions -> {"none", "open", "done", "dead"}]
         /\ applied' \in [Revisions -> Nat]
  BY DEF TypeOK, Ledger!Trigger, Ledger!Finish, Ledger!GiveUp, Ledger!Purge

LEMMA GotoType ==
  ASSUME TypeOK, NEW p \in Procs, NEW phase \in Phases, Goto(p, phase)
  PROVE  proc' \in [Procs -> Process]
  BY DEF TypeOK, Goto, Process

LEMMA YieldType ==
  ASSUME TypeOK, NEW p \in Procs, Yield(p) PROVE proc' \in [Procs -> Process]
  BY IdleType DEF TypeOK, Yield

LEMMA ReplaceType ==
  ASSUME TypeOK, NEW p \in Procs, NEW e \in BOOLEAN, ReplaceLayer(p, e)
  PROVE  layer' \in Layer \cup {NULL}
  BY DEF TypeOK, ReplaceLayer, Process, Layer

LEMMA TypeStep == TypeOK /\ [Next]_vars => TypeOK'
<1> SUFFICES ASSUME TypeOK, [Next]_vars PROVE TypeOK'
  OBVIOUS
<1>1. ASSUME NEW m \in Mems, NEW r \in RawRow, Write(m, r) PROVE TypeOK'
  BY <1>1 DEF Write, TypeOK, Revisions
<1>2. ASSUME NEW p \in Procs, NEW phase \in Phases, Goto(p, phase),
             UNCHANGED <<kind, raw, revision, layer, status, applied, holder>>
      PROVE  TypeOK'
  BY <1>2, GotoType DEF TypeOK
<1>3. ASSUME NEW p \in Procs, NEW w \in Process, proc' = [proc EXCEPT ![p] = w],
             UNCHANGED <<kind, raw, revision, layer, status, applied>>,
             holder' \in [Revisions -> Procs \cup {NULL}]
      PROVE  TypeOK'
  BY <1>3 DEF TypeOK
<1>4. ASSUME NEW p \in Procs, ReadRevision(p) PROVE TypeOK'
  <2>1. [phase |-> "keyed", rev |-> revision, got |-> {}, had |-> FALSE] \in Process
    BY DEF TypeOK, Process, Phases, Snapshot
  <2>2. QED
    BY <1>3, <1>4, <2>1 DEF ReadRevision, RevisionRead, TypeOK
<1>5. ASSUME NEW p \in Procs, EnqueueRebuild(p) PROVE TypeOK'
  <2>1. proc[p].rev \in Revisions
    BY DEF TypeOK, Process
  <2>2. /\ status' \in [Revisions -> {"none", "open", "done", "dead"}]
        /\ applied' \in [Revisions -> Nat]
    BY <1>5, <2>1, LedgerTypes DEF EnqueueRebuild
  <2>3. holder' \in [Revisions -> Procs \cup {NULL}]
    BY <1>5 DEF EnqueueRebuild, TypeOK
  <2>4. QED
    BY <1>5, <2>2, <2>3, YieldType DEF EnqueueRebuild, TypeOK
<1>6. ASSUME NEW p \in Procs, CleanupJobs(p) PROVE TypeOK'
  BY <1>6, LedgerTypes DEF CleanupJobs, TypeOK
<1>7. ASSUME NEW p \in Procs, NEW j \in Revisions, ClaimRebuild(p, j) PROVE TypeOK'
  <2>1. [phase |-> "claimed", rev |-> j, got |-> {}, had |-> FALSE] \in Process
    BY DEF Process, Phases, Snapshot
  <2>2. holder' \in [Revisions -> Procs \cup {NULL}]
    BY <1>7 DEF ClaimRebuild, TypeOK
  <2>3. QED
    BY <1>3, <1>7, <2>1, <2>2 DEF ClaimRebuild
<1>8. ASSUME NEW p \in Procs, ReadSources(p) PROVE TypeOK'
  <2> DEFINE w == [phase |-> NextWithSources,
                   rev |-> proc[p].rev, got |-> Sources, had |-> FALSE]
  <2>1. w \in Process
    BY SourcesType DEF TypeOK, Process, Phases, NextWithSources
  <2>2. proc' = [proc EXCEPT ![p] = w]
    BY <1>8 DEF ReadSources
  <2> HIDE DEF w
  <2>3. QED
    BY <1>3, <1>8, <2>1, <2>2 DEF ReadSources, TypeOK
<1>9. ASSUME NEW p \in Procs, ReadPortrait(p) PROVE TypeOK'
  <2>1. [phase |-> "asking", rev |-> proc[p].rev, got |-> proc[p].got,
         had |-> layer # NULL] \in Process
    BY DEF TypeOK, Process, Phases
  <2>2. QED
    BY <1>3, <1>9, <2>1 DEF ReadPortrait, TypeOK
<1>10. ASSUME NEW p \in Procs, SettleJob(p) PROVE TypeOK'
  <2>1. proc[p].rev \in Revisions
    BY DEF TypeOK, Process
  <2>2. QED
    BY <1>10, <2>1, LedgerTypes, YieldType DEF SettleJob, TypeOK
<1>11. ASSUME NEW p \in Procs, CommitLayer(p) PROVE TypeOK'
  <2>1. proc[p].rev \in Revisions
    BY DEF TypeOK, Process
  <2>2. layer' \in Layer \cup {NULL}
    BY <1>11, ReplaceType DEF CommitLayer, TypeOK
  <2>3. QED
    BY <1>11, <2>1, <2>2, LedgerTypes, YieldType DEF CommitLayer, TypeOK
<1>12. ASSUME NEW p \in Procs, DeadLetter(p) PROVE TypeOK'
  <2>1. proc[p].rev \in Revisions
    BY DEF TypeOK, Process
  <2>2. QED
    BY <1>12, <2>1, LedgerTypes, YieldType DEF DeadLetter, TypeOK
<1>13. ASSUME NEW p \in Procs, Abandon(p) PROVE TypeOK'
  BY <1>13, YieldType DEF Abandon, TypeOK
<1>14. CASE UNCHANGED vars
  BY <1>14 DEF vars, TypeOK
<1>15. ASSUME NEW p \in Procs, Maintain(p) PROVE TypeOK'
  BY <1>2, <1>4, <1>5, <1>6, <1>15 DEF Maintain, Measure, Phases
<1>16. ASSUME NEW p \in Procs, Rebuild(p) PROVE TypeOK'
  BY <1>2, <1>7, <1>8, <1>9, <1>10, <1>11, <1>12, <1>13, <1>16
     DEF Rebuild, Precheck, Settle, KeepPortrait, Phases
<1>17. QED
  BY <1>1, <1>14, <1>15, <1>16 DEF Next

(* The store and the processes keep their types. *)
THEOREM TypeCorrect == Spec => []TypeOK
<1>1. Init => TypeOK
  BY IdleType DEF Init, TypeOK, Revisions
<1>2. QED
  BY <1>1, TypeStep, PTL DEF Spec

-----------------------------------------------------------------------------
(* What the processes know. *)

(* Revisions only grow: nothing is keyed by one the store has not reached. *)
NoneAhead == /\ \A p \in Procs : proc[p].rev <= revision
             /\ \A j \in Revisions : j > revision => status[j] = "none"

(* While the store is still at the job's revision, what the worker read is *)
(* what the store holds, and still calls for a layer.                      *)
ReadsHold ==
  \A p \in Procs : proc[p].rev = revision =>
    /\ proc[p].phase \in {"sourced", "asking"} => proc[p].got = Sources /\ Wanted(Sources)
    /\ proc[p].phase = "settle" => ~Wanted(Sources)
    /\ proc[p].phase = "asking" /\ proc[p].had => layer # NULL

IInv == TypeOK /\ NoneAhead /\ ReadsHold /\ LayerIsCurrent /\ DoneMeansBuilt

(* Three facts are enough of what a step does: the source set and the      *)
(* revision are left alone ...                                             *)
Quiet == UNCHANGED <<kind, raw, revision>>

LEMMA QuietFacts ==
  ASSUME Quiet
  PROVE  Sources' = Sources /\ (Wanted(Sources))' = Wanted(Sources)
  BY DEF Quiet, Sources, Wanted

(* ... one process moves, to a record that fits what the store holds ...   *)
Fits(w) == /\ w.rev <= revision
           /\ w.rev = revision =>
                /\ w.phase \in {"sourced", "asking"} => w.got = Sources /\ Wanted(Sources)
                /\ w.phase = "settle" => ~Wanted(Sources)
                /\ w.phase = "asking" /\ w.had => layer # NULL

LEMMA AllFit == NoneAhead /\ ReadsHold => \A p \in Procs : Fits(proc[p])
  BY DEF NoneAhead, ReadsHold, Fits

LEMMA IdleFits == TypeOK => Fits(Idle)
  BY DEF TypeOK, Fits, Idle, Revisions

(* ... and no layer is lost, nor a job opened ahead of the store.          *)
LEMMA QuietStep ==
  ASSUME IInv, TypeOK', Quiet, layer # NULL => layer' # NULL,
         NEW p \in Procs, NEW w, proc' = [proc EXCEPT ![p] = w], Fits(w),
         \A j \in Revisions : j > revision => status'[j] = "none"
  PROVE  NoneAhead' /\ ReadsHold'
<1>1. \A q \in Procs : proc'[q] = IF q = p THEN w ELSE proc[q]
  BY DEF IInv, TypeOK
<1>2. \A q \in Procs : Fits(proc'[q])
  BY <1>1, AllFit DEF IInv
<1>3. NoneAhead'
  BY <1>2 DEF NoneAhead, Fits, Quiet
<1>4. ReadsHold'
  BY <1>2, QuietFacts DEF ReadsHold, Fits, Quiet
<1>5. QED
  BY <1>3, <1>4

LEMMA YieldStep ==
  ASSUME IInv, TypeOK', Quiet, layer # NULL => layer' # NULL,
         NEW p \in Procs, Yield(p),
         \A j \in Revisions : j > revision => status'[j] = "none"
  PROVE  NoneAhead' /\ ReadsHold'
  BY QuietStep, IdleFits DEF Yield, IInv

(* A job is only ever settled at the store's revision when there is nothing *)
(* to build.                                                               *)
LEMMA LayerStays ==
  ASSUME IInv, Quiet, UNCHANGED layer,
         status'[revision] = "done" => status[revision] = "done"
  PROVE  LayerIsCurrent' /\ DoneMeansBuilt'
  BY QuietFacts DEF IInv, LayerIsCurrent, DoneMeansBuilt, Quiet

(* What each move of a job row may not do.                                 *)
LEMMA LedgerMoves ==
  ASSUME TypeOK, NEW j \in Revisions
  PROVE  /\ Ledger!Finish(j) => status' = [status EXCEPT ![j] = "done"] /\ status[j] = "open"
         /\ Ledger!GiveUp(j) => status' = [status EXCEPT ![j] = "dead"] /\ status[j] = "open"
         /\ Ledger!Trigger(j) => status' = [status EXCEPT ![j] = "open"]
         /\ Ledger!Purge({j}) => status' = [status EXCEPT ![j] = "none"]
<1>1. Ledger!Purge({j}) => status' = [status EXCEPT ![j] = "none"]
  BY DEF TypeOK, Ledger!Purge
<1>2. QED
  BY <1>1 DEF Ledger!Finish, Ledger!GiveUp, Ledger!Trigger

LEMMA InvInit == Init => IInv
<1> SUFFICES ASSUME Init PROVE IInv
  OBVIOUS
<1>1. TypeOK
  BY IdleType DEF Init, TypeOK, Revisions
<1>2. NoneAhead /\ ReadsHold
  BY DEF Init, Idle, NoneAhead, ReadsHold, Revisions
<1>3. LayerIsCurrent /\ DoneMeansBuilt
  BY <1>1 DEF Init, LayerIsCurrent, DoneMeansBuilt, TypeOK
<1>4. QED
  BY <1>1, <1>2, <1>3 DEF IInv

LEMMA WriteStep ==
  ASSUME IInv, TypeOK', NEW m \in Mems, NEW r \in RawRow, Write(m, r)
  PROVE  IInv'
<1> USE DEF IInv
<1>1. CASE Invalidates(raw[m], r)
  <2>1. revision' = revision + 1 /\ layer' = NULL /\ UNCHANGED <<status, proc>>
    BY <1>1 DEF Write
  <2>2. \A p \in Procs : proc[p].rev \in Nat /\ proc[p].rev <= revision
    BY DEF NoneAhead, TypeOK, Process, Revisions
  <2>3. NoneAhead'
    BY <2>1, <2>2 DEF NoneAhead, Revisions, TypeOK
  <2>4. ReadsHold'
    BY <2>1, <2>2 DEF ReadsHold, TypeOK, Revisions
  <2>5. revision + 1 \in Revisions /\ revision + 1 > revision
    BY <2>1 DEF TypeOK, Revisions
  <2>6. status'[revision'] = "none"
    BY <2>1, <2>5 DEF NoneAhead
  <2>7. LayerIsCurrent' /\ DoneMeansBuilt'
    BY <2>1, <2>6 DEF LayerIsCurrent, DoneMeansBuilt
  <2>8. QED
    BY <2>3, <2>4, <2>7
<1>2. CASE ~Invalidates(raw[m], r)
  <2>1. UNCHANGED <<kind, revision, layer, status, proc>>
    BY <1>2 DEF Write
  <2>2. Sources' = Sources
    BY <1>2, SourcesKept DEF Write
  <2>3. (Wanted(Sources))' = Wanted(Sources)
    BY <2>1, <2>2 DEF Wanted
  <2>4. QED
    BY <2>1, <2>2, <2>3 DEF NoneAhead, ReadsHold, LayerIsCurrent, DoneMeansBuilt
<1>3. QED
  BY <1>1, <1>2

(* Steps that move one process and leave the rows as they are.             *)
LEMMA ReadStep ==
  ASSUME IInv, TypeOK', UNCHANGED <<kind, raw, revision, layer, status>>,
         NEW p \in Procs, NEW w, proc' = [proc EXCEPT ![p] = w], Fits(w)
  PROVE  IInv'
<1>1. NoneAhead' /\ ReadsHold'
  BY QuietStep DEF Quiet, IInv, NoneAhead
<1>2. LayerIsCurrent' /\ DoneMeansBuilt'
  BY LayerStays DEF Quiet
<1>3. QED
  BY <1>1, <1>2 DEF IInv

LEMMA MaintainStep ==
  ASSUME IInv, TypeOK', NEW p \in Procs, Maintain(p)
  PROVE  IInv'
<1>1. CASE Measure(p)
  <2> DEFINE w == [phase |-> "measured", rev |-> proc[p].rev, got |-> proc[p].got,
                   had |-> proc[p].had]
  <2>1. Fits(w)
    BY AllFit DEF IInv, Fits
  <2>2. proc' = [proc EXCEPT ![p] = w] /\ UNCHANGED <<kind, raw, revision, layer, status>>
    BY <1>1 DEF Measure, Goto
  <2>3. QED
    BY <2>1, <2>2, ReadStep
<1>2. CASE ReadRevision(p)
  <2> DEFINE w == [phase |-> "keyed", rev |-> revision, got |-> {}, had |-> FALSE]
  <2>1. Fits(w)
    BY DEF IInv, TypeOK, Revisions, Fits
  <2>2. proc' = [proc EXCEPT ![p] = w] /\ UNCHANGED <<kind, raw, revision, layer, status>>
    BY <1>2 DEF ReadRevision, RevisionRead
  <2>3. QED
    BY <2>1, <2>2, ReadStep
<1>3. CASE EnqueueRebuild(p)
  <2> DEFINE j == proc[p].rev
  <2>1. j \in Revisions /\ j <= revision
    BY DEF IInv, TypeOK, Process, NoneAhead
  <2>2. status' = status \/ status' = [status EXCEPT ![j] = "open"]
    BY <1>3, <2>1, LedgerMoves DEF EnqueueRebuild, IInv
  <2>3. Quiet /\ UNCHANGED layer /\ Yield(p)
    BY <1>3 DEF EnqueueRebuild, Quiet
  <2> HIDE DEF j
  <2>4. \A k \in Revisions : k > revision => status'[k] = "none"
    BY <2>1, <2>2 DEF IInv, NoneAhead, TypeOK, Revisions
  <2>5. status'[revision] = "done" => status[revision] = "done"
    BY <2>1, <2>2 DEF IInv, TypeOK
  <2>6. QED
    BY <2>3, <2>4, <2>5, YieldStep, LayerStays DEF IInv
<1>4. CASE CleanupJobs(p)
  <2>1. PICK j \in Revisions : status' = [status EXCEPT ![j] = "none"]
    BY <1>4, LedgerMoves DEF CleanupJobs, IInv
  <2>2. Quiet /\ UNCHANGED <<layer, proc>>
    BY <1>4 DEF CleanupJobs, Quiet
  <2>3. \A k \in Revisions : k > revision => status'[k] = "none"
    BY <2>1 DEF IInv, NoneAhead, TypeOK
  <2>4. status'[revision] = "done" => status[revision] = "done"
    BY <2>1 DEF IInv, TypeOK
  <2>5. NoneAhead' /\ ReadsHold'
    BY <2>2, <2>3, QuietFacts DEF IInv, NoneAhead, ReadsHold, Quiet
  <2>6. QED
    BY <2>2, <2>4, <2>5, LayerStays DEF IInv
<1>5. QED
  BY <1>1, <1>2, <1>3, <1>4 DEF Maintain

(* The steps of a rebuild that read.                                       *)
LEMMA RebuildReads ==
  ASSUME IInv, TypeOK', NEW p \in Procs,
         \/ \E j \in Revisions : ClaimRebuild(p, j)
         \/ Precheck(p) \/ ReadSources(p) \/ ReadPortrait(p) \/ Abandon(p)
  PROVE  IInv'
<1>1. ASSUME NEW j \in Revisions, ClaimRebuild(p, j) PROVE IInv'
  <2> DEFINE w == [phase |-> "claimed", rev |-> j, got |-> {}, had |-> FALSE]
  <2>1. j <= revision
    BY <1>1 DEF ClaimRebuild, IInv, NoneAhead, TypeOK, Revisions
  <2>2. Fits(w)
    BY <2>1 DEF Fits
  <2>3. proc' = [proc EXCEPT ![p] = w] /\ UNCHANGED <<kind, raw, revision, layer, status>>
    BY <1>1 DEF ClaimRebuild
  <2>4. QED
    BY <2>2, <2>3, ReadStep
<1>2. CASE Precheck(p)
  <2> DEFINE w == [phase |-> IF revision = proc[p].rev THEN "checked" ELSE "settle",
                   rev |-> proc[p].rev, got |-> proc[p].got, had |-> proc[p].had]
  <2>1. Fits(w)
    BY AllFit DEF IInv, Fits
  <2>2. proc' = [proc EXCEPT ![p] = w] /\ UNCHANGED <<kind, raw, revision, layer, status>>
    BY <1>2 DEF Precheck, Goto, RevisionRead
  <2>3. QED
    BY <2>1, <2>2, ReadStep
<1>3. CASE ReadSources(p)
  <2> DEFINE w == [phase |-> NextWithSources,
                   rev |-> proc[p].rev, got |-> Sources, had |-> FALSE]
  <2>1. Fits(w)
    BY AllFit DEF IInv, Fits, NextWithSources
  <2>2. proc' = [proc EXCEPT ![p] = w] /\ UNCHANGED <<kind, raw, revision, layer, status>>
    BY <1>3 DEF ReadSources
  <2>3. QED
    BY <2>1, <2>2, ReadStep
<1>4. CASE ReadPortrait(p)
  <2> DEFINE w == [phase |-> "asking", rev |-> proc[p].rev, got |-> proc[p].got,
                   had |-> layer # NULL]
  <2>1. Fits(w)
    BY <1>4, AllFit DEF IInv, Fits, ReadPortrait, At
  <2>2. proc' = [proc EXCEPT ![p] = w] /\ UNCHANGED <<kind, raw, revision, layer, status>>
    BY <1>4 DEF ReadPortrait
  <2>3. QED
    BY <2>1, <2>2, ReadStep
<1>5. CASE Abandon(p)
  BY <1>5, IdleFits, ReadStep DEF Abandon, Yield, IInv
<1>6. QED
  BY <1>1, <1>2, <1>3, <1>4, <1>5

(* A finished job of the store's revision left nothing to build.           *)
LEMMA SettleStep ==
  ASSUME IInv, TypeOK', NEW p \in Procs, SettleJob(p),
         proc[p].rev = revision => layer # NULL \/ ~Wanted(Sources)
  PROVE  IInv'
<1> DEFINE j == proc[p].rev
<1>1. j \in Revisions /\ j <= revision
  BY DEF IInv, TypeOK, Process, NoneAhead
<1>2. status' = status \/ status' = [status EXCEPT ![j] = "done"]
  BY <1>1, LedgerMoves DEF SettleJob, IInv
<1>3. Quiet /\ UNCHANGED layer /\ Yield(p)
  BY DEF SettleJob, Quiet
<1>4. j = revision => layer # NULL \/ ~Wanted(Sources)
  OBVIOUS
<1> HIDE DEF j
<1>5. \A k \in Revisions : k > revision => status'[k] = "none"
  BY <1>1, <1>2 DEF IInv, NoneAhead, TypeOK, Revisions
<1>6. NoneAhead' /\ ReadsHold'
  BY <1>3, <1>5, YieldStep
<1>7. LayerIsCurrent' /\ DoneMeansBuilt'
  <2>1. CASE j = revision
    BY <1>3, <1>4, <2>1, QuietFacts DEF IInv, LayerIsCurrent, DoneMeansBuilt, Quiet
  <2>2. CASE j # revision
    <3>1. status'[revision] = status[revision]
      BY <1>1, <1>2, <2>2 DEF IInv, TypeOK
    <3>2. QED
      BY <1>3, <3>1, LayerStays
  <2>3. QED
    BY <2>1, <2>2
<1>8. QED
  BY <1>6, <1>7 DEF IInv

(* The layer that lands was built from what the store holds.               *)
LEMMA CommitStep ==
  ASSUME IInv, TypeOK', NEW p \in Procs, CommitLayer(p)
  PROVE  IInv'
<1> DEFINE j == proc[p].rev
<1>1. j \in Revisions /\ j <= revision
  BY DEF IInv, TypeOK, Process, NoneAhead
<1>2. Quiet /\ Yield(p) /\ At(p, "asking")
  BY DEF CommitLayer, Quiet
<1>3. CASE Holds(p) /\ Ledger!Finish(j) /\ \E e \in BOOLEAN : ReplaceLayer(p, e)
  <2>1. status' = [status EXCEPT ![j] = "done"]
    BY <1>1, <1>3, LedgerMoves DEF IInv
  <2>2. PICK e \in BOOLEAN : ReplaceLayer(p, e)
    BY <1>3
  <2>3. j = revision => layer' = [of |-> Sources, empty |-> e]
    BY <1>2, <2>2 DEF ReplaceLayer, RevisionRead, IInv, ReadsHold, At
  <2>4. j # revision => layer' = layer
    BY <2>2 DEF ReplaceLayer, RevisionRead
  <2>5. [of |-> Sources, empty |-> e] # NULL
    BY SourcesType
  <2> HIDE DEF j
  <2>6. \A k \in Revisions : k > revision => status'[k] = "none"
    BY <1>1, <2>1 DEF IInv, NoneAhead, TypeOK, Revisions
  <2>7. NoneAhead' /\ ReadsHold'
    BY <1>2, <2>3, <2>4, <2>5, <2>6, YieldStep
  <2>8. LayerIsCurrent' /\ DoneMeansBuilt'
    <3>1. CASE j = revision
      BY <1>2, <2>3, <2>5, <3>1, QuietFacts DEF LayerIsCurrent, DoneMeansBuilt
    <3>2. CASE j # revision
      <4>1. status'[revision] = status[revision]
        BY <1>1, <2>1, <3>2 DEF IInv, TypeOK
      <4>2. QED
        BY <1>2, <2>4, <3>2, <4>1, LayerStays
    <3>3. QED
      BY <3>1, <3>2
  <2>9. QED
    BY <2>7, <2>8 DEF IInv
<1>4. CASE UNCHANGED <<status, layer>>
  BY <1>2, <1>4, YieldStep, LayerStays DEF IInv, NoneAhead
<1>5. QED
  BY <1>3, <1>4 DEF CommitLayer

LEMMA DeadLetterStep ==
  ASSUME IInv, TypeOK', NEW p \in Procs, DeadLetter(p)
  PROVE  IInv'
<1> DEFINE j == proc[p].rev
<1>1. j \in Revisions /\ j <= revision
  BY DEF IInv, TypeOK, Process, NoneAhead
<1>2. status' = [status EXCEPT ![j] = "dead"]
  BY <1>1, LedgerMoves DEF DeadLetter, IInv
<1>3. Quiet /\ UNCHANGED layer /\ Yield(p)
  BY DEF DeadLetter, Quiet
<1> HIDE DEF j
<1>4. \A k \in Revisions : k > revision => status'[k] = "none"
  BY <1>1, <1>2 DEF IInv, NoneAhead, TypeOK, Revisions
<1>5. status'[revision] = "done" => status[revision] = "done"
  BY <1>1, <1>2 DEF IInv, TypeOK
<1>6. QED
  BY <1>3, <1>4, <1>5, YieldStep, LayerStays DEF IInv

LEMMA InvStep == IInv /\ [Next]_vars => IInv'
<1> SUFFICES ASSUME IInv, [Next]_vars PROVE IInv'
  OBVIOUS
<1>1. TypeOK'
  BY TypeStep DEF IInv
<1>2. ASSUME NEW m \in Mems, NEW r \in RawRow, Write(m, r) PROVE IInv'
  BY <1>1, <1>2, WriteStep
<1>3. ASSUME NEW p \in Procs, Maintain(p) PROVE IInv'
  BY <1>1, <1>3, MaintainStep
<1>4. ASSUME NEW p \in Procs, Settle(p) \/ KeepPortrait(p) PROVE IInv'
  BY <1>1, <1>4, SettleStep DEF Settle, KeepPortrait, At, IInv, ReadsHold
<1>5. ASSUME NEW p \in Procs, Rebuild(p) PROVE IInv'
  BY <1>1, <1>4, <1>5, RebuildReads, CommitStep, DeadLetterStep DEF Rebuild
<1>6. CASE UNCHANGED vars
  <2>1. Sources' = Sources /\ (Wanted(Sources))' = Wanted(Sources)
    BY <1>6 DEF vars, Sources, Wanted
  <2>2. QED
    BY <1>1, <1>6, <2>1
       DEF vars, IInv, NoneAhead, ReadsHold, LayerIsCurrent, DoneMeansBuilt
<1>7. QED
  BY <1>2, <1>3, <1>5, <1>6 DEF Next

THEOREM Invariance == Spec => []IInv
<1>1. QED
  BY InvInit, InvStep, PTL DEF Spec

(* D9 and the two revision fences: a layer that is there was built from    *)
(* exactly the raw memories that are there.                                *)
THEOREM Current == Spec => []LayerIsCurrent
<1>1. IInv => LayerIsCurrent
  BY DEF IInv
<1>2. QED
  BY <1>1, Invariance, PTL

(* The revision in the job's id: the one rebuild of the current snapshot   *)
(* is never marked done with the layer it calls for missing.               *)
THEOREM Built == Spec => []DoneMeansBuilt
<1>1. IInv => DoneMeansBuilt
  BY DEF IInv
<1>2. QED
  BY <1>1, Invariance, PTL

(* The v12 triggers: a write outside the source set keeps the layer.       *)
THEOREM Narrowed == Spec => OnlySourceWritesRetire
<1>1. ASSUME TypeOK, NEW m \in Mems, NEW r \in RawRow, Write(m, r), raw' # raw,
             Sources' = Sources
      PROVE  layer' = layer
  <2>1. raw' = [raw EXCEPT ![m] = r] /\ raw[m] # r /\ raw'[m] = r
    BY <1>1 DEF Write, TypeOK
  <2>2. ASSUME raw[m] \in Texts PROVE FALSE
    <3>1. <<m, raw[m]>> \in Sources
      BY <2>2 DEF Sources
    <3>2. <<m, raw[m]>> \notin Sources'
      BY <2>1 DEF Sources
    <3>3. QED
      BY <1>1, <3>1, <3>2
  <2>3. ASSUME r \in Texts PROVE FALSE
    <3>1. <<m, r>> \in Sources'
      BY <2>1, <2>3 DEF Sources
    <3>2. <<m, r>> \notin Sources
      BY <2>1 DEF Sources
    <3>3. QED
      BY <1>1, <3>1, <3>2
  <2>4. QED
    BY <1>1, <2>2, <2>3 DEF Write, Invalidates
<1>2. ASSUME NEW p \in Procs, Maintain(p) \/ Rebuild(p) PROVE raw' = raw
  BY <1>2 DEF Maintain, Rebuild, Measure, ReadRevision, EnqueueRebuild, CleanupJobs,
       ClaimRebuild, Precheck, ReadSources, ReadPortrait, Settle, KeepPortrait,
       SettleJob, CommitLayer, DeadLetter, Abandon
<1>3. TypeOK /\ [Next]_vars
        => [layer # NULL /\ raw' # raw /\ Sources' = Sources => layer' = layer]_vars
  BY <1>1, <1>2 DEF Next, vars
<1>4. QED
  BY <1>3, TypeCorrect, PTL DEF Spec, OnlySourceWritesRetire

-----------------------------------------------------------------------------
(* The layer as a cache.                                                   *)

(* A step that leaves the rows of memory alone leaves or builds the layer. *)
LEMMA LayerMoves ==
  ASSUME IInv, NEW p \in Procs, Maintain(p) \/ Rebuild(p)
  PROVE  /\ Quiet
         /\ \/ UNCHANGED layer
            \/ /\ CommitLayer(p) /\ proc[p].rev = revision
               /\ \E e \in BOOLEAN : layer' = [of |-> proc[p].got, empty |-> e]
<1>1. CASE Maintain(p)
  BY <1>1 DEF Maintain, Measure, ReadRevision, EnqueueRebuild, CleanupJobs, Quiet
<1>2. CASE CommitLayer(p)
  <2>1. Quiet
    BY <1>2 DEF CommitLayer, Quiet
  <2>2. UNCHANGED layer \/ \E e \in BOOLEAN : ReplaceLayer(p, e)
    BY <1>2 DEF CommitLayer
  <2>3. QED
    BY <1>2, <2>1, <2>2 DEF ReplaceLayer, RevisionRead
<1>3. CASE Rebuild(p) /\ ~CommitLayer(p)
  BY <1>3 DEF Rebuild, ClaimRebuild, Precheck, ReadSources, ReadPortrait, Settle,
     KeepPortrait, SettleJob, DeadLetter, Abandon, Quiet
<1>4. QED
  BY <1>1, <1>2, <1>3

(* Whatever interleaving of reads, model calls, commits and takeovers lies *)
(* behind it, each step of the store is a change, a build or nothing to a  *)
(* reader of the cache.                                                    *)
LEMMA CacheStep == IInv /\ [Next]_vars => [Cache!Next]_(Cache!cache)
<1> SUFFICES ASSUME IInv, [Next]_vars PROVE [Cache!Next]_(Cache!cache)
  OBVIOUS
<1>1. ASSUME NEW m \in Mems, NEW r \in RawRow, Write(m, r)
      PROVE  [Cache!Next]_(Cache!cache)
  <2>1. CASE Invalidates(raw[m], r)
    <3>1. revision' = revision + 1 /\ layer' = NULL
      BY <1>1, <2>1 DEF Write
    <3>2. Sources' \in Snapshot
      BY DEF Sources, Snapshot
    <3>3. Wanted(Sources)' \in BOOLEAN
      <4>1. PICK S \in Snapshot : S = Sources'
        BY <3>2
      <4>2. Overflows(S) \in BOOLEAN
        BY <4>1
      <4>3. QED
        BY <4>1, <4>2 DEF Wanted
    <3>4. QED
      BY <3>1, <3>2, <3>3 DEF Cache!Next, Cache!Change
  <2>2. CASE ~Invalidates(raw[m], r)
    <3>1. Sources' = Sources
      BY <1>1, <2>2, SourcesKept DEF IInv, Write
    <3>2. UNCHANGED <<kind, revision, layer>>
      BY <1>1, <2>2 DEF Write
    <3>3. Wanted(Sources)' = Wanted(Sources)
      BY <3>1, <3>2 DEF Wanted
    <3>4. QED
      BY <3>1, <3>2, <3>3 DEF Cache!cache
  <2>3. QED
    BY <2>1, <2>2
<1>2. ASSUME NEW p \in Procs, Maintain(p) \/ Rebuild(p)
      PROVE  [Cache!Next]_(Cache!cache)
  <2>1. Quiet
    BY <1>2, LayerMoves
  <2>2. Sources' = Sources /\ Wanted(Sources)' = Wanted(Sources) /\ revision' = revision
    BY <2>1, QuietFacts DEF Quiet
  <2>3. CASE UNCHANGED layer
    BY <2>2, <2>3 DEF Cache!cache
  <2>4. CASE /\ CommitLayer(p) /\ proc[p].rev = revision
             /\ \E e \in BOOLEAN : layer' = [of |-> proc[p].got, empty |-> e]
    <3>1. proc[p].got = Sources /\ Wanted(Sources)
      BY <2>4 DEF CommitLayer, At, IInv, ReadsHold
    <3>2. layer' \in [of : {Sources}, empty : BOOLEAN]
      BY <2>4, <3>1
    <3>3. QED
      BY <2>2, <3>1, <3>2 DEF Cache!Next, Cache!Build
  <2>5. QED
    BY <1>2, <2>3, <2>4, LayerMoves
<1>3. CASE UNCHANGED vars
  <2>1. Sources' = Sources /\ Wanted(Sources)' = Wanted(Sources)
    BY <1>3 DEF vars, Sources, Wanted
  <2>2. QED
    BY <1>3, <2>1 DEF vars, Cache!cache
<1>4. QED
  BY <1>1, <1>2, <1>3 DEF Next

(* The derived layer implements a cache: the reads, the model call and the *)
(* writes of a rebuild, of several processes and across their crashes, act *)
(* as one build of what the store holds, and every change of a source      *)
(* retires it.                                                             *)
THEOREM CacheImplemented == Spec => CacheSpec
<1>1. Init => Cache!Init
  <2>1. SUFFICES ASSUME Init PROVE Cache!Init
    OBVIOUS
  <2>2. Sources \in Snapshot /\ Wanted(Sources) \in BOOLEAN
    BY SourcesType, WantedType
  <2>3. QED
    BY <2>1, <2>2 DEF Init, Cache!Init
<1>2. QED
  BY <1>1, CacheStep, Invariance, PTL DEF Spec, CacheSpec, Cache!Spec

(* Its job rows move along the ledger only: what JobQueue implements is    *)
(* all that a rebuild uses of the queue.                                   *)
THEOREM LedgerKept == Spec => Ledger!Spec
<1>1. Init => Ledger!Init
  BY DEF Init, Ledger!Init
<1>2. TypeOK /\ [Next]_vars => [Ledger!Next]_(Ledger!ledger)
  <2> SUFFICES ASSUME TypeOK, [Next]_vars PROVE [Ledger!Next]_(Ledger!ledger)
    OBVIOUS
  <2>1. \A p \in Procs : proc[p].rev \in Revisions
    BY DEF TypeOK, Process
  <2>2. \A j \in Revisions : {j} \in SUBSET Revisions
    OBVIOUS
  <2>3. ASSUME NEW p \in Procs, Maintain(p) PROVE [Ledger!Next]_(Ledger!ledger)
    BY <2>1, <2>2, <2>3 DEF Maintain, Measure, ReadRevision, EnqueueRebuild,
       CleanupJobs, Ledger!Next, Ledger!ledger
  <2>4. ASSUME NEW p \in Procs, Rebuild(p) PROVE [Ledger!Next]_(Ledger!ledger)
    BY <2>1, <2>4 DEF Rebuild, ClaimRebuild, Precheck, ReadSources, ReadPortrait,
       Settle, KeepPortrait, SettleJob, CommitLayer, DeadLetter, Abandon,
       Ledger!Next, Ledger!ledger
  <2>5. QED
    BY <2>3, <2>4 DEF Next, Write, vars, Ledger!ledger
<1>3. QED
  BY <1>1, <1>2, TypeCorrect, PTL DEF Spec, Ledger!Spec
=============================================================================
