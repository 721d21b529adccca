--------------------------- MODULE CurationProofs ---------------------------
(***************************************************************************)
(* Theorems about Curation, for any number of processes, turns and         *)
(* memories.                                                               *)
(***************************************************************************)
EXTENDS Curation, FiniteSetTheorems, TLAPS

USE CurationAssumption

(* The two jobs of a turn are different rows, and so are two turns' jobs.  *)
LEMMA JobIdFacts ==
  /\ \A t \in Turns : Extract(t) \in JobIds /\ Reconcile(t) \in JobIds
  /\ \A t, u \in Turns : /\ Extract(t) # Reconcile(u)
                         /\ t # u => Extract(t) # Extract(u) /\ Reconcile(t) # Reconcile(u)
  /\ \A j \in JobIds : \E t \in Turns : j = Extract(t) \/ j = Reconcile(t)
  BY DEF JobIds, Extract, Reconcile

LEMMA IdleType == Idle \in Process
  BY DEF Idle, Process

LEMMA NewMemoryType ==
  ASSUME NEW s \in Sessions, NEW q \in BOOLEAN, NEW st \in {"candidate", "active"}
  PROVE  NewMemory(st, s, q) \in Memory
  BY DEF NewMemory, Memory

LEMMA MovedType ==
  ASSUME NEW r \in Memory, NEW by \in Mems \cup {NULL},
         NEW st \in {"active", "dormant", "superseded", "archived"}
  PROVE  Moved(r, st, by) \in Memory
  BY DEF Moved, Memory

(* Opening a job changes no other row and none that was finished.          *)
LEMMA OpenedType ==
  ASSUME NEW st \in [JobIds -> {"none", "open", "done", "dead"}], NEW j \in JobIds
  PROVE  /\ Opened(st, j) \in [JobIds -> {"none", "open", "done", "dead"}]
         /\ Opened(st, j)[j] = IF st[j] = "done" THEN "done" ELSE "open"
         /\ \A k \in JobIds : k # j => Opened(st, j)[k] = st[k]
  BY DEF Opened

LEMMA FinishedType ==
  ASSUME TypeOK, NEW p \in Procs, proc[p].job \in JobIds
  PROVE  /\ Finished(p) \in [JobIds -> {"none", "open", "done", "dead"}]
         /\ Finished(p)[proc[p].job] = "done"
         /\ \A k \in JobIds : k # proc[p].job => Finished(p)[k] = status[k]
  BY DEF TypeOK, Finished

(* Whoever yields is idle, and nobody else moves. *)
LEMMA YieldStep ==
  ASSUME TypeOK, NEW p \in Procs, Yield(p)
  PROVE  /\ proc' \in [Procs -> Process]
         /\ proc'[p] = Idle
         /\ \A q \in Procs : proc'[q].phase # "idle" => q # p /\ proc'[q] = proc[q]
  BY IdleType DEF TypeOK, Yield, Idle

-----------------------------------------------------------------------------
(* The inductive invariant. *)

(* A turn's batch exists only after its extract job is done, and its       *)
(* reconcile job only with a batch.                                        *)
JobsInOrder ==
  \A t \in Turns : /\ batch[t] # {} => status[Extract(t)] = "done"
                   /\ status[Reconcile(t)] # "none" => batch[t] # {}

(* Batches hold memories that exist, each in one batch.                    *)
BatchesApart ==
  /\ \A t \in Turns : \A m \in batch[t] : ~Is(m, "none")
  /\ \A t, u \in Turns : t # u => batch[t] \cap batch[u] = {}

(* Who works on a job works on one that was queued.                        *)
ClaimOK == \A p \in Procs :
             ~At(p, "idle") => proc[p].job \in JobIds /\ status[proc[p].job] # "none"

Fetched(p, t) == proc[p].job = Reconcile(t) /\ (At(p, "asking") \/ At(p, "settle"))

(* A reconcile run has read all of its batch that is still undecided.      *)
ReadsWhole ==
  \A p \in Procs, t \in Turns : Fetched(p, t) =>
    /\ proc[p].got \subseteq batch[t]
    /\ \A m \in batch[t] : Is(m, "candidate") => m \in proc[p].got
    /\ At(p, "settle") => proc[p].got = {}

(* As long as its claim holds, what it read is undecided or forgotten, and *)
(* was never replaced.                                                     *)
Undecided ==
  \A p \in Procs, t \in Turns : Fetched(p, t) /\ CanCommit(p) =>
    \A m \in proc[p].got : mem[m].by = NULL /\ mem[m].status \in {"candidate", "tombstone"}

IInv == TypeOK /\ JobsInOrder /\ BatchesApart /\ ClaimOK /\ ReadsWhole /\ Undecided
          /\ ReplacementsEnd /\ NoCandidateStranded

-----------------------------------------------------------------------------
(* What the commits write, memory by memory. *)

LEMMA ExtractEffect ==
  ASSUME TypeOK, NEW p \in Procs, NEW t \in Turns, CommitExtract(p, t)
  PROVE  \/ UNCHANGED <<mem, batch>> /\ status' = Finished(p)
         \/ /\ ~Suppressed(SessionOf[t])
            /\ mem' = [m \in Mems |-> mem'[m]]
            /\ batch'[t] # {} /\ batch' = [batch EXCEPT ![t] = batch'[t]]
            /\ \A m \in batch'[t] :
                 /\ m \in Mems /\ Is(m, "none")
                 /\ \E q \in BOOLEAN : mem'[m] = NewMemory("candidate", SessionOf[t], q)
            /\ \A m \in Mems \ batch'[t] : mem'[m] = mem[m]
            /\ status' = Opened(Finished(p), Reconcile(t))
<1>1. CASE UNCHANGED <<mem, batch>> /\ status' = Finished(p)
  BY <1>1
<1>2. ASSUME ~Suppressed(SessionOf[t]),
             NEW new \in SUBSET {m \in Mems : Is(m, "none")},
             Cardinality(new) \in 1 .. MaxCandidates,
             NEW quoted \in SUBSET new,
             mem' = [m \in Mems |->
               IF m \in new THEN NewMemory("candidate", SessionOf[t], m \in quoted)
               ELSE mem[m]],
             batch' = [batch EXCEPT ![t] = new],
             status' = Opened(Finished(p), Reconcile(t))
      PROVE  /\ mem' = [m \in Mems |-> mem'[m]]
             /\ batch'[t] # {} /\ batch' = [batch EXCEPT ![t] = batch'[t]]
             /\ \A m \in batch'[t] :
                  /\ m \in Mems /\ Is(m, "none")
                  /\ \E q \in BOOLEAN : mem'[m] = NewMemory("candidate", SessionOf[t], q)
             /\ \A m \in Mems \ batch'[t] : mem'[m] = mem[m]
  <2>1. new # {}
    <3>1. Cardinality(new) # 0
      BY <1>2
    <3>2. QED
      BY <3>1, FS_EmptySet
  <2>2. batch'[t] = new
    BY <1>2 DEF TypeOK
  <2>3. \A m \in new : (m \in quoted) \in BOOLEAN
    OBVIOUS
  <2>4. QED
    BY <1>2, <2>1, <2>2, <2>3
<1>3. QED
  BY <1>1, <1>2 DEF CommitExtract

(* The candidates of D, where they still are candidates.                   *)
Standing(D, m) == m \in D /\ Is(m, "candidate")

LEMMA ReconcileEffect ==
  ASSUME TypeOK, NEW p \in Procs, NEW t \in Turns, CommitReconcile(p, t)
  PROVE  /\ mem' = [m \in Mems |-> mem'[m]]
         /\ \E D \in SUBSET proc[p].got :
              /\ skipped' = skipped \cup (proc[p].got \ D)
              /\ \A m \in Mems :
                   \/ Is(m, "active")
                        /\ \E c \in D : mem'[m] = Moved(mem[m], Retirement(m), c)
                   \/ Standing(D, m)
                        /\ \E st \in {"active", "superseded"} : mem'[m] = Moved(mem[m], st, NULL)
                   \/ ~Standing(D, m) /\ mem'[m] = mem[m]
<1>1. PICK D \in SUBSET proc[p].got : \E d \in [D -> {"activate", "drop"} \cup Mems] :
        /\ \E by \in [{m \in Mems : Named(d, m)} -> D] :
             /\ \A m \in DOMAIN by : d[by[m]] = m
             /\ mem' = [m \in Mems |->
                  IF m \in DOMAIN by THEN Moved(mem[m], Retirement(m), by[m])
                  ELSE IF Stands(d, m)
                    THEN Moved(mem[m], IF d[m] = "drop" THEN Dropped ELSE "active", NULL)
                  ELSE mem[m]]
        /\ skipped' = skipped \cup (proc[p].got \ D)
  BY DEF CommitReconcile, Decided
<1>2. PICK d \in [D -> {"activate", "drop"} \cup Mems] :
        \E by \in [{m \in Mems : Named(d, m)} -> D] :
          mem' = [m \in Mems |->
            IF m \in DOMAIN by THEN Moved(mem[m], Retirement(m), by[m])
            ELSE IF Stands(d, m)
              THEN Moved(mem[m], IF d[m] = "drop" THEN Dropped ELSE "active", NULL)
            ELSE mem[m]]
  BY <1>1
<1>3. PICK by \in [{m \in Mems : Named(d, m)} -> D] :
        mem' = [m \in Mems |->
          IF m \in DOMAIN by THEN Moved(mem[m], Retirement(m), by[m])
          ELSE IF Stands(d, m)
            THEN Moved(mem[m], IF d[m] = "drop" THEN Dropped ELSE "active", NULL)
          ELSE mem[m]]
  BY <1>2
<1>4. ASSUME NEW m \in Mems
      PROVE  \/ Is(m, "active") /\ \E c \in D : mem'[m] = Moved(mem[m], Retirement(m), c)
             \/ Standing(D, m)
                  /\ \E st \in {"active", "superseded"} : mem'[m] = Moved(mem[m], st, NULL)
             \/ ~Standing(D, m) /\ mem'[m] = mem[m]
  <2>1. /\ m \in DOMAIN by <=> Named(d, m)
        /\ Stands(d, m) <=> Standing(D, m)
    BY <1>3 DEF Stands, Standing
  <2>2. CASE Named(d, m)
    BY <1>3, <2>1, <2>2 DEF Named
  <2>3. CASE ~Named(d, m)
    BY <1>3, <2>1, <2>3 DEF Dropped
  <2>4. QED
    BY <2>2, <2>3
<1>5. skipped' = skipped \cup (proc[p].got \ D) /\ mem' = [m \in Mems |-> mem'[m]]
  BY <1>1, <1>3
<1>6. QED
  BY <1>4, <1>5

-----------------------------------------------------------------------------
(* Types. *)

Typed == TypeOK /\ \A p \in Procs : ~At(p, "idle") => proc[p].job \in JobIds

LEMMA TypeInit == Init => Typed
  BY IdleType DEF Init, Typed, TypeOK, At, Idle, NoMemory, Memory

LEMMA TypeStep == Typed /\ [Next]_vars => Typed'
<1> SUFFICES ASSUME Typed, [Next]_vars PROVE Typed'
  OBVIOUS
<1> USE DEF Typed, TypeOK, At
<1>1. ASSUME NEW t \in Turns, NEW want \in BOOLEAN, CaptureTurn(t, want) PROVE Typed'
  BY <1>1, OpenedType, JobIdFacts DEF CaptureTurn
<1>2. ASSUME NEW t \in Turns, AgeTurn(t) PROVE Typed'
  BY <1>2 DEF AgeTurn
<1>3. ASSUME PruneConversations PROVE Typed'
  BY <1>3 DEF PruneConversations, Prunable
<1>4. ASSUME NEW p \in Procs, NEW j \in JobIds, ClaimJob(p, j) PROVE Typed'
  BY <1>4 DEF ClaimJob, Process
<1>5. ASSUME NEW p \in Procs, NEW t \in Turns, ReadTurn(p, t) \/ FetchCandidates(p, t)
      PROVE  Typed'
  <2>1. proc[p].job \in JobIds /\ batch[t] \subseteq Mems
    BY <1>5, JobIdFacts DEF ReadTurn, FetchCandidates
  <2>2. UNCHANGED <<mem, l0, aged, batch, status, holder, skipped>>
    BY <1>5 DEF ReadTurn, FetchCandidates
  <2>3. \E x \in Process : x.job = proc[p].job /\ proc' = [proc EXCEPT ![p] = x]
    <3>1. CASE ReadTurn(p, t)
      BY <2>1, <3>1 DEF ReadTurn, Process
    <3>2. CASE FetchCandidates(p, t)
      BY <2>1, <3>2 DEF FetchCandidates, Process
    <3>3. QED
      BY <1>5, <3>1, <3>2
  <2>4. QED
    BY <2>1, <2>2, <2>3
<1>6. ASSUME NEW p \in Procs, Settle(p) PROVE Typed'
  BY <1>6, YieldStep, FinishedType DEF Settle
<1>7. ASSUME NEW p \in Procs, Fenced(p) \/ Abandon(p) \/ DeadLetter(p) PROVE Typed'
  <2>1. Yield(p) /\ UNCHANGED <<mem, l0, aged, batch, skipped>>
    BY <1>7 DEF Fenced, Abandon, DeadLetter
  <2>2. /\ status' \in [JobIds -> {"none", "open", "done", "dead"}]
        /\ holder' \in [JobIds -> Procs \cup {NULL}]
    BY <1>7 DEF Fenced, Abandon, DeadLetter
  <2>3. QED
    BY <2>1, <2>2, YieldStep
<1>8. ASSUME NEW p \in Procs, NEW t \in Turns, CommitExtract(p, t) PROVE Typed'
  <2>1. mem' \in [Mems -> Memory] /\ batch' \in [Turns -> SUBSET Mems]
    <3>1. SessionOf[t] \in Sessions
      OBVIOUS
    <3>2. \A q \in BOOLEAN : NewMemory("candidate", SessionOf[t], q) \in Memory
      BY <3>1, NewMemoryType
    <3>3. QED
      BY <1>8, <3>2, ExtractEffect
  <2>2. status' \in [JobIds -> {"none", "open", "done", "dead"}]
    <3>1. /\ proc[p].job \in JobIds /\ Reconcile(t) \in JobIds
          /\ status' = Finished(p) \/ status' = Opened(Finished(p), Reconcile(t))
      BY <1>8, JobIdFacts DEF CommitExtract
    <3>2. Finished(p) \in [JobIds -> {"none", "open", "done", "dead"}]
      BY <3>1, FinishedType
    <3>3. QED
      BY <3>1, <3>2, OpenedType
  <2>3. QED
    BY <1>8, <2>1, <2>2, YieldStep DEF CommitExtract
<1>9. ASSUME NEW p \in Procs, NEW t \in Turns, CommitReconcile(p, t) PROVE Typed'
  <2>1. proc[p].got \subseteq Mems
    BY DEF Process
  <2>2. PICK D \in SUBSET proc[p].got :
          /\ skipped' = skipped \cup (proc[p].got \ D)
          /\ \A m \in Mems :
               \/ Is(m, "active")
                    /\ \E c \in D : mem'[m] = Moved(mem[m], Retirement(m), c)
               \/ Standing(D, m)
                    /\ \E st \in {"active", "superseded"} : mem'[m] = Moved(mem[m], st, NULL)
               \/ ~Standing(D, m) /\ mem'[m] = mem[m]
    BY <1>9, ReconcileEffect
  <2>3. mem' \in [Mems -> Memory]
    <3>1. \A m \in Mems : Retirement(m) \in {"archived", "superseded"}
      BY DEF Retirement
    <3>2. ASSUME NEW m \in Mems PROVE mem'[m] \in Memory
      <4>1. /\ \A c \in D : Moved(mem[m], Retirement(m), c) \in Memory
            /\ \A st \in {"active", "superseded"} : Moved(mem[m], st, NULL) \in Memory
        BY <2>1, <3>1, MovedType
      <4>2. QED
        BY <2>2, <4>1
    <3>3. mem' = [m \in Mems |-> mem'[m]]
      BY <1>9, ReconcileEffect
    <3>4. QED
      BY <3>2, <3>3
  <2>4. skipped' \subseteq Mems
    BY <2>1, <2>2
  <2>5. QED
    BY <1>9, <2>3, <2>4, YieldStep, FinishedType DEF CommitReconcile
<1>10. ASSUME NEW m \in Mems, NEW s \in Sessions, NEW old \in Mems \cup {NULL},
              Propose(m, s, old)
       PROVE  Typed'
  BY <1>10, NewMemoryType, MovedType DEF Propose
<1>11. ASSUME NEW m \in Mems, Forget(m) \/ Decay(m) PROVE Typed'
  <2>1. /\ [status |-> "tombstone", by |-> mem[m].by, ref |-> mem[m].ref,
            quote |-> FALSE] \in Memory
        /\ mem[m].by \in Mems \cup {NULL}
    BY DEF Memory
  <2>2. CASE Forget(m)
    BY <2>1, <2>2 DEF Forget
  <2>3. CASE Decay(m)
    <3>1. mem' \in [Mems -> Memory]
      <4>1. \A st \in {"active", "dormant"} : Moved(mem[m], st, mem[m].by) \in Memory
        BY <2>1, MovedType
      <4>2. QED
        BY <2>3, <4>1 DEF Decay
    <3>2. QED
      BY <2>3, <3>1 DEF Decay
  <2>4. QED
    BY <1>11, <2>2, <2>3
<1>12. CASE UNCHANGED vars
  BY <1>12 DEF vars
<1>13. QED
  BY <1>1, <1>2, <1>3, <1>4, <1>5, <1>6, <1>7, <1>8, <1>9, <1>10, <1>11, <1>12
     DEF Next, People, Conversations, JobRun

(* The store and the processes keep their types.                           *)
THEOREM TypeCorrect == Spec => []TypeOK
<1>1. Typed => TypeOK
  BY DEF Typed
<1>2. QED
  BY <1>1, TypeInit, TypeStep, PTL DEF Spec

-----------------------------------------------------------------------------
(* The parts of the invariant. *)

LEMMA InvInit == Init => IInv
<1> SUFFICES ASSUME Init PROVE IInv
  OBVIOUS
<1>1. JobsInOrder /\ BatchesApart
  BY JobIdFacts DEF Init, JobsInOrder, BatchesApart
<1>2. ClaimOK /\ ReadsWhole /\ Undecided
  <2>1. \A p \in Procs : proc[p].phase = "idle"
    BY DEF Init, Idle
  <2>2. QED
    BY <2>1 DEF ClaimOK, ReadsWhole, Undecided, Fetched, At
<1>3. NoCandidateStranded
  BY DEF Init, NoCandidateStranded, Is, NoMemory
<1>4. ReplacementsEnd
  <2>1. \A m \in Mems : mem[m].by = NULL
    BY DEF Init, NoMemory
  <2>2. QED
    BY <2>1 DEF ReplacementsEnd
<1>5. QED
  BY <1>1, <1>2, <1>3, <1>4, TypeInit DEF IInv, Typed

(* A commit finds its job open and finishes it. *)
LEMMA CommitJob ==
  ASSUME IInv, NEW p \in Procs, ~At(p, "idle"), CanCommit(p)
  PROVE  /\ proc[p].job \in JobIds
         /\ status[proc[p].job] = "open" /\ holder[proc[p].job] = p
         /\ Finished(p)[proc[p].job] = "done"
         /\ \A k \in JobIds : k # proc[p].job => Finished(p)[k] = status[k]
         /\ Finished(p) \in [JobIds -> {"none", "open", "done", "dead"}]
  BY FinishedType DEF IInv, ClaimOK, CanCommit, Holds

(* An extract commit that inserts finds neither a batch nor a reconcile    *)
(* job of its turn, and leaves both.                                       *)
LEMMA ExtractJobs ==
  ASSUME IInv, NEW p \in Procs, NEW t \in Turns, CommitExtract(p, t),
         status' = Opened(Finished(p), Reconcile(t))
  PROVE  /\ batch[t] = {} /\ status[Reconcile(t)] = "none"
         /\ status'[Extract(t)] = "done" /\ status'[Reconcile(t)] = "open"
         /\ \A j \in JobIds \ {Extract(t), Reconcile(t)} : status'[j] = status[j]
<1>1. CanCommit(p) /\ proc[p].job = Extract(t) /\ ~At(p, "idle")
  BY DEF CommitExtract, At
<1>2. batch[t] = {} /\ status[Reconcile(t)] = "none"
  BY <1>1, CommitJob DEF IInv, JobsInOrder
<1>3. /\ Extract(t) \in JobIds /\ Reconcile(t) \in JobIds /\ Extract(t) # Reconcile(t)
  BY JobIdFacts
<1>4. /\ Finished(p)[Extract(t)] = "done" /\ Finished(p)[Reconcile(t)] = "none"
      /\ \A k \in JobIds : k # Extract(t) => Finished(p)[k] = status[k]
      /\ Finished(p) \in [JobIds -> {"none", "open", "done", "dead"}]
  BY <1>1, <1>2, <1>3, CommitJob
<1>5. /\ status'[Reconcile(t)] = "open"
      /\ \A k \in JobIds : k # Reconcile(t) => status'[k] = Finished(p)[k]
  BY <1>3, <1>4 DEF Opened
<1>6. QED
  BY <1>2, <1>3, <1>4, <1>5

(* What a step does to the jobs and the batches. *)
JobsMove ==
  \/ UNCHANGED <<status, batch>>
  \/ UNCHANGED batch /\ \E t \in Turns : status' = Opened(status, Extract(t))
  \/ UNCHANGED batch
       /\ \E p \in Procs : /\ ~At(p, "idle") /\ CanCommit(p) /\ status' = Finished(p)
                           /\ \/ At(p, "settle")
                              \/ \E t \in Turns : proc[p].job = Extract(t)
                              \/ \E t \in Turns : CommitReconcile(p, t)
  \/ UNCHANGED batch /\ \E p \in Procs : ~At(p, "idle") /\ CanCommit(p)
                                         /\ status' = [status EXCEPT ![proc[p].job] = "dead"]
  \/ \E p \in Procs, t \in Turns :
       /\ CommitExtract(p, t) /\ status' = Opened(Finished(p), Reconcile(t))
       /\ batch' = [batch EXCEPT ![t] = batch'[t]]
       /\ batch'[t] # {} /\ \A m \in batch'[t] : m \in Mems /\ Is(m, "none")

LEMMA JobsMoves == IInv /\ [Next]_vars => JobsMove
<1> SUFFICES ASSUME IInv, [Next]_vars PROVE JobsMove
  OBVIOUS
<1>1. ASSUME NEW t \in Turns, NEW want \in BOOLEAN, CaptureTurn(t, want) PROVE JobsMove
  BY <1>1 DEF CaptureTurn, JobsMove
<1>2. ASSUME NEW p \in Procs, Settle(p) PROVE JobsMove
  BY <1>2 DEF Settle, JobsMove, At
<1>3. ASSUME NEW p \in Procs, DeadLetter(p) PROVE JobsMove
  BY <1>3 DEF DeadLetter, JobsMove, At
<1>4. ASSUME NEW p \in Procs, NEW t \in Turns, CommitReconcile(p, t) PROVE JobsMove
  BY <1>4 DEF CommitReconcile, JobsMove, At
<1>5. ASSUME NEW p \in Procs, NEW t \in Turns, CommitExtract(p, t) PROVE JobsMove
  <2>1. CanCommit(p) /\ ~At(p, "idle") /\ proc[p].job = Extract(t)
    BY <1>5 DEF CommitExtract, At
  <2>2. CASE UNCHANGED <<mem, batch>> /\ status' = Finished(p)
    BY <2>1, <2>2 DEF JobsMove
  <2>3. CASE ~(UNCHANGED <<mem, batch>> /\ status' = Finished(p))
    <3>1. /\ status' = Opened(Finished(p), Reconcile(t))
          /\ batch' = [batch EXCEPT ![t] = batch'[t]]
          /\ batch'[t] # {} /\ \A m \in batch'[t] : m \in Mems /\ Is(m, "none")
      BY <1>5, <2>3, ExtractEffect DEF IInv
    <3>2. QED
      BY <1>5, <3>1 DEF JobsMove
  <2>4. QED
    BY <2>2, <2>3
<1>6. ASSUME NEW p \in Procs, NEW j \in JobIds, ClaimJob(p, j) PROVE JobsMove
  BY <1>6 DEF ClaimJob, JobsMove
<1>7. ASSUME NEW p \in Procs, NEW t \in Turns, ReadTurn(p, t) \/ FetchCandidates(p, t)
      PROVE  JobsMove
  BY <1>7 DEF ReadTurn, FetchCandidates, JobsMove
<1>8. ASSUME NEW p \in Procs, Fenced(p) \/ Abandon(p) PROVE JobsMove
  BY <1>8 DEF Fenced, Abandon, JobsMove
<1>9. ASSUME NEW t \in Turns, AgeTurn(t) PROVE JobsMove
  BY <1>9 DEF AgeTurn, JobsMove
<1>10. ASSUME NEW m \in Mems, NEW s \in Sessions, NEW old \in Mems \cup {NULL},
              Propose(m, s, old)
       PROVE  JobsMove
  BY <1>10 DEF Propose, JobsMove
<1>11. ASSUME NEW m \in Mems, Forget(m) \/ Decay(m) PROVE JobsMove
  BY <1>11 DEF Forget, Decay, JobsMove
<1>12. ASSUME PruneConversations PROVE JobsMove
  BY <1>12 DEF PruneConversations, JobsMove
<1>13. CASE UNCHANGED vars
  BY <1>13 DEF vars, JobsMove
<1>14. QED
  BY <1>1, <1>2, <1>3, <1>4, <1>5, <1>6, <1>7, <1>8, <1>9, <1>10, <1>11, <1>12, <1>13
     DEF Next, People, Conversations, JobRun

StatusKept ==
  \A j \in JobIds : /\ status[j] = "done" => status'[j] = "done"
                    /\ status[j] # "none" => status'[j] # "none"

(* A finished job stays finished and a queued one stays queued; a batch    *)
(* changes only from empty, while its reconcile job is unborn.             *)
LEMMA JobsKept ==
  ASSUME IInv, JobsMove
  PROVE  /\ StatusKept
         /\ \A t \in Turns :
              batch'[t] # batch[t] => batch[t] = {} /\ status[Reconcile(t)] = "none"
<1>1. ASSUME NEW t \in Turns, status' = Opened(status, Extract(t))
      PROVE  StatusKept
  <2>1. status \in [JobIds -> {"none", "open", "done", "dead"}] /\ Extract(t) \in JobIds
    BY JobIdFacts DEF IInv, TypeOK
  <2>2. QED
    BY <1>1, <2>1, OpenedType DEF StatusKept
<1>2. ASSUME NEW p \in Procs, ~At(p, "idle"), CanCommit(p),
             status' = Finished(p) \/ status' = [status EXCEPT ![proc[p].job] = "dead"]
      PROVE  StatusKept
  BY <1>2, CommitJob DEF StatusKept, IInv, TypeOK
<1>3. ASSUME NEW p \in Procs, NEW t \in Turns, CommitExtract(p, t),
             status' = Opened(Finished(p), Reconcile(t)), batch' = [batch EXCEPT ![t] = batch'[t]]
      PROVE  /\ StatusKept
             /\ \A u \in Turns :
                  batch'[u] # batch[u] => batch[u] = {} /\ status[Reconcile(u)] = "none"
  BY <1>3, ExtractJobs, JobIdFacts DEF StatusKept, IInv, TypeOK
<1>4. QED
  BY <1>1, <1>2, <1>3 DEF StatusKept, JobsMove

(* What a step does to a memory. *)
MemMove(m) ==
  \/ mem'[m] = mem[m]
  \/ Is(m, "none") /\ mem'[m].status = "active" /\ mem'[m].by = NULL
  \/ /\ Is(m, "none") /\ mem'[m].status = "candidate" /\ mem'[m].by = NULL
     /\ \E p \in Procs, t \in Turns :
          /\ CommitExtract(p, t) /\ m \in batch'[t]
          /\ mem'[m].ref = SessionOf[t]
          /\ status' = Opened(Finished(p), Reconcile(t))
          /\ ~Suppressed(SessionOf[t])
  \/ /\ Is(m, "active") /\ mem'[m].status \in {"superseded", "archived"}
     /\ \/ \E p \in Procs, t \in Turns : CommitReconcile(p, t) /\ mem'[m].by \in proc[p].got
        \/ \E n \in Mems : mem'[m].by = n /\ mem'[n].by = NULL
  \/ /\ Is(m, "candidate") /\ mem'[m].status \in {"active", "superseded"}
     /\ mem'[m].by = NULL
     /\ \E p \in Procs, t \in Turns : CommitReconcile(p, t) /\ m \in proc[p].got
  \/ ~Is(m, "tombstone") /\ ~Is(m, "none") /\ mem'[m].status = "tombstone" /\ mem'[m].by = mem[m].by
  \/ /\ mem[m].status \in {"active", "dormant"} /\ mem'[m].status \in {"active", "dormant"}
     /\ mem'[m].by = mem[m].by

LEMMA MemMoves == IInv /\ [Next]_vars => \A m \in Mems : MemMove(m)
<1> SUFFICES ASSUME IInv, [Next]_vars, NEW m \in Mems PROVE MemMove(m)
  OBVIOUS
<1> USE DEF IInv, TypeOK
<1>1. ASSUME NEW p \in Procs, NEW t \in Turns, CommitExtract(p, t) PROVE MemMove(m)
  <2>1. CASE UNCHANGED mem
    BY <2>1 DEF MemMove
  <2>2. CASE mem # mem' /\ m \in batch'[t]
    <3>1. /\ Is(m, "none") /\ ~Suppressed(SessionOf[t])
          /\ status' = Opened(Finished(p), Reconcile(t))
          /\ \E q \in BOOLEAN : mem'[m] = NewMemory("candidate", SessionOf[t], q)
      BY <1>1, <2>2, ExtractEffect
    <3>2. /\ mem'[m].status = "candidate" /\ mem'[m].by = NULL
          /\ mem'[m].ref = SessionOf[t]
      BY <3>1 DEF NewMemory
    <3>3. QED
      BY <1>1, <2>2, <3>1, <3>2 DEF MemMove
  <2>3. CASE mem # mem' /\ m \notin batch'[t]
    BY <1>1, <2>3, ExtractEffect DEF MemMove
  <2>4. QED
    BY <2>1, <2>2, <2>3
<1>2. ASSUME NEW p \in Procs, NEW t \in Turns, CommitReconcile(p, t) PROVE MemMove(m)
  <2>1. PICK D \in SUBSET proc[p].got :
          \/ Is(m, "active") /\ \E c \in D : mem'[m] = Moved(mem[m], Retirement(m), c)
          \/ Standing(D, m)
               /\ \E st \in {"active", "superseded"} : mem'[m] = Moved(mem[m], st, NULL)
          \/ ~Standing(D, m) /\ mem'[m] = mem[m]
    BY <1>2, ReconcileEffect
  <2>2. CASE Is(m, "active") /\ \E c \in D : mem'[m] = Moved(mem[m], Retirement(m), c)
    BY <1>2, <2>2 DEF MemMove, Moved, Retirement
  <2>3. CASE /\ Standing(D, m)
             /\ \E st \in {"active", "superseded"} : mem'[m] = Moved(mem[m], st, NULL)
    <3>1. mem'[m].status \in {"active", "superseded"} /\ mem'[m].by = NULL
      BY <2>3 DEF Moved
    <3>2. QED
      BY <1>2, <2>3, <3>1 DEF MemMove, Standing
  <2>4. CASE mem'[m] = mem[m]
    BY <2>4 DEF MemMove
  <2>5. QED
    BY <2>1, <2>2, <2>3, <2>4
<1>3. ASSUME NEW n \in Mems, NEW s \in Sessions, NEW old \in Mems \cup {NULL},
             Propose(n, s, old)
      PROVE  MemMove(m)
  <2>1. CASE m = n
    BY <1>3, <2>1 DEF Propose, MemMove, NewMemory
  <2>2. CASE m # n /\ m = old
    <3>1. /\ mem'[m] = Moved(mem[m], "superseded", n) /\ Is(m, "active")
          /\ mem'[n] = NewMemory("active", s, FALSE)
      BY <1>3, <2>2 DEF Propose
    <3>2. mem'[m].status = "superseded" /\ mem'[m].by = n /\ mem'[n].by = NULL
      BY <3>1 DEF Moved, NewMemory
    <3>3. QED
      BY <3>1, <3>2 DEF MemMove
  <2>3. CASE m # n /\ m # old
    BY <1>3, <2>3 DEF Propose, MemMove
  <2>4. QED
    BY <2>1, <2>2, <2>3
<1>4. ASSUME NEW n \in Mems, Forget(n) PROVE MemMove(m)
  BY <1>4 DEF Forget, MemMove
<1>5. ASSUME NEW n \in Mems, Decay(n) PROVE MemMove(m)
  BY <1>5 DEF Decay, MemMove, Moved, Revivable, Is
<1>6. ASSUME UNCHANGED mem PROVE MemMove(m)
  BY <1>6 DEF MemMove
<1>7. QED
  BY <1>1, <1>2, <1>3, <1>4, <1>5, <1>6
     DEF Next, People, Conversations, JobRun, CaptureTurn, AgeTurn, PruneConversations,
         ClaimJob, ReadTurn, FetchCandidates, Settle, Fenced, DeadLetter, Abandon, vars

LEMMA JobsStep == IInv /\ [Next]_vars => JobsInOrder' /\ BatchesApart'
<1> SUFFICES ASSUME IInv, [Next]_vars PROVE JobsInOrder' /\ BatchesApart'
  OBVIOUS
<1> USE DEF IInv, TypeOK
<1>1. JobsMove /\ \A m \in Mems : MemMove(m)
  BY JobsMoves, MemMoves
<1>2. JobsInOrder'
  <2>1. ASSUME NEW p \in Procs, NEW t \in Turns, CommitExtract(p, t),
               status' = Opened(Finished(p), Reconcile(t)),
               batch' = [batch EXCEPT ![t] = batch'[t]], batch'[t] # {}
        PROVE  JobsInOrder'
    BY <2>1, ExtractJobs, JobIdFacts DEF JobsInOrder
  <2>2. ASSUME NEW t \in Turns, status' = Opened(status, Extract(t)), UNCHANGED batch
        PROVE  JobsInOrder'
    BY <2>2, OpenedType, JobIdFacts DEF JobsInOrder
  <2>3. ASSUME NEW p \in Procs, ~At(p, "idle"), CanCommit(p), UNCHANGED batch,
               status' = Finished(p) \/ status' = [status EXCEPT ![proc[p].job] = "dead"]
        PROVE  JobsInOrder'
    BY <2>3, CommitJob, JobIdFacts DEF JobsInOrder
  <2>4. CASE UNCHANGED <<status, batch>>
    BY <2>4 DEF JobsInOrder
  <2>5. QED
    BY <1>1, <2>1, <2>2, <2>3, <2>4 DEF JobsMove
<1>3. BatchesApart'
  <2>1. ASSUME NEW m \in Mems, ~Is(m, "none") PROVE ~Is(m, "none")'
    BY <1>1, <2>1 DEF MemMove, Is
  <2>2. CASE UNCHANGED batch
    BY <2>1, <2>2 DEF BatchesApart
  <2>3. ASSUME NEW p \in Procs, NEW t \in Turns, CommitExtract(p, t), ~UNCHANGED batch
        PROVE  BatchesApart'
    <3>1. /\ \A u \in Turns \ {t} : batch'[u] = batch[u]
          /\ \A m \in batch'[t] : m \in Mems /\ Is(m, "none") /\ ~Is(m, "none")'
      <4>1. batch' = [batch EXCEPT ![t] = batch'[t]]
        BY <2>3, ExtractEffect
      <4>2. \A m \in batch'[t] :
              /\ m \in Mems /\ Is(m, "none")
              /\ \E q \in BOOLEAN : mem'[m] = NewMemory("candidate", SessionOf[t], q)
        BY <2>3, ExtractEffect
      <4>3. \A u \in Turns \ {t} : batch'[u] = batch[u]
        BY <4>1
      <4>4. \A m \in batch'[t] : mem'[m].status = "candidate"
        <5> TAKE m \in batch'[t]
        <5>1. PICK q \in BOOLEAN : mem'[m] = NewMemory("candidate", SessionOf[t], q)
          BY <4>2
        <5>2. QED
          BY <5>1 DEF NewMemory
      <4>5. QED
        BY <4>2, <4>3, <4>4 DEF Is
    <3>2. \A u \in Turns \ {t} : \A m \in batch[u] : m \in Mems /\ ~Is(m, "none")
      BY DEF BatchesApart
    <3>3. QED
      BY <2>1, <3>1, <3>2 DEF BatchesApart
  <2>4. QED
    BY <1>1, <2>2, <2>3 DEF JobsMove
<1>4. QED
  BY <1>2, <1>3

(* What a step does to a process. *)
ProcMove(q) ==
  \/ proc'[q] = proc[q]
  \/ At(q, "idle")'
  \/ \E j \in JobIds : ClaimJob(q, j)
  \/ \E t \in Turns : ReadTurn(q, t) \/ FetchCandidates(q, t)

LEMMA ProcMoves == IInv /\ [Next]_vars => \A q \in Procs : ProcMove(q)
<1> SUFFICES ASSUME IInv, [Next]_vars, NEW q \in Procs PROVE ProcMove(q)
  OBVIOUS
<1> USE DEF IInv, TypeOK
<1>1. ASSUME UNCHANGED proc PROVE ProcMove(q)
  BY <1>1 DEF ProcMove
<1>2. ASSUME NEW p \in Procs, Yield(p) PROVE ProcMove(q)
  BY <1>2, YieldStep DEF ProcMove, At
<1>3. ASSUME NEW p \in Procs, NEW j \in JobIds, ClaimJob(p, j) PROVE ProcMove(q)
  <2>1. CASE p = q
    BY <1>3, <2>1 DEF ProcMove
  <2>2. CASE p # q
    BY <1>3, <2>2 DEF ClaimJob, ProcMove
  <2>3. QED
    BY <2>1, <2>2
<1>4. ASSUME NEW p \in Procs, NEW t \in Turns, ReadTurn(p, t) \/ FetchCandidates(p, t)
      PROVE  ProcMove(q)
  <2>1. CASE p = q
    BY <1>4, <2>1 DEF ProcMove
  <2>2. CASE p # q
    BY <1>4, <2>2 DEF ReadTurn, FetchCandidates, ProcMove
  <2>3. QED
    BY <2>1, <2>2
<1>5. ASSUME NEW p \in Procs, NEW t \in Turns, CommitExtract(p, t) \/ CommitReconcile(p, t)
      PROVE  Yield(p)
  BY <1>5 DEF CommitExtract, CommitReconcile
<1>6. ASSUME NEW p \in Procs, Settle(p) \/ Fenced(p) \/ DeadLetter(p) \/ Abandon(p)
      PROVE  Yield(p)
  BY <1>6 DEF Settle, Fenced, DeadLetter, Abandon
<1>7. ASSUME NEW p \in Procs, JobRun(p) PROVE ProcMove(q)
  BY <1>2, <1>3, <1>4, <1>5, <1>6, <1>7 DEF JobRun
<1>8. ASSUME People \/ Conversations PROVE ProcMove(q)
  BY <1>1, <1>8 DEF People, Conversations, Propose, Forget, Decay, CaptureTurn, AgeTurn,
                    PruneConversations
<1>9. QED
  BY <1>1, <1>7, <1>8 DEF Next, vars

(* Work that goes on keeps its job, and its claim is never given back. *)
LEMMA StillAtWork ==
  ASSUME IInv, [Next]_vars, NEW q \in Procs, NEW t \in Turns,
         ~At(q, "idle"), proc'[q] = proc[q], proc[q].job = Reconcile(t)
  PROVE  batch'[t] = batch[t] /\ (CanCommit(q)' => CanCommit(q))
<1> USE DEF IInv, TypeOK
<1>1. JobsMove /\ status[Reconcile(t)] # "none" /\ Reconcile(t) \in JobIds
  BY JobsMoves, JobIdFacts DEF ClaimOK
<1>2. batch'[t] = batch[t]
  BY <1>1, JobsKept
<1>3. status'[Reconcile(t)] = "open" => status[Reconcile(t)] = "open"
  <2>1. ASSUME NEW u \in Turns, status' = Opened(status, Extract(u))
        PROVE  status'[Reconcile(t)] = status[Reconcile(t)]
    BY <2>1, <1>1, OpenedType, JobIdFacts
  <2>2. ASSUME NEW p \in Procs, ~At(p, "idle"), CanCommit(p),
               status' = Finished(p) \/ status' = [status EXCEPT ![proc[p].job] = "dead"]
        PROVE  status'[Reconcile(t)] \in {status[Reconcile(t)], "done", "dead"}
    BY <2>2, <1>1, CommitJob
  <2>3. ASSUME NEW p \in Procs, NEW u \in Turns, CommitExtract(p, u),
               status' = Opened(Finished(p), Reconcile(u))
        PROVE  status'[Reconcile(t)] = status[Reconcile(t)]
    BY <2>3, <1>1, ExtractJobs, JobIdFacts
  <2>4. QED
    BY <1>1, <2>1, <2>2, <2>3 DEF JobsMove
<1>4. holder'[Reconcile(t)] = q => holder[Reconcile(t)] = q
  <2>1. ASSUME NEW p \in Procs, NEW j \in JobIds, ClaimJob(p, j)
        PROVE  holder'[Reconcile(t)] = q => holder[Reconcile(t)] = q
    <3>1. p # q
      BY <2>1 DEF ClaimJob, At
    <3>2. QED
      BY <1>1, <2>1, <3>1 DEF ClaimJob
  <2>2. ASSUME NEW p \in Procs, DeadLetter(p)
        PROVE  holder'[Reconcile(t)] = q => holder[Reconcile(t)] = q
    BY <1>1, <2>2 DEF DeadLetter
  <2>3. ASSUME UNCHANGED holder
        PROVE  holder'[Reconcile(t)] = q => holder[Reconcile(t)] = q
    BY <2>3
  <2>4. QED
    BY <2>1, <2>2, <2>3
       DEF Next, People, Conversations, JobRun, CaptureTurn, AgeTurn, PruneConversations,
           ReadTurn, FetchCandidates, Settle, Fenced, Abandon, CommitExtract,
           CommitReconcile, Propose, Forget, Decay, vars
<1>5. QED
  BY <1>2, <1>3, <1>4 DEF CanCommit, Holds

LEMMA ClaimStep == IInv /\ [Next]_vars => ClaimOK'
<1> SUFFICES ASSUME IInv, [Next]_vars, NEW q \in Procs, ~At(q, "idle")'
             PROVE  proc'[q].job \in JobIds /\ status'[proc'[q].job] # "none"
  BY DEF ClaimOK
<1>1. ProcMove(q) /\ StatusKept
  <2>1. JobsMove
    BY JobsMoves
  <2>2. StatusKept
    BY <2>1, JobsKept
  <2>3. QED
    BY <2>2, ProcMoves
<1>2. ASSUME NEW j \in JobIds, ClaimJob(q, j)
      PROVE  proc'[q].job = j /\ status[j] # "none"
  BY <1>2 DEF ClaimJob, IInv, TypeOK
<1>3. ASSUME ~At(q, "idle"), proc'[q].job = proc[q].job
      PROVE  proc'[q].job \in JobIds /\ status'[proc'[q].job] # "none"
  BY <1>1, <1>3 DEF IInv, ClaimOK, StatusKept
<1>4. ASSUME NEW t \in Turns, ReadTurn(q, t) \/ FetchCandidates(q, t)
      PROVE  ~At(q, "idle") /\ proc'[q].job = proc[q].job
  BY <1>4 DEF ReadTurn, FetchCandidates, IInv, TypeOK, At
<1>5. CASE proc'[q] = proc[q]
  BY <1>3, <1>5 DEF At
<1>6. QED
  BY <1>1, <1>2, <1>3, <1>4, <1>5 DEF ProcMove, StatusKept

(* A run that is past its read either stays as it was or has just read. *)
LEMMA FetchedSteps ==
  ASSUME IInv, [Next]_vars, NEW q \in Procs, NEW t \in Turns, Fetched(q, t)'
  PROVE  \/ proc'[q] = proc[q] /\ Fetched(q, t)
         \/ FetchCandidates(q, t)
<1>1. ProcMove(q)
  BY ProcMoves
<1>2. ASSUME NEW j \in JobIds, ClaimJob(q, j) PROVE FALSE
  BY <1>2 DEF ClaimJob, Fetched, At, IInv, TypeOK
<1>3. ASSUME NEW u \in Turns, ReadTurn(q, u) PROVE FALSE
  BY <1>3, JobIdFacts DEF ReadTurn, Fetched, At, IInv, TypeOK
<1>4. ASSUME NEW u \in Turns, FetchCandidates(q, u) PROVE u = t
  BY <1>4, JobIdFacts DEF FetchCandidates, Fetched, At, IInv, TypeOK
<1>5. QED
  BY <1>1, <1>2, <1>3, <1>4 DEF ProcMove, Fetched, At

LEMMA ReadsStep == IInv /\ [Next]_vars => ReadsWhole'
<1> SUFFICES ASSUME IInv, [Next]_vars, NEW q \in Procs, NEW t \in Turns, Fetched(q, t)'
             PROVE  /\ proc'[q].got \subseteq batch'[t]
                    /\ \A m \in batch'[t] : Is(m, "candidate")' => m \in proc'[q].got
                    /\ At(q, "settle")' => proc'[q].got = {}
  BY DEF ReadsWhole
<1>1. CASE proc'[q] = proc[q] /\ Fetched(q, t)
  <2>1. batch'[t] = batch[t]
    BY <1>1, StillAtWork DEF Fetched, At
  <2>2. ASSUME NEW m \in batch[t], Is(m, "candidate")' PROVE Is(m, "candidate")
    <3>1. m \in Mems /\ ~Is(m, "none")
      BY DEF IInv, TypeOK, BatchesApart
    <3>2. MemMove(m)
      BY <3>1, MemMoves
    <3>3. QED
      BY <2>2, <3>1, <3>2 DEF MemMove, Is
  <2>3. /\ proc[q].got \subseteq batch[t]
        /\ \A m \in batch[t] : Is(m, "candidate") => m \in proc[q].got
        /\ At(q, "settle") => proc[q].got = {}
    BY <1>1 DEF IInv, ReadsWhole
  <2>4. QED
    BY <1>1, <2>1, <2>2, <2>3 DEF At
<1>2. CASE FetchCandidates(q, t)
  BY <1>2 DEF FetchCandidates, At, IInv, TypeOK, Is
<1>3. QED
  BY <1>1, <1>2, FetchedSteps

LEMMA UndecidedStep == IInv /\ [Next]_vars => Undecided'
<1> SUFFICES ASSUME IInv, [Next]_vars, NEW q \in Procs, NEW t \in Turns,
                    Fetched(q, t)', CanCommit(q)', NEW m \in proc'[q].got
             PROVE  mem'[m].by = NULL /\ mem'[m].status \in {"candidate", "tombstone"}
  BY DEF Undecided
<1>1. CASE proc'[q] = proc[q] /\ Fetched(q, t)
  <2>1. CanCommit(q) /\ ~At(q, "idle") /\ proc[q].job = Reconcile(t)
    BY <1>1, StillAtWork DEF Fetched, At
  <2>2. m \in batch[t] /\ mem[m].by = NULL /\ mem[m].status \in {"candidate", "tombstone"}
    BY <1>1, <2>1 DEF IInv, Undecided, ReadsWhole
  <2>3. MemMove(m)
    BY <2>2, MemMoves DEF IInv, TypeOK
  <2>4. ASSUME NEW p \in Procs, NEW u \in Turns, CommitReconcile(p, u), m \in proc[p].got
        PROVE  FALSE
    <3>1. CanCommit(p) /\ proc[p].job = Reconcile(u) /\ At(p, "asking") /\ Yield(p)
      BY <2>4 DEF CommitReconcile
    <3>2. m \in batch[u]
      BY <2>4, <3>1 DEF IInv, ReadsWhole, Fetched
    <3>3. u = t
      BY <2>2, <3>2 DEF IInv, BatchesApart
    <3>4. p = q
      BY <2>1, <3>1, <3>3 DEF CanCommit, Holds
    <3>5. QED
      BY <1>1, <2>1, <3>1, <3>4, YieldStep DEF IInv, Idle, At
  <2>5. QED
    BY <2>2, <2>3, <2>4 DEF MemMove, Is
<1>2. CASE FetchCandidates(q, t)
  <2>1. mem' = mem /\ m \in Mems /\ Is(m, "candidate")
    BY <1>2 DEF FetchCandidates, IInv, TypeOK
  <2>2. QED
    BY <2>1 DEF IInv, ReplacementsEnd, Is
<1>3. QED
  BY <1>1, <1>2, FetchedSteps

(* A replacement written by this step points at a row this step leaves     *)
(* without one.                                                            *)
LEMMA TargetsFresh ==
  ASSUME IInv, [Next]_vars, NEW m \in Mems, mem'[m].by # mem[m].by
  PROVE  mem'[m].by # NULL => mem'[m].by \in Mems /\ mem'[mem'[m].by].by = NULL
<1>1. MemMove(m)
  BY MemMoves
<1>2. ASSUME NEW p \in Procs, NEW t \in Turns, CommitReconcile(p, t), NEW c \in proc[p].got
      PROVE  c \in Mems /\ mem'[c].by = NULL
  <2>1. CanCommit(p) /\ Fetched(p, t)
    BY <1>2 DEF CommitReconcile, Fetched
  <2>2. c \in Mems /\ mem[c].by = NULL /\ mem[c].status \in {"candidate", "tombstone"}
    BY <2>1 DEF IInv, TypeOK, Process, Undecided
  <2>3. MemMove(c)
    BY <2>2, MemMoves
  <2>4. QED
    BY <2>2, <2>3 DEF MemMove, Is
<1>3. QED
  BY <1>1, <1>2 DEF MemMove

LEMMA ReplacementsStep == IInv /\ [Next]_vars => ReplacementsEnd'
<1> SUFFICES ASSUME IInv, [Next]_vars PROVE ReplacementsEnd'
  OBVIOUS
<1>1. ASSUME NEW C \in (SUBSET Mems) \ {{}}, \A m \in C : mem'[m].by \in C
      PROVE  FALSE
  <2>1. \A m \in C : mem'[m].by \in Mems /\ mem'[m].by # NULL
    BY <1>1
  <2>2. \A m \in C : mem'[m].by = mem[m].by
    BY <1>1, <2>1, TargetsFresh
  <2>3. QED
    BY <1>1, <2>2 DEF IInv, ReplacementsEnd
<1>2. ASSUME NEW m \in Mems, mem'[m].by # NULL
      PROVE  mem'[m].status \in {"superseded", "archived", "tombstone"}
  BY <1>2, MemMoves DEF MemMove, IInv, ReplacementsEnd, Is
<1>3. QED
  BY <1>1, <1>2 DEF ReplacementsEnd

(* What was passed over stays known as passed over. *)
LEMMA SkippedGrows == ASSUME [Next]_vars PROVE skipped \subseteq skipped'
<1>1. ASSUME NEW p \in Procs, NEW t \in Turns, CommitReconcile(p, t)
      PROVE  skipped \subseteq skipped'
  BY <1>1 DEF CommitReconcile
<1>2. CASE UNCHANGED skipped
  BY <1>2
<1>3. QED
  BY <1>1, <1>2
     DEF Next, People, Conversations, JobRun, CaptureTurn, AgeTurn, PruneConversations,
         ClaimJob, ReadTurn, FetchCandidates, Settle, Fenced, DeadLetter, Abandon,
         CommitExtract, Propose, Forget, Decay, vars

LEMMA StrandedStep == IInv /\ [Next]_vars => NoCandidateStranded'
<1> SUFFICES ASSUME IInv, [Next]_vars, NEW m \in Mems, Is(m, "candidate")',
                    m \notin skipped'
             PROVE  \E t \in Turns : /\ m \in batch'[t]
                                     /\ status'[Reconcile(t)] \in {"open", "dead"}
  BY DEF NoCandidateStranded, Awaited
<1>0. m \notin skipped
  BY SkippedGrows
<1>1. JobsMove /\ MemMove(m)
  BY JobsMoves, MemMoves
<1>2. CASE ~Is(m, "candidate")
  <2>1. PICK p \in Procs, t \in Turns : /\ CommitExtract(p, t) /\ m \in batch'[t]
                                        /\ status' = Opened(Finished(p), Reconcile(t))
    BY <1>1, <1>2 DEF MemMove, Is
  <2>2. QED
    BY <2>1, ExtractJobs
<1>3. CASE Is(m, "candidate")
  <2>1. PICK t \in Turns : m \in batch[t] /\ status[Reconcile(t)] \in {"open", "dead"}
    BY <1>0, <1>3 DEF IInv, NoCandidateStranded, Awaited
  <2>2. m \in batch'[t] /\ Reconcile(t) \in JobIds
    BY <1>1, <2>1, JobsKept, JobIdFacts
  <2>3. status'[Reconcile(t)] \in {"open", "dead"}
    <3>1. ASSUME NEW u \in Turns, status' = Opened(status, Extract(u))
          PROVE  status'[Reconcile(t)] = status[Reconcile(t)]
      BY <3>1, <2>2, OpenedType, JobIdFacts DEF IInv, TypeOK
    <3>2. ASSUME NEW p \in Procs, ~At(p, "idle"), CanCommit(p),
                 status' = [status EXCEPT ![proc[p].job] = "dead"]
          PROVE  status'[Reconcile(t)] \in {"open", "dead"}
      BY <2>1, <2>2, <3>2 DEF IInv, TypeOK
    <3>3. ASSUME NEW p \in Procs, NEW u \in Turns, CommitExtract(p, u),
                 status' = Opened(Finished(p), Reconcile(u))
          PROVE  status'[Reconcile(t)] = status[Reconcile(t)]
      BY <2>1, <2>2, <3>3, ExtractJobs, JobIdFacts
    <3>4. ASSUME NEW p \in Procs, ~At(p, "idle"), CanCommit(p), status' = Finished(p),
                 \/ At(p, "settle")
                 \/ \E u \in Turns : proc[p].job = Extract(u)
                 \/ \E u \in Turns : CommitReconcile(p, u)
          PROVE  status'[Reconcile(t)] = status[Reconcile(t)]
      <4>1. ASSUME proc[p].job = Reconcile(t), At(p, "settle") PROVE FALSE
        BY <1>3, <2>1, <4>1 DEF IInv, ReadsWhole, Fetched
      <4>2. ASSUME proc[p].job = Reconcile(t), NEW u \in Turns, CommitReconcile(p, u)
            PROVE  FALSE
        <5>1. m \in proc[p].got
          <6>1. Fetched(p, t)
            BY <4>2 DEF Fetched, CommitReconcile
          <6>2. QED
            BY <1>3, <2>1, <6>1 DEF IInv, ReadsWhole
        <5>2. mem'[m].status # "candidate"
          <6>1. PICK D \in SUBSET proc[p].got :
                  /\ skipped' = skipped \cup (proc[p].got \ D)
                  /\ \/ Is(m, "active")
                     \/ \E st \in {"active", "superseded"} : mem'[m] = Moved(mem[m], st, NULL)
                     \/ ~Standing(D, m)
            BY <4>2, ReconcileEffect DEF IInv
          <6>2. Standing(D, m) /\ ~Is(m, "active")
            BY <1>3, <5>1, <6>1 DEF Standing, Is
          <6>3. QED
            BY <6>1, <6>2 DEF Moved
        <5>3. QED
          BY <5>2 DEF Is
      <4>3. proc[p].job # Reconcile(t)
        BY <3>4, <4>1, <4>2, JobIdFacts
      <4>4. QED
        BY <2>2, <3>4, <4>3, CommitJob
    <3>5. QED
      BY <1>1, <2>1, <3>1, <3>2, <3>3, <3>4 DEF JobsMove
  <2>4. QED
    BY <2>2, <2>3
<1>4. QED
  BY <1>2, <1>3

LEMMA InvStep == IInv /\ [Next]_vars => IInv'
<1>1. IInv => Typed
  BY DEF IInv, Typed, ClaimOK
<1>2. Typed => TypeOK
  BY DEF Typed
<1>3. QED
  BY <1>1, TypeStep, JobsStep, ClaimStep, ReadsStep, UndecidedStep, ReplacementsStep,
     StrandedStep DEF IInv, Typed

THEOREM Invariance == Spec => []IInv
  BY InvInit, InvStep, PTL DEF Spec

-----------------------------------------------------------------------------
(* What follows. *)

(* No replacement loops, and nothing replaced is in use again: a step that *)
(* writes `superseded_by` points it at a row that has none, so a loop      *)
(* would have to be there before.                                          *)
THEOREM NoLoops == Spec => []ReplacementsEnd
<1>1. IInv => ReplacementsEnd
  BY DEF IInv
<1>2. QED
  BY <1>1, Invariance, PTL

(* Every candidate waits for a reconcile job that has not been finished,   *)
(* unless the reply of a finished one passed it over: the commit settles   *)
(* all that is left of its batch, as far as the reply goes.                *)
THEOREM NoneStranded == Spec => []NoCandidateStranded
<1>1. IInv => NoCandidateStranded
  BY DEF IInv
<1>2. QED
  BY <1>1, Invariance, PTL

(* Forgetting is final, whatever was read before it. *)
THEOREM ForgetFinal == Spec => ForgottenIsFinal
<1>1. IInv /\ [Next]_vars => [\A m \in Mems : Is(m, "tombstone") => mem'[m] = mem[m]]_vars
  BY MemMoves DEF MemMove, Is
<1>2. QED
  BY <1>1, Invariance, PTL DEF Spec, ForgottenIsFinal

(* A turn's batch is written at most once. *)
THEOREM OneBatch == Spec => LearnedOnce
<1>1. IInv /\ [Next]_vars => [\A t \in Turns : batch'[t] # batch[t] => batch[t] = {}]_vars
  BY JobsMoves, JobsKept
<1>2. QED
  BY <1>1, Invariance, PTL DEF Spec, LearnedOnce

(* No candidate comes from a session that a forgotten memory cites at the  *)
(* moment of the insert.                                                   *)
THEOREM SourceSuppressed == Spec => NothingLearnedFromForgotten
<1>1. ASSUME IInv, [Next]_vars, NEW m \in Mems, Is(m, "none"), mem'[m].status = "candidate"
      PROVE  ~Forgotten(mem'[m].ref)
  <2>1. MemMove(m)
    BY <1>1, MemMoves
  <2>2. PICK t \in Turns : mem'[m].ref = SessionOf[t] /\ ~Suppressed(SessionOf[t])
    BY <1>1, <2>1 DEF MemMove, Is
  <2>3. QED
    BY <2>2 DEF Suppressed, Forgotten
<1>2. IInv /\ [Next]_vars
        => [\A m \in Mems : Is(m, "none") /\ mem'[m].status = "candidate"
                              => ~Forgotten(mem'[m].ref)]_vars
  BY <1>1
<1>3. QED
  BY <1>2, Invariance, PTL DEF Spec, NothingLearnedFromForgotten

-----------------------------------------------------------------------------
(* The life of memories. *)

(* Only a finished reconcile job counts as a judgement. *)
Judged(st) == {t \in Turns : st[Reconcile(t)] = "done"}

LEMMA JudgedKept ==
  ASSUME \A t \in Turns : status'[Reconcile(t)] = "done" <=> status[Reconcile(t)] = "done"
  PROVE  Judged(status') = Judged(status)
  BY DEF Judged

(* Steps of the jobs and the conversations that write no memory. *)
LEMMA QuietJobs ==
  ASSUME IInv, UNCHANGED <<mem, batch>>,
         \/ UNCHANGED status
         \/ \E t \in Turns : status' = Opened(status, Extract(t))
         \/ \E p \in Procs : /\ ~At(p, "idle") /\ CanCommit(p)
                             /\ \/ status' = [status EXCEPT ![proc[p].job] = "dead"]
                                \/ /\ status' = Finished(p)
                                   /\ \E t \in Turns : proc[p].job = Extract(t)
  PROVE  UNCHANGED Life!life
<1>1. ASSUME NEW t \in Turns, status' = Opened(status, Extract(t))
      PROVE  \A u \in Turns : status'[Reconcile(u)] = status[Reconcile(u)]
  <2>1. /\ status \in [JobIds -> {"none", "open", "done", "dead"}]
        /\ Extract(t) \in JobIds
        /\ \A u \in Turns : Reconcile(u) \in JobIds /\ Reconcile(u) # Extract(t)
    BY JobIdFacts DEF IInv, TypeOK
  <2>2. \A k \in JobIds : k # Extract(t) => status'[k] = status[k]
    BY <1>1, <2>1 DEF Opened
  <2>3. QED
    BY <2>1, <2>2
<1>2. ASSUME NEW p \in Procs, ~At(p, "idle"), CanCommit(p), NEW t \in Turns,
             status' = Finished(p), proc[p].job = Extract(t)
      PROVE  \A u \in Turns : status'[Reconcile(u)] = status[Reconcile(u)]
  BY <1>2, CommitJob, JobIdFacts
<1>3. ASSUME NEW p \in Procs, ~At(p, "idle"), CanCommit(p),
             status' = [status EXCEPT ![proc[p].job] = "dead"]
      PROVE  \A j \in JobIds : status'[j] = "done" <=> status[j] = "done"
  BY <1>3, CommitJob DEF IInv, TypeOK
<1>4. \A t \in Turns : status'[Reconcile(t)] = "done" <=> status[Reconcile(t)] = "done"
  BY <1>1, <1>2, <1>3, JobIdFacts
<1>5. QED
  BY <1>4, JudgedKept DEF Life!life, Judged

(* An extract commit that inserts learns from its turn. *)
LEMMA ExtractLearns ==
  ASSUME IInv, NEW p \in Procs, NEW t \in Turns, CommitExtract(p, t)
  PROVE  Life!Learn(t) \/ UNCHANGED Life!life
<1>1. CanCommit(p) /\ proc[p].job = Extract(t) /\ ~At(p, "idle")
  BY DEF CommitExtract, At
<1>2. CASE UNCHANGED <<mem, batch>> /\ status' = Finished(p)
  BY <1>1, <1>2, QuietJobs
<1>3. CASE /\ ~Suppressed(SessionOf[t])
           /\ \E new \in SUBSET {m \in Mems : Is(m, "none")} :
                /\ Cardinality(new) \in 1 .. MaxCandidates
                /\ \E quoted \in SUBSET new :
                     mem' = [m \in Mems |->
                       IF m \in new THEN NewMemory("candidate", SessionOf[t], m \in quoted)
                       ELSE mem[m]]
                /\ batch' = [batch EXCEPT ![t] = new]
           /\ status' = Opened(Finished(p), Reconcile(t))
  <2>1. /\ batch[t] = {} /\ status[Reconcile(t)] = "none" /\ status'[Reconcile(t)] = "open"
        /\ \A j \in JobIds \ {Extract(t), Reconcile(t)} : status'[j] = status[j]
    BY <1>3, ExtractJobs
  <2>2. \A u \in Turns : status'[Reconcile(u)] = "done" <=> status[Reconcile(u)] = "done"
    BY <2>1, JobIdFacts
  <2>3. Judged(status') = Judged(status)
    BY <2>2, JudgedKept
  <2>4. \A m \in Life!Being("tombstone") : mem[m].ref # SessionOf[t]
    BY <1>3 DEF Suppressed, Is, Life!Being
  <2>5. \A q : NewMemory("candidate", SessionOf[t], q) = Life!Row("candidate", NULL, SessionOf[t], q)
    BY DEF NewMemory, Life!Row
  <2>6. Life!Being("none") = {m \in Mems : Is(m, "none")}
    BY DEF Is, Life!Being
  <2>7. PICK new \in SUBSET Life!Being("none") :
          /\ Cardinality(new) \in 1 .. MaxCandidates
          /\ \E quoted \in SUBSET new :
               mem' = [m \in Mems |->
                 IF m \in new THEN NewMemory("candidate", SessionOf[t], m \in quoted)
                 ELSE mem[m]]
          /\ batch' = [batch EXCEPT ![t] = new]
    BY <1>3, <2>6
  <2>8. PICK quoted \in SUBSET new :
          mem' = [m \in Mems |->
            IF m \in new THEN NewMemory("candidate", SessionOf[t], m \in quoted) ELSE mem[m]]
    BY <2>7
  <2>9. mem' = [m \in Mems |->
          IF m \in new THEN Life!Row("candidate", NULL, SessionOf[t], m \in quoted) ELSE mem[m]]
    BY <2>8, <2>5
  <2>10. batch' = [batch EXCEPT ![t] = new] /\ Cardinality(new) \in 1 .. MaxCandidates
    BY <2>7
  <2>11. Life!Cardinality(new) = Cardinality(new)
    BY DEF Life!Cardinality, Cardinality
  <2>12. \E more \in SUBSET Life!Being("none") :
           /\ Life!Cardinality(more) \in 1 .. MaxCandidates
           /\ \E q \in SUBSET more :
                mem' = [m \in Mems |->
                  IF m \in more THEN Life!Row("candidate", NULL, SessionOf[t], m \in q)
                  ELSE mem[m]]
           /\ batch' = [batch EXCEPT ![t] = more]
    BY <2>9, <2>10, <2>11
  <2>13. UNCHANGED {u \in Turns : status[Reconcile(u)] = "done"}
    BY <2>3 DEF Judged
  <2>14. Life!Learn(t)
    BY <2>1, <2>4, <2>12, <2>13 DEF Life!Learn
  <2>15. QED
    BY <2>14
<1>4. QED
  BY <1>2, <1>3 DEF CommitExtract

(* What a commit of turn t's reconcile job does to the judged turns. *)
LEMMA JudgedGrows ==
  ASSUME IInv, NEW p \in Procs, NEW t \in Turns, ~At(p, "idle"), CanCommit(p),
         proc[p].job = Reconcile(t), status' = Finished(p)
  PROVE  /\ batch[t] # {} /\ t \notin Judged(status)
         /\ Judged(status') = Judged(status) \cup {t}
<1>1. /\ status[Reconcile(t)] = "open" /\ status'[Reconcile(t)] = "done"
      /\ \A u \in Turns : u # t => status'[Reconcile(u)] = status[Reconcile(u)]
  BY CommitJob, JobIdFacts
<1>2. batch[t] # {}
  BY <1>1 DEF IInv, JobsInOrder
<1>3. QED
  BY <1>1, <1>2 DEF Judged

(* A reconcile commit judges what its turn has left, although the model    *)
(* was asked about what had been there before.                             *)
LEMMA ReconcileJudges ==
  ASSUME IInv, NEW p \in Procs, NEW t \in Turns, CommitReconcile(p, t)
  PROVE  Life!Judge(t)
<1>1. /\ CanCommit(p) /\ proc[p].job = Reconcile(t) /\ At(p, "asking") /\ ~At(p, "idle")
      /\ status' = Finished(p) /\ UNCHANGED batch
  BY DEF CommitReconcile, At
<1>2. /\ batch[t] # {} /\ t \notin Judged(status)
      /\ Judged(status') = Judged(status) \cup {t}
  BY <1>1, JudgedGrows
<1>3. /\ proc[p].got \subseteq batch[t]
      /\ \A m \in proc[p].got : mem[m].status \in {"candidate", "tombstone"}
      /\ batch[t] \subseteq Mems
  BY <1>1 DEF IInv, ReadsWhole, Undecided, Fetched, TypeOK
<1>4. PICK D \in SUBSET proc[p].got : \E d \in [D -> {"activate", "drop"} \cup Mems] :
        \E by \in [{m \in Mems : Named(d, m)} -> D] :
          /\ \A m \in DOMAIN by : d[by[m]] = m
          /\ mem' = [m \in Mems |->
               IF m \in DOMAIN by THEN Moved(mem[m], Retirement(m), by[m])
               ELSE IF Stands(d, m)
                 THEN Moved(mem[m], IF d[m] = "drop" THEN Dropped ELSE "active", NULL)
               ELSE mem[m]]
  BY DEF CommitReconcile, Decided
<1>5. PICK d \in [D -> {"activate", "drop"} \cup Mems] :
        \E by \in [{m \in Mems : Named(d, m)} -> D] :
          /\ \A m \in DOMAIN by : d[by[m]] = m
          /\ mem' = [m \in Mems |->
               IF m \in DOMAIN by THEN Moved(mem[m], Retirement(m), by[m])
               ELSE IF Stands(d, m)
                 THEN Moved(mem[m], IF d[m] = "drop" THEN Dropped ELSE "active", NULL)
               ELSE mem[m]]
  BY <1>4
<1>6. PICK by \in [{m \in Mems : Named(d, m)} -> D] :
        /\ \A m \in DOMAIN by : d[by[m]] = m
        /\ mem' = [m \in Mems |->
             IF m \in DOMAIN by THEN Moved(mem[m], Retirement(m), by[m])
             ELSE IF Stands(d, m)
               THEN Moved(mem[m], IF d[m] = "drop" THEN Dropped ELSE "active", NULL)
             ELSE mem[m]]
  BY <1>5
<1> DEFINE retired == {m \in Mems : Named(d, m)}
           decided == Life!Candidates(t) \cap D
           kept == {m \in decided : d[m] # "drop"}
<1>7. \A m \in Mems : Stands(d, m) <=> m \in decided
  BY <1>3 DEF Stands, Is, Life!Candidates, Life!Being
<1>8. /\ retired \in SUBSET Life!Being("active")
      /\ decided \in SUBSET Life!Candidates(t) /\ kept \in SUBSET decided
  BY DEF Named, Is, Life!Being
<1>9. ASSUME NEW m \in retired
      PROVE  by[m] \in kept \cup (batch[t] \cap Life!Being("tombstone"))
  <2>1. by[m] \in D /\ d[by[m]] = m /\ m \in Mems
    BY <1>6
  <2>2. d[by[m]] # "drop"
    <3>1. "drop" \notin Mems
      BY CurationAssumption
    <3>2. QED
      BY <2>1, <3>1
  <2>3. by[m] \in batch[t] /\ by[m] \in Mems /\ mem[by[m]].status \in {"candidate", "tombstone"}
    BY <1>3, <2>1
  <2>4. QED
    BY <2>1, <2>2, <2>3 DEF Life!Candidates, Life!Being
<1>10. by \in [retired -> kept \cup (batch[t] \cap Life!Being("tombstone"))]
  BY <1>6, <1>9
<1>11. \A m, n \in retired : by[m] = by[n] => m = n
  BY <1>6
<1> DEFINE Judged1(m) == IF m \in retired
                           THEN Life!Becomes(mem[m], IF m \in Procedures THEN "archived"
                                                     ELSE "superseded", by[m])
                         ELSE IF m \in decided
                           THEN Life!Becomes(mem[m], IF m \in kept THEN "active"
                                                     ELSE "superseded", NULL)
                         ELSE mem[m]
<1>12. mem' = [m \in Mems |-> Judged1(m)]
  <2>1. \A row, st, b : Moved(row, st, b) = Life!Becomes(row, st, b)
    BY DEF Moved, Life!Becomes, Life!Row
  <2>2. DOMAIN by = retired
    BY <1>6
  <2>3. ASSUME NEW m \in Mems
        PROVE  (IF m \in DOMAIN by THEN Moved(mem[m], Retirement(m), by[m])
                ELSE IF Stands(d, m)
                  THEN Moved(mem[m], IF d[m] = "drop" THEN Dropped ELSE "active", NULL)
                ELSE mem[m]) = Judged1(m)
    BY <1>7, <2>1, <2>2 DEF Retirement, Dropped
  <2> HIDE DEF Judged1
  <2>4. QED
    BY <1>6, <2>3
<1> HIDE DEF retired, kept, decided
<1>13. \E c \in SUBSET Life!Candidates(t) :
       \E k \in SUBSET c, r \in SUBSET Life!Being("active") :
         \E for \in [r -> k \cup (batch[t] \cap Life!Being("tombstone"))] :
           /\ \A m, n \in r : for[m] = for[n] => m = n
           /\ mem' = [m \in Mems |->
                IF m \in r
                  THEN Life!Becomes(mem[m], IF m \in Procedures THEN "archived"
                                            ELSE "superseded", for[m])
                ELSE IF m \in c
                  THEN Life!Becomes(mem[m], IF m \in k THEN "active" ELSE "superseded", NULL)
                ELSE mem[m]]
  <2> USE <1>8, <1>10
  <2> WITNESS decided \in SUBSET Life!Candidates(t)
  <2> WITNESS kept \in SUBSET decided, retired \in SUBSET Life!Being("active")
  <2> WITNESS by \in [retired -> kept \cup (batch[t] \cap Life!Being("tombstone"))]
  <2> QED
    BY <1>11, <1>12
<1>14. /\ t \notin {u \in Turns : status[Reconcile(u)] = "done"}
       /\ {u \in Turns : status[Reconcile(u)] = "done"}'
            = {u \in Turns : status[Reconcile(u)] = "done"} \cup {t}
  BY <1>2 DEF Judged
<1>15. QED
  BY <1>1, <1>2, <1>13, <1>14 DEF Life!Judge

(* A settled reconcile job judges a turn that has nothing left.            *)
LEMMA SettleJudges ==
  ASSUME IInv, NEW p \in Procs, Settle(p)
  PROVE  UNCHANGED Life!life \/ \E t \in Turns : Life!Judge(t)
<1>1. At(p, "settle") /\ ~At(p, "idle") /\ UNCHANGED <<mem, batch>>
      /\ status' = IF CanCommit(p) THEN Finished(p) ELSE status
  BY DEF Settle, At
<1>2. CASE ~CanCommit(p) \/ \E t \in Turns : proc[p].job = Extract(t)
  BY <1>1, <1>2, QuietJobs
<1>3. ASSUME NEW t \in Turns, CanCommit(p), proc[p].job = Reconcile(t) PROVE Life!Judge(t)
  <2>1. /\ batch[t] # {} /\ t \notin Judged(status)
        /\ Judged(status') = Judged(status) \cup {t}
    BY <1>1, <1>3, JudgedGrows
  <2>2. Life!Candidates(t) = {}
    BY <1>1, <1>3 DEF IInv, ReadsWhole, Fetched, Life!Candidates, Life!Being, Is
  <2>3. mem' = [m \in Mems |-> mem[m]]
    BY <1>1 DEF IInv, TypeOK
  <2> DEFINE none == {}
             for == [m \in none |-> m]
  <2>4. /\ none \in SUBSET Life!Candidates(t) /\ none \in SUBSET none
        /\ none \in SUBSET Life!Being("active")
        /\ for \in [none -> none \cup (batch[t] \cap Life!Being("tombstone"))]
        /\ \A m, n \in none : for[m] = for[n] => m = n
    OBVIOUS
  <2> HIDE DEF for, none
  <2>5. mem' = [m \in Mems |->
                 IF m \in none
                   THEN Life!Becomes(mem[m], IF m \in Procedures THEN "archived"
                                             ELSE "superseded", for[m])
                 ELSE IF m \in none
                   THEN Life!Becomes(mem[m], IF m \in none THEN "active" ELSE "superseded", NULL)
                 ELSE mem[m]]
    BY <2>2, <2>3 DEF none
  <2>6. QED
    BY <1>1, <2>1, <2>4, <2>5 DEF Life!Judge, Judged
<1>4. QED
  BY <1>1, <1>2, <1>3, JobIdFacts DEF IInv, ClaimOK

(* What people and decay do is theirs to do in any case.                   *)
LEMMA PeopleLive ==
  ASSUME IInv, NEW m \in Mems, UNCHANGED <<batch, status>>,
         \/ \E s \in Sessions, old \in Mems \cup {NULL} : Propose(m, s, old)
         \/ Forget(m) \/ Decay(m)
  PROVE  Life!Next
<1>1. Judged(status') = Judged(status)
  OBVIOUS
<1>2. \A row, st, b : Moved(row, st, b) = Life!Becomes(row, st, b)
  BY DEF Moved, Life!Becomes, Life!Row
<1>3. ASSUME NEW s \in Sessions, NEW old \in Mems \cup {NULL}, Propose(m, s, old)
      PROVE  Life!Propose(m, s, old)
  <2>1. NewMemory("active", s, FALSE) = Life!Row("active", NULL, s, FALSE)
    BY DEF NewMemory, Life!Row
  <2>2. QED
    BY <1>1, <1>2, <1>3, <2>1 DEF Propose, Life!Propose, Life!Being, Is, Judged
<1>4. ASSUME Forget(m) PROVE Life!Forget(m)
  BY <1>1, <1>4 DEF Forget, Life!Forget, Life!Being, Life!Row, Is, Judged
<1>5. ASSUME Decay(m) PROVE Life!Turn(m, "active", "dormant") \/ Life!Turn(m, "dormant", "active")
  BY <1>1, <1>2, <1>5 DEF Decay, Revivable, Life!Turn, Life!Being, Is, Judged
<1>6. QED
  BY <1>3, <1>4, <1>5 DEF Life!Next

LEMMA LifeStep == IInv /\ [Next]_vars => [Life!Next]_(Life!life)
<1> SUFFICES ASSUME IInv, [Next]_vars PROVE [Life!Next]_(Life!life)
  OBVIOUS
<1>1. ASSUME NEW p \in Procs, NEW t \in Turns, CommitExtract(p, t)
      PROVE  [Life!Next]_(Life!life)
  BY <1>1, ExtractLearns DEF Life!Next
<1>2. ASSUME NEW p \in Procs, NEW t \in Turns, CommitReconcile(p, t)
      PROVE  [Life!Next]_(Life!life)
  BY <1>2, ReconcileJudges DEF Life!Next
<1>3. ASSUME NEW p \in Procs, Settle(p) PROVE [Life!Next]_(Life!life)
  BY <1>3, SettleJudges DEF Life!Next
<1>4. ASSUME NEW p \in Procs, DeadLetter(p) PROVE [Life!Next]_(Life!life)
  <2>1. ~At(p, "idle") /\ CanCommit(p) /\ UNCHANGED <<mem, batch>>
        /\ status' = [status EXCEPT ![proc[p].job] = "dead"]
    BY <1>4 DEF DeadLetter, At
  <2>2. QED
    BY <2>1, QuietJobs
<1>5. ASSUME NEW t \in Turns, NEW want \in BOOLEAN, CaptureTurn(t, want)
      PROVE  [Life!Next]_(Life!life)
  BY <1>5, QuietJobs DEF CaptureTurn
<1>6. ASSUME UNCHANGED <<mem, batch, status>> PROVE [Life!Next]_(Life!life)
  BY <1>6, QuietJobs
<1>7. ASSUME People PROVE [Life!Next]_(Life!life)
  <2>1. PICK m \in Mems : \/ \E s \in Sessions, old \in Mems \cup {NULL} : Propose(m, s, old)
                          \/ Forget(m) \/ Decay(m)
    BY <1>7 DEF People
  <2>2. UNCHANGED <<batch, status>>
    BY <2>1 DEF Propose, Forget, Decay
  <2>3. QED
    BY <2>1, <2>2, PeopleLive
<1>8. QED
  BY <1>1, <1>2, <1>3, <1>4, <1>5, <1>6, <1>7
     DEF Next, Conversations, JobRun, AgeTurn, PruneConversations, ClaimJob, ReadTurn,
         FetchCandidates, Fenced, Abandon, vars

(* The two jobs and their claims, retries and takeovers implement a life   *)
(* of memories in which a turn is learned from in one instant and judged   *)
(* in another, each at most once, as far as the model's reply goes.        *)
THEOREM LifeImplemented == Spec => LifeSpec
<1>1. Init => Life!Init
  BY JobIdFacts DEF Init, NoMemory, Life!Init, Life!Row
<1>2. QED
  BY <1>1, LifeStep, Invariance, PTL DEF Spec, LifeSpec, Life!Spec

-----------------------------------------------------------------------------
(* The job rows of both kinds, read as ledgers. *)

(* The ledger's count of business commits, as the status tells it: a       *)
(* commit's writes and its row's "done" are one transaction here.          *)
Applied(s) == IF s = "done" THEN 1 ELSE 0

Rows(kind) == INSTANCE JobLedger WITH
  Jobs <- Turns,
  status <- [t \in Turns |-> status[<<kind, t>>]],
  applied <- [t \in Turns |-> Applied(status[<<kind, t>>])]

(* What a step does to one row, the other rows of its kind staying.        *)
RowMove(old, new) == \/ new = old
                     \/ old \in {"none", "dead"} /\ new = "open"
                     \/ old = "open" /\ new \in {"done", "dead"}

(* A step moves one row of a kind, or none. *)
OneRowMoves(kind) ==
  \E t \in Turns : /\ RowMove(status[<<kind, t>>], status'[<<kind, t>>])
                   /\ \A u \in Turns \ {t} : status'[<<kind, u>>] = status[<<kind, u>>]

RowsStay(kind) == \A u \in Turns : status'[<<kind, u>>] = status[<<kind, u>>]

LEMMA RowsMove ==
  ASSUME IInv, [Next]_vars
  PROVE  /\ RowsStay("extract") \/ OneRowMoves("extract")
         /\ RowsStay("reconcile") \/ OneRowMoves("reconcile")
<1> USE DEF RowsStay, OneRowMoves, RowMove, Extract, Reconcile
<1>1. status \in [JobIds -> {"none", "open", "done", "dead"}]
  BY DEF IInv, TypeOK
<1>2. CASE UNCHANGED status
  BY <1>2
<1>3. ASSUME NEW t \in Turns, status' = Opened(status, Extract(t))
      PROVE  RowsStay("reconcile") /\ OneRowMoves("extract")
  <2>1. /\ \/ status'[Extract(t)] = status[Extract(t)]
           \/ status[Extract(t)] \in {"none", "dead"} /\ status'[Extract(t)] = "open"
        /\ \A j \in JobIds : j # Extract(t) => status'[j] = status[j]
    BY <1>1, <1>3, JobIdFacts DEF Opened
  <2> QED
    BY <2>1, JobIdFacts
<1>4. ASSUME NEW p \in Procs, ~At(p, "idle"), CanCommit(p),
             status' = Finished(p) \/ status' = [status EXCEPT ![proc[p].job] = "dead"]
      PROVE  \/ RowsStay("reconcile") /\ OneRowMoves("extract")
             \/ RowsStay("extract") /\ OneRowMoves("reconcile")
  <2> DEFINE j == proc[p].job
  <2>1. /\ j \in JobIds /\ status[j] = "open" /\ status'[j] \in {"done", "dead"}
        /\ \A k \in JobIds : k # j => status'[k] = status[k]
    BY <1>1, <1>4, CommitJob
  <2>2. PICK t \in Turns : j = Extract(t) \/ j = Reconcile(t)
    BY <2>1, JobIdFacts
  <2> HIDE DEF j
  <2>3. CASE j = Extract(t)
    BY <2>1, <2>3, JobIdFacts
  <2>4. CASE j = Reconcile(t)
    BY <2>1, <2>4, JobIdFacts
  <2> QED
    BY <2>2, <2>3, <2>4
<1>5. ASSUME NEW p \in Procs, NEW t \in Turns, CommitExtract(p, t),
             status' = Opened(Finished(p), Reconcile(t))
      PROVE  OneRowMoves("extract") /\ OneRowMoves("reconcile")
  <2>1. status[Extract(t)] = "open" /\ status[Reconcile(t)] = "none"
    <3>1. proc[p].job = Extract(t) /\ ~At(p, "idle") /\ CanCommit(p)
      BY <1>5 DEF CommitExtract, At
    <3>2. QED
      BY <1>5, <3>1, ExtractJobs, CommitJob
  <2>2. /\ status'[Extract(t)] = "done" /\ status'[Reconcile(t)] = "open"
        /\ \A k \in JobIds \ {Extract(t), Reconcile(t)} : status'[k] = status[k]
    BY <1>5, ExtractJobs
  <2> QED
    BY <2>1, <2>2, JobIdFacts
<1> QED
  BY <1>2, <1>3, <1>4, <1>5, JobsMoves DEF JobsMove

LEMMA RowsStep ==
  ASSUME NEW kind, RowsStay(kind) \/ OneRowMoves(kind)
  PROVE  [Rows(kind)!Next]_(Rows(kind)!ledger)
<1> DEFINE S == [t \in Turns |-> status[<<kind, t>>]]
           S2 == [t \in Turns |-> status'[<<kind, t>>]]
           A == [t \in Turns |-> Applied(status[<<kind, t>>])]
           A2 == [t \in Turns |-> Applied(status'[<<kind, t>>])]
<1>0. CASE RowsStay(kind)
  <2>1. S2 = S /\ A2 = A
    BY <1>0 DEF RowsStay
  <2> QED
    BY <2>1 DEF Rows!ledger
<1> SUFFICES ASSUME OneRowMoves(kind) PROVE [Rows(kind)!Next]_(Rows(kind)!ledger)
  BY <1>0
<1>1. PICK t \in Turns : /\ RowMove(S[t], S2[t])
                         /\ \A u \in Turns \ {t} : S2[u] = S[u]
  BY DEF OneRowMoves
<1>2. \A u \in Turns : A[u] = Applied(S[u]) /\ A2[u] = Applied(S2[u])
  OBVIOUS
<1>3. S2 = [S EXCEPT ![t] = S2[t]] /\ A2 = [A EXCEPT ![t] = Applied(S2[t])]
  BY <1>1
<1>4. CASE S2[t] = S[t]
  <2>1. S2 = S /\ A2 = A
    BY <1>1, <1>4
  <2> QED
    BY <2>1 DEF Rows!ledger
<1>5. CASE S[t] \in {"none", "dead"} /\ S2[t] = "open"
  <2>1. Rows(kind)!Trigger(t)
    BY <1>3, <1>5 DEF Rows!Trigger, Applied
  <2> QED
    BY <2>1 DEF Rows!Next
<1>6. CASE S[t] = "open" /\ S2[t] = "done"
  <2>1. A2 = [A EXCEPT ![t] = A[t] + 1]
    <3>1. Applied(S[t]) = 0 /\ Applied(S2[t]) = 1
      BY <1>6 DEF Applied
    <3>2. Applied(S2[t]) = A[t] + 1
      BY <1>2, <3>1
    <3> HIDE DEF A, A2, S, S2
    <3> QED
      BY <1>3, <3>2
  <2>2. Rows(kind)!Finish(t)
    BY <1>3, <1>6, <2>1 DEF Rows!Finish
  <2> QED
    BY <2>2 DEF Rows!Next
<1>7. CASE S[t] = "open" /\ S2[t] = "dead"
  <2>1. A2 = A
    BY <1>2, <1>3, <1>7 DEF Applied
  <2>2. Rows(kind)!GiveUp(t)
    BY <1>3, <1>7, <2>1 DEF Rows!GiveUp
  <2> QED
    BY <2>2 DEF Rows!Next
<1> QED
  BY <1>1, <1>4, <1>5, <1>6, <1>7 DEF RowMove

(* The extract rows and the reconcile rows both move along the ledger that *)
(* JobQueue implements: a commit that finishes one and queues the other is *)
(* one step of each, and neither is ever finished twice or reopened.       *)
THEOREM LedgersKept ==
  Spec => Rows("extract")!Spec /\ Rows("reconcile")!Spec
<1>1. Init => Rows("extract")!Init /\ Rows("reconcile")!Init
  BY JobIdFacts DEF Init, Rows!Init, Applied, Extract, Reconcile
<1>2. IInv /\ [Next]_vars => /\ [Rows("extract")!Next]_(Rows("extract")!ledger)
                            /\ [Rows("reconcile")!Next]_(Rows("reconcile")!ledger)
  BY RowsMove, RowsStep
<1> QED
  BY <1>1, <1>2, Invariance, PTL DEF Spec, Rows!Spec
=============================================================================
