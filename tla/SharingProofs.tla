--------------------------- MODULE SharingProofs ---------------------------
(***************************************************************************)
(* Theorems about Sharing, for every set of processes, memories, secrets   *)
(* and checkouts, and any number of processes in one checkout.             *)
(***************************************************************************)
EXTENDS Sharing, TLAPS

(* A row is marked only by a promotion, and a promotion follows a person's *)
(* yes.                                                                    *)
MarksAreApproved ==
  /\ \A m \in Mems : mem[m].team => m \in approved
  /\ \A p \in Procs : AtStep(p, "promote") => task[p].m \in approved

(* What a process is about to write went through the gates.                *)
RowsAreApproved == \A p \in Procs : task[p].rows \subseteq approved \ Secrets

(* A process with something to do names a memory and one of its checkouts. *)
TaskIsNamed ==
  \A p \in Procs : ~AtStep(p, "idle") => task[p].m \in Mems /\ task[p].at \in ServedBy[p]

AskedHere == \A p \in Procs : asked[p] \subseteq Mems \X ServedBy[p]

IInv == /\ TypeOK
        /\ MarksAreApproved
        /\ RowsAreApproved
        /\ TaskIsNamed
        /\ AskedHere
        /\ PublishedWasApproved

LEMMA InitIInv == Init => IInv
<1> SUFFICES ASSUME Init PROVE IInv
  OBVIOUS
<1>1. TypeOK
  BY SharingAssumption DEF Init, TypeOK, Memory, File, NoFile, Task, NoTask
<1>2. MarksAreApproved /\ RowsAreApproved /\ TaskIsNamed
  BY DEF Init, MarksAreApproved, RowsAreApproved, TaskIsNamed, AtStep, NoTask
<1>3. AskedHere /\ PublishedWasApproved
  BY DEF Init, AskedHere, PublishedWasApproved, NoFile
<1> QED
  BY <1>1, <1>2, <1>3 DEF IInv

-----------------------------------------------------------------------------
(* How a task moves. *)

(* Its name, kind and checkout stay.                                       *)
SameTask(p) == /\ task'[p].create = task[p].create
               /\ task'[p].m = task[p].m /\ task'[p].at = task[p].at

OthersWait(p) == \A q \in Procs \ {p} : task'[q] = task[q]

LEMMA GoneOn ==
  ASSUME TypeOK, NEW p \in Procs, NEW step \in {"look", "read", "put"}, Goes(p, step)
  PROVE  /\ SameTask(p) /\ OthersWait(p)
         /\ task'[p].rows = task[p].rows /\ task'[p].step = step
         /\ task' \in [Procs -> Task]
<1> DEFINE t == [task[p] EXCEPT !.step = step]
<1>1. task' = [task EXCEPT ![p] = t] /\ task \in [Procs -> Task]
  BY DEF Goes, TypeOK
<1>2. /\ t.create = task[p].create /\ t.m = task[p].m /\ t.at = task[p].at
      /\ t.rows = task[p].rows /\ t.step = step /\ t \in Task
  BY <1>1 DEF Task
<1> HIDE DEF t
<1> QED
  BY <1>1, <1>2 DEF SameTask, OthersWait

LEMMA HasRead ==
  ASSUME TypeOK, NEW p \in Procs, ReadRows(p)
  PROVE  /\ SameTask(p) /\ OthersWait(p)
         /\ task'[p].rows = Projectable /\ task'[p].step = "write"
         /\ task' \in [Procs -> Task]
<1> DEFINE t == [task[p] EXCEPT !.step = "write", !.rows = Projectable]
<1>1. task' = [task EXCEPT ![p] = t] /\ task \in [Procs -> Task]
  BY DEF ReadRows, TypeOK
<1>2. Projectable \subseteq Mems
  BY DEF Projectable
<1>3. /\ t.create = task[p].create /\ t.m = task[p].m /\ t.at = task[p].at
      /\ t.rows = Projectable /\ t.step = "write" /\ t \in Task
  BY <1>1, <1>2 DEF Task
<1> HIDE DEF t
<1> QED
  BY <1>1, <1>3 DEF SameTask, OthersWait

LEMMA Begun ==
  ASSUME TypeOK, NEW p \in Procs, NEW step \in {"look", "promote"}, NEW create \in BOOLEAN,
         NEW m \in Mems, NEW c \in Checkouts, Begin(p, step, create, m, c)
  PROVE  /\ task'[p] = [step |-> step, create |-> create, m |-> m, at |-> c, rows |-> {}]
         /\ OthersWait(p) /\ task' \in [Procs -> Task]
  BY DEF TypeOK, Begin, Task, OthersWait

LEMMA Ended ==
  ASSUME TypeOK, NEW p \in Procs, Ends(p)
  PROVE  task'[p] = NoTask /\ OthersWait(p) /\ task' \in [Procs -> Task]
  BY DEF TypeOK, Ends, Task, NoTask, OthersWait

LEMMA EmptyTask == /\ ~NoTask.create /\ NoTask.step = "idle" /\ NoTask.rows = {}
  BY DEF NoTask

(* The statements, by what they do to the task. *)
LEMMA Statements ==
  ASSUME NEW p \in Procs, Statement(p)
  PROVE  \/ Promote(p) /\ Goes(p, "look")
         \/ LookForFile(p) /\ IsMine(p) /\ Goes(p, "read")
         \/ ReadRows(p)
         \/ OpenFile(p) /\ Goes(p, "put")
         \/ Ends(p)
  BY DEF Statement, Promote, PromoteFails, LookForFile, RemoveFile, OpenFile, WriteFile,
         WriteFails, Crash

(* What a step makes of the task of q.                                     *)
Goes1(q) == \/ Promote(q) /\ task'[q].step = "look"
            \/ LookForFile(q) /\ task'[q].step = "read"
            \/ OpenFile(q) /\ task'[q].step = "put"

Begins(q, m, c) ==
  \/ /\ Allow(q, m, c)
     /\ task'[q] = [step |-> "promote", create |-> TRUE, m |-> m, at |-> c, rows |-> {}]
  \/ /\ Forget(q, m, c)
     /\ task'[q] = [step |-> "look", create |-> FALSE, m |-> m, at |-> c, rows |-> {}]

LEMMA BeginsWith ==
  ASSUME NEW q \in Procs, NEW m \in Mems, NEW c \in Checkouts, Begins(q, m, c)
  PROVE  /\ task'[q].m = m /\ task'[q].at = c /\ task'[q].rows = {}
         /\ AtStep(q, "idle")
         /\ \/ Allow(q, m, c) /\ task'[q].step = "promote" /\ task'[q].create
            \/ Forget(q, m, c) /\ task'[q].step = "look" /\ ~task'[q].create
<1>1. AtStep(q, "idle")
  BY DEF Begins, Allow, Forget
<1>2. CASE /\ Allow(q, m, c)
           /\ task'[q] = [step |-> "promote", create |-> TRUE, m |-> m, at |-> c, rows |-> {}]
  BY <1>1, <1>2
<1>3. CASE /\ Forget(q, m, c)
           /\ task'[q] = [step |-> "look", create |-> FALSE, m |-> m, at |-> c, rows |-> {}]
  BY <1>1, <1>3
<1> QED
  BY <1>2, <1>3 DEF Begins

LEMMA Moves ==
  ASSUME TypeOK, [Next]_vars, NEW q \in Procs
  PROVE  \/ task'[q] = task[q]
         \/ task'[q] = NoTask
         \/ Goes1(q) /\ SameTask(q) /\ task'[q].rows = task[q].rows
         \/ ReadRows(q) /\ SameTask(q) /\ task'[q].rows = Projectable /\ task'[q].step = "write"
         \/ \E m \in Mems, c \in Checkouts : Begins(q, m, c)
<1>1. ASSUME NEW p \in Procs, Write(p) PROVE task'[q] = task[q]
  BY <1>1 DEF Write, Propose, Curate
<1>2. ASSUME NEW p \in Procs, NEW m \in Mems, NEW c \in Checkouts, Allow(p, m, c)
      PROVE  task'[q] = task[q] \/ Begins(q, m, c)
  BY <1>2, Begun DEF Allow, OthersWait, Begins
<1>3. ASSUME NEW p \in Procs, NEW m \in Mems, NEW c \in Checkouts, Forget(p, m, c)
      PROVE  task'[q] = task[q] \/ Begins(q, m, c)
  BY <1>3, Begun DEF Forget, OthersWait, Begins
<1>4. ASSUME NEW p \in Procs, NEW m \in Mems, NEW c \in Checkouts, Call(p, m, c),
             ~Allow(p, m, c), ~Forget(p, m, c)
      PROVE  task'[q] = task[q]
  BY <1>4 DEF Call, RequestApproval, Refuse
<1>5. ASSUME NEW p \in Procs, Statement(p), p # q PROVE task'[q] = task[q]
  BY <1>5, Statements, GoneOn, HasRead, Ended DEF OthersWait
<1>6. CASE Statement(q)
  <2>1. CASE Promote(q) /\ Goes(q, "look")
    BY <2>1, GoneOn DEF Goes1
  <2>2. CASE LookForFile(q) /\ IsMine(q) /\ Goes(q, "read")
    BY <2>2, GoneOn DEF Goes1
  <2>3. CASE OpenFile(q) /\ Goes(q, "put")
    BY <2>3, GoneOn DEF Goes1
  <2>4. CASE ReadRows(q)
    BY <2>4, HasRead
  <2>5. CASE Ends(q)
    BY <2>5, Ended
  <2> QED
    BY <1>6, <2>1, <2>2, <2>3, <2>4, <2>5, Statements
<1>7. CASE UNCHANGED vars
  BY <1>7 DEF vars
<1>8. CASE \E p \in Procs, m \in Mems, c \in Checkouts : Call(p, m, c)
  BY <1>2, <1>3, <1>4, <1>8
<1>9. CASE \E p \in Procs : Statement(p)
  BY <1>5, <1>6, <1>9
<1>10. CASE \E p \in Procs : Write(p)
  BY <1>1, <1>10
<1> QED
  BY <1>7, <1>8, <1>9, <1>10 DEF Next

-----------------------------------------------------------------------------
(* How rows, files and histories move. *)

LEMMA MemMoves ==
  ASSUME TypeOK, [Next]_vars, NEW m \in Mems
  PROVE  /\ Is(m, "tombstone") => Is(m, "tombstone")'
         /\ Is(m, "tombstone")' /\ ~Is(m, "tombstone") =>
              \E p \in Procs, c \in Checkouts : Forget(p, m, c)
         /\ mem'[m].team /\ ~mem[m].team => \E p \in Procs : Promote(p) /\ task[p].m = m
<1> USE SharingAssumption DEF TypeOK, Is
<1>1. ASSUME NEW p \in Procs, NEW n \in Mems, NEW old \in Mems \cup {NULL}, Propose(p, n, old)
      PROVE  /\ (mem'[m].status = "tombstone") <=> (mem[m].status = "tombstone")
             /\ mem'[m].team => mem[m].team
  BY <1>1 DEF Propose, Memory
<1>2. ASSUME NEW p \in Procs, NEW n \in Mems, NEW st \in {"active", "dormant", "retired"},
             Curate(p, n, st)
      PROVE  /\ (mem'[m].status = "tombstone") <=> (mem[m].status = "tombstone")
             /\ mem'[m].team => mem[m].team
  BY <1>2 DEF Curate, Memory
<1>3. ASSUME NEW p \in Procs, NEW n \in Mems, NEW c \in Checkouts, Forget(p, n, c)
      PROVE  /\ (mem[m].status = "tombstone") => (mem'[m].status = "tombstone")
             /\ mem'[m].status = "tombstone" /\ mem[m].status # "tombstone" => m = n
             /\ mem'[m].team => mem[m].team
  BY <1>3 DEF Forget, Memory
<1>4. ASSUME NEW p \in Procs, Promote(p)
      PROVE  /\ (mem'[m].status = "tombstone") <=> (mem[m].status = "tombstone")
             /\ mem'[m].team /\ ~mem[m].team => task[p].m = m
  BY <1>4 DEF Promote, Memory
<1>5. ASSUME NEW p \in Procs, Statement(p), ~Promote(p) PROVE mem' = mem
  BY <1>5 DEF Statement, PromoteFails, LookForFile, ReadRows, RemoveFile, OpenFile, WriteFile,
              WriteFails, Crash
<1>6. ASSUME NEW p \in Procs, NEW n \in Mems, NEW c \in Checkouts, Call(p, n, c), ~Forget(p, n, c)
      PROVE  mem' = mem
  BY <1>6 DEF Call, RequestApproval, Refuse, Allow
<1>7. CASE UNCHANGED vars
  BY <1>7 DEF vars
<1>8. CASE \E p \in Procs : Write(p)
  BY <1>1, <1>2, <1>8 DEF Write
<1>9. CASE \E p \in Procs : Statement(p)
  BY <1>4, <1>5, <1>9
<1>10. CASE \E p \in Procs, n \in Mems, c \in Checkouts : Call(p, n, c)
  BY <1>3, <1>6, <1>10
<1> QED
  BY <1>7, <1>8, <1>9, <1>10 DEF Next

(* The statements that touch a file.                                       *)
AtWork(p) == RemoveFile(p) \/ OpenFile(p) \/ WriteFile(p) \/ WriteFails(p)

LEMMA Histories ==
  ASSUME [Next]_vars
  PROVE  /\ approved \subseteq approved' /\ overtaken \subseteq overtaken'
         /\ ~(\E p \in Procs : AtWork(p)) => file' = file
         /\ ~(\E p \in Procs : RemoveFile(p) \/ WriteFile(p) \/ LookForFile(p)) =>
              forgotten' = forgotten
<1> USE DEF Unremembered, AtWork
<1>1. ASSUME NEW p \in Procs, Write(p)
      PROVE  approved' = approved /\ overtaken' = overtaken /\ file' = file /\ forgotten' = forgotten
  BY <1>1 DEF Write, Propose, Curate
<1>2. ASSUME NEW p \in Procs, NEW m \in Mems, NEW c \in Checkouts, Call(p, m, c)
      PROVE  /\ approved \subseteq approved' /\ overtaken \subseteq overtaken'
             /\ file' = file /\ forgotten' = forgotten
  <2>1. CASE Allow(p, m, c)
    BY <2>1 DEF Allow
  <2>2. CASE Forget(p, m, c)
    BY <2>2 DEF Forget
  <2>3. CASE RequestApproval(p, m, c) \/ Refuse(p, m, c)
    BY <2>3 DEF RequestApproval, Refuse
  <2> QED
    BY <1>2, <2>1, <2>2, <2>3 DEF Call
<1>3. ASSUME NEW p \in Procs, RemoveFile(p) \/ WriteFile(p) \/ LookForFile(p)
      PROVE  approved' = approved /\ overtaken' = overtaken /\ (LookForFile(p) => file' = file)
  BY <1>3 DEF RemoveFile, WriteFile, LookForFile, Reports
<1>4. ASSUME NEW p \in Procs, OpenFile(p) \/ WriteFails(p)
      PROVE  approved' = approved /\ overtaken' = overtaken /\ forgotten' = forgotten
  BY <1>4 DEF OpenFile, WriteFails
<1>5. ASSUME NEW p \in Procs, Promote(p) \/ PromoteFails(p) \/ ReadRows(p) \/ Crash(p)
      PROVE  approved' = approved /\ overtaken' = overtaken /\ file' = file /\ forgotten' = forgotten
  BY <1>5 DEF Promote, PromoteFails, ReadRows, Crash
<1>6. CASE UNCHANGED vars
  BY <1>6 DEF vars
<1>7. CASE \E p \in Procs : Statement(p)
  BY <1>3, <1>4, <1>5, <1>7 DEF Statement
<1>8. CASE \E p \in Procs, m \in Mems, c \in Checkouts : Call(p, m, c)
  BY <1>2, <1>8
<1> QED
  BY <1>1, <1>6, <1>7, <1>8 DEF Next

(* A process at a file has a memory and a checkout of its own.             *)
LEMMA NamedAtWork ==
  ASSUME TypeOK, TaskIsNamed, NEW p \in Procs, ~AtStep(p, "idle")
  PROVE  task[p].m \in Mems /\ task[p].at \in Checkouts /\ task[p].rows \subseteq Mems
  BY SharingAssumption DEF TypeOK, TaskIsNamed, Task

(* A file is a record of two fields. *)
LEMMA FileFields ==
  ASSUME NEW f \in File
  PROVE  f = [there |-> f.there, says |-> f.says] /\ f.there \in BOOLEAN /\ f.says \subseteq Mems
<1>1. CASE f = NoFile
  BY <1>1 DEF NoFile
<1>2. CASE f \in [there : {TRUE}, says : SUBSET Mems]
  BY <1>2
<1> QED
  BY <1>1, <1>2 DEF File

(* What a statement that touches a file makes of it.                       *)
LEMMA NewContent ==
  ASSUME TypeOK, TaskIsNamed, NEW p \in Procs, AtWork(p)
  PROVE  /\ task[p].at \in Checkouts /\ AtTheFile(p)
         /\ \E f \in File : /\ Writes(p, f)
                            /\ f.says \subseteq task[p].rows \cup file[task[p].at].says
                            /\ RemoveFile(p) \/ OpenFile(p) => f.says = {}
<1> USE DEF TypeOK
<1>1. AtTheFile(p) /\ ~AtStep(p, "idle")
  BY DEF AtWork, RemoveFile, OpenFile, WriteFile, WriteFails, AtTheFile, AtStep
<1>2. task[p].at \in Checkouts /\ task[p].rows \subseteq Mems
  BY <1>1, NamedAtWork
<1>3. CASE RemoveFile(p)
  <2>1. Writes(p, NoFile) /\ NoFile \in File /\ NoFile.says = {}
    BY <1>3 DEF RemoveFile, File, NoFile
  <2> QED
    BY <1>1, <1>2, <2>1
<1>4. CASE OpenFile(p)
  <2> DEFINE f == [there |-> TRUE, says |-> {}]
  <2>1. Writes(p, f) /\ f \in File /\ f.says = {}
    BY <1>4 DEF OpenFile, File
  <2> QED
    BY <1>1, <1>2, <2>1
<1>5. CASE WriteFile(p)
  <2>1. PICK f \in Written(p) : Writes(p, f)
    BY <1>5 DEF WriteFile
  <2>2. ~RemoveFile(p) /\ ~OpenFile(p)
    BY <1>5 DEF WriteFile, RemoveFile, OpenFile, AtStep
  <2>3. CASE f = NoFile
    BY <1>1, <1>2, <2>1, <2>2, <2>3 DEF File, NoFile
  <2>4. CASE f # NoFile
    <3>1. PICK tail \in SUBSET file[task[p].at].says :
            f = [there |-> TRUE, says |-> task[p].rows \cup tail]
      BY <2>4 DEF Written
    <3>2. file[task[p].at].says \subseteq Mems
      BY <1>2, FileFields
    <3>3. f \in [there : {TRUE}, says : SUBSET Mems]
      BY <1>2, <3>1, <3>2
    <3>4. f \in File /\ f.says \subseteq task[p].rows \cup file[task[p].at].says
      BY <3>1, <3>3 DEF File
    <3> QED
      BY <1>1, <1>2, <2>1, <2>2, <3>4
  <2> QED
    BY <2>3, <2>4
<1>6. CASE WriteFails(p) /\ ~RemoveFile(p) /\ ~OpenFile(p)
  <2>1. PICK f \in Broken(p) : Writes(p, f)
    BY <1>6 DEF WriteFails
  <2>2. f \in File /\ f.says \subseteq task[p].rows \cup file[task[p].at].says
    BY DEF Broken, NoFile
  <2> QED
    BY <1>1, <1>2, <1>6, <2>1, <2>2
<1> QED
  BY <1>3, <1>4, <1>5, <1>6 DEF AtWork

LEMMA FileMoves ==
  ASSUME TypeOK, TaskIsNamed, [Next]_vars, NEW c \in Checkouts
  PROVE  \/ file'[c] = file[c]
         \/ \E p \in Procs : /\ AtWork(p) /\ AtTheFile(p) /\ task[p].at = c
                             /\ file'[c].says \subseteq task[p].rows \cup file[c].says
                             /\ RemoveFile(p) \/ OpenFile(p) => file'[c].says = {}
<1>1. CASE ~(\E p \in Procs : AtWork(p))
  BY <1>1, Histories
<1>2. ASSUME NEW p \in Procs, AtWork(p), file'[c] # file[c]
      PROVE  /\ AtTheFile(p) /\ task[p].at = c
             /\ file'[c].says \subseteq task[p].rows \cup file[c].says
             /\ RemoveFile(p) \/ OpenFile(p) => file'[c].says = {}
  <2>1. PICK f \in File : /\ Writes(p, f)
                          /\ f.says \subseteq task[p].rows \cup file[task[p].at].says
                          /\ RemoveFile(p) \/ OpenFile(p) => f.says = {}
    BY <1>2, NewContent
  <2>2. task[p].at = c /\ file'[c] = f
    BY <1>2, <2>1 DEF Writes, TypeOK
  <2> QED
    BY <1>2, <2>1, <2>2, NewContent
<1> QED
  BY <1>1, <1>2

-----------------------------------------------------------------------------
LEMMA StepTypes == TypeOK /\ TaskIsNamed /\ [Next]_vars => TypeOK'
<1> SUFFICES ASSUME TypeOK, TaskIsNamed, [Next]_vars PROVE TypeOK'
  OBVIOUS
<1> USE SharingAssumption DEF TypeOK
<1>1. ASSUME NEW p \in Procs, NEW m \in Mems, NEW old \in Mems \cup {NULL}, Propose(p, m, old)
      PROVE TypeOK'
  BY <1>1 DEF Propose, Unremembered, Memory
<1>2. ASSUME NEW p \in Procs, NEW m \in Mems, NEW st \in {"active", "dormant", "retired"},
             Curate(p, m, st)
      PROVE TypeOK'
  BY <1>2 DEF Curate, Unremembered, Memory
<1>3. ASSUME NEW p \in Procs, NEW m \in Mems, NEW c \in Checkouts, RequestApproval(p, m, c)
      PROVE TypeOK'
  BY <1>3 DEF RequestApproval, Unremembered
<1>4. ASSUME NEW p \in Procs, NEW m \in Mems, NEW c \in Checkouts, Refuse(p, m, c)
      PROVE TypeOK'
  BY <1>4 DEF Refuse, Unremembered
<1>5. ASSUME NEW p \in Procs, NEW m \in Mems, NEW c \in Checkouts, Allow(p, m, c)
      PROVE TypeOK'
  BY <1>5, Begun DEF Allow
<1>6. ASSUME NEW p \in Procs, NEW m \in Mems, NEW c \in Checkouts, Forget(p, m, c)
      PROVE TypeOK'
  <2>1. Selected(m) \subseteq Checkouts
    <3>1. ASSUME NEW q \in Procs, AtTheFile(q) PROVE task[q].at \in Checkouts
      BY <3>1, NamedAtWork DEF AtTheFile, AtStep
    <3> QED
      BY <3>1 DEF Selected
  <2>2. overtaken' \subseteq Mems \X Checkouts
    BY <1>6, <2>1 DEF Forget
  <2>3. mem' \in [Mems -> Memory]
    BY <1>6 DEF Forget, Memory
  <2> QED
    BY <1>6, <2>2, <2>3, Begun DEF Forget
<1>7. ASSUME NEW p \in Procs, Promote(p) PROVE TypeOK'
  <2>1. mem' \in [Mems -> Memory]
    BY <1>7 DEF Promote, Memory
  <2> QED
    BY <1>7, <2>1, GoneOn DEF Promote, Unremembered
<1>8. ASSUME NEW p \in Procs, PromoteFails(p) \/ Crash(p) PROVE TypeOK'
  BY <1>8, Ended DEF PromoteFails, Crash, Unremembered
<1>9. ASSUME NEW p \in Procs, ~AtStep(p, "idle"), Reports(p)
      PROVE  /\ forgotten' \subseteq Mems \X Checkouts /\ told' \subseteq Mems \X Checkouts
             /\ approved' = approved /\ overtaken' = overtaken
  BY <1>9, NamedAtWork DEF Reports
<1>10. ASSUME NEW p \in Procs, LookForFile(p) PROVE TypeOK'
  <2>1. CASE IsMine(p) /\ Goes(p, "read") /\ Unremembered
    BY <1>10, <2>1, GoneOn DEF LookForFile, Unremembered
  <2>2. CASE ~IsMine(p) /\ Ends(p) /\ Reports(p)
    BY <1>9, <1>10, <2>2, Ended DEF LookForFile, AtStep
  <2> QED
    BY <1>10, <2>1, <2>2 DEF LookForFile
<1>11. ASSUME NEW p \in Procs, ReadRows(p) PROVE TypeOK'
  BY <1>11, HasRead DEF ReadRows, Unremembered
<1>12. ASSUME NEW p \in Procs, AtWork(p) PROVE TypeOK'
  <2>1. file' \in [Checkouts -> File]
    BY <1>12, NewContent DEF Writes
  <2>2. mem' = mem /\ asked' = asked
    BY <1>12 DEF AtWork, RemoveFile, OpenFile, WriteFile, WriteFails
  <2>3. task' \in [Procs -> Task]
    BY <1>12, Ended, GoneOn DEF AtWork, RemoveFile, OpenFile, WriteFile, WriteFails
  <2>4. CASE Reports(p)
    <3>1. ~AtStep(p, "idle")
      BY <1>12, NewContent DEF AtTheFile, AtStep
    <3> QED
      BY <1>9, <2>1, <2>2, <2>3, <2>4, <3>1
  <2>5. CASE Unremembered
    BY <2>1, <2>2, <2>3, <2>5 DEF Unremembered
  <2> QED
    BY <1>12, <2>4, <2>5 DEF AtWork, RemoveFile, OpenFile, WriteFile, WriteFails
<1>13. CASE UNCHANGED vars
  BY <1>13 DEF vars
<1>14. CASE \E p \in Procs : Write(p)
  BY <1>1, <1>2, <1>14 DEF Write
<1>15. CASE \E p \in Procs : Statement(p)
  BY <1>7, <1>8, <1>10, <1>11, <1>12, <1>15 DEF Statement, AtWork
<1>16. CASE \E p \in Procs, m \in Mems, c \in Checkouts : Call(p, m, c)
  BY <1>3, <1>4, <1>5, <1>6, <1>16 DEF Call
<1> QED
  BY <1>13, <1>14, <1>15, <1>16 DEF Next

(* A mark is set by a promotion alone, and its memory was approved.        *)
LEMMA StepMarks == IInv /\ [Next]_vars => MarksAreApproved'
<1> SUFFICES ASSUME IInv, [Next]_vars PROVE MarksAreApproved'
  OBVIOUS
<1> USE DEF IInv
<1>1. ASSUME NEW m \in Mems, mem'[m].team PROVE m \in approved'
  <2>1. mem[m].team \/ \E p \in Procs : Promote(p) /\ task[p].m = m
    BY <1>1, MemMoves
  <2>2. m \in approved
    BY <2>1 DEF MarksAreApproved, Promote
  <2> QED
    BY <2>2, Histories
<1>2. ASSUME NEW q \in Procs, AtStep(q, "promote")' PROVE task'[q].m \in approved'
  <2>1. CASE task'[q] = task[q]
    BY <1>2, <2>1, Histories DEF MarksAreApproved, AtStep
  <2>2. ASSUME NEW m \in Mems, NEW c \in Checkouts, Begins(q, m, c)
        PROVE  task'[q].m \in approved'
    <3>1. Allow(q, m, c) /\ task'[q].m = m
      BY <1>2, <2>2, BeginsWith DEF AtStep
    <3> QED
      BY <3>1 DEF Allow
  <2>3. ~Goes1(q) /\ task'[q] # NoTask /\ task'[q].step # "write"
    BY <1>2, EmptyTask DEF AtStep, Goes1
  <2> QED
    BY <2>1, <2>2, <2>3, Moves
<1> QED
  BY <1>1, <1>2 DEF MarksAreApproved

(* The SELECT takes approved rows only. *)
LEMMA ProjectableApproved == IInv => Projectable \subseteq approved \ Secrets
  BY DEF IInv, MarksAreApproved, Projectable

LEMMA StepRows == IInv /\ [Next]_vars => RowsAreApproved'
<1> SUFFICES ASSUME IInv, [Next]_vars, NEW q \in Procs
             PROVE  task'[q].rows \subseteq approved' \ Secrets
  BY DEF RowsAreApproved
<1>1. task'[q].rows \subseteq task[q].rows \/ task'[q].rows = Projectable
  BY Moves, BeginsWith, EmptyTask DEF IInv
<1> QED
  BY <1>1, ProjectableApproved, Histories DEF IInv, RowsAreApproved

LEMMA StepNamed == IInv /\ [Next]_vars => (TaskIsNamed /\ AskedHere)'
<1> SUFFICES ASSUME IInv, [Next]_vars PROVE (TaskIsNamed /\ AskedHere)'
  OBVIOUS
<1> USE DEF IInv
<1>1. ASSUME NEW q \in Procs, ~AtStep(q, "idle")'
      PROVE  task'[q].m \in Mems /\ task'[q].at \in ServedBy[q]
  <2>1. CASE /\ ~AtStep(q, "idle")
             /\ task'[q].m = task[q].m /\ task'[q].at = task[q].at
    BY <2>1 DEF TaskIsNamed
  <2>2. ASSUME NEW m \in Mems, NEW c \in Checkouts, Begins(q, m, c)
        PROVE  task'[q].m \in Mems /\ task'[q].at \in ServedBy[q]
    <3>1. c \in ServedBy[q]
      BY <2>2 DEF Begins, Allow, Forget, AskedHere
    <3> QED
      BY <2>2, <3>1, BeginsWith
  <2>3. CASE task'[q] = task[q]
    BY <1>1, <2>1, <2>3 DEF AtStep
  <2>4. CASE (Goes1(q) \/ ReadRows(q)) /\ SameTask(q)
    BY <2>1, <2>4 DEF Goes1, SameTask, Promote, LookForFile, OpenFile, ReadRows, AtStep
  <2>5. task'[q] # NoTask
    BY <1>1, EmptyTask DEF AtStep
  <2> QED
    BY <2>2, <2>3, <2>4, <2>5, Moves
<1>2. AskedHere'
  <2>1. ASSUME NEW p \in Procs, Write(p) PROVE asked' = asked
    BY <2>1 DEF Write, Propose, Curate
  <2>2. ASSUME NEW p \in Procs, Statement(p)
        PROVE  \A q \in Procs : asked'[q] \subseteq asked[q]
    BY <2>2 DEF TypeOK, Statement, Promote, PromoteFails, LookForFile, ReadRows, RemoveFile,
                OpenFile, WriteFile, WriteFails, Crash
  <2>3. ASSUME NEW p \in Procs, NEW m \in Mems, NEW c \in Checkouts, Call(p, m, c)
        PROVE  \A q \in Procs : asked'[q] \subseteq asked[q] \cup (Mems \X ServedBy[q])
    <3>1. CASE RequestApproval(p, m, c)
      BY <3>1 DEF TypeOK, RequestApproval
    <3>2. CASE Refuse(p, m, c)
      BY <3>2 DEF TypeOK, Refuse
    <3>3. CASE Allow(p, m, c)
      BY <3>3 DEF TypeOK, Allow
    <3>4. CASE Forget(p, m, c)
      BY <3>4 DEF Forget
    <3> QED
      BY <2>3, <3>1, <3>2, <3>3, <3>4 DEF Call
  <2>4. CASE UNCHANGED vars
    BY <2>4 DEF vars, AskedHere
  <2> QED
    BY <2>1, <2>2, <2>3, <2>4 DEF Next, AskedHere
<1> QED
  BY <1>1, <1>2 DEF TaskIsNamed

LEMMA StepPublished == IInv /\ [Next]_vars => PublishedWasApproved'
<1> SUFFICES ASSUME IInv, [Next]_vars, NEW c \in Checkouts
             PROVE  file'[c].says \subseteq approved' \ Secrets
  BY DEF PublishedWasApproved
<1>1. \/ file'[c].says = file[c].says
      \/ \E p \in Procs : file'[c].says \subseteq task[p].rows \cup file[c].says
  BY FileMoves DEF IInv
<1> QED
  BY <1>1, Histories DEF IInv, RowsAreApproved, PublishedWasApproved

LEMMA StepIInv == IInv /\ [Next]_vars => IInv'
  BY StepTypes, StepMarks, StepRows, StepNamed, StepPublished DEF IInv

(* The inductive invariant holds throughout.                               *)
THEOREM Invariance == Spec => []IInv
  BY InitIInv, StepIInv, PTL DEF Spec

(* Store, files and processes keep their types.                            *)
THEOREM TypeCorrect == Spec => []TypeOK
  BY Invariance, PTL DEF IInv

(* No file ever says what nobody agreed to publish, nor a secret.          *)
THEOREM Published == Spec => []PublishedWasApproved
  BY Invariance, PTL DEF IInv

-----------------------------------------------------------------------------
(***************************************************************************)
(* What is forgotten.  A tombstone is committed before its process looks   *)
(* at the rows, so only a rewrite that had selected the memory before can  *)
(* still bring it; every other one starts from an emptied file.            *)
(***************************************************************************)

(* A task that does not publish is that of a forget, already committed.    *)
Tombstoned ==
  /\ \A p \in Procs : ~AtStep(p, "idle") /\ ~task[p].create => Is(task[p].m, "tombstone")
  /\ \A m \in Mems, c \in Checkouts : <<m, c>> \in forgotten => Is(m, "tombstone")

(* What is about to be written and is forgotten was selected before.       *)
RowsOvertaken ==
  \A p \in Procs, m \in Mems :
    AtTheFile(p) /\ m \in task[p].rows /\ Is(m, "tombstone") => <<m, task[p].at>> \in overtaken

(* A forget writes no row of its own memory.                               *)
WritesOthers == \A p \in Procs : AtTheFile(p) /\ ~task[p].create => task[p].m \notin task[p].rows

(* Once it has emptied the file, only others can have written it there.    *)
FileCleared ==
  \A p \in Procs :
    AtStep(p, "put") /\ ~task[p].create /\ task[p].m \in file[task[p].at].says =>
      <<task[p].m, task[p].at>> \in overtaken

AInv == /\ IInv /\ Tombstoned /\ RowsOvertaken /\ WritesOthers /\ FileCleared
        /\ ForgottenStaysOut

LEMMA InitAInv == Init => AInv
<1> SUFFICES ASSUME Init PROVE AInv
  OBVIOUS
<1>1. \A p \in Procs : AtStep(p, "idle") /\ ~AtTheFile(p) /\ ~AtStep(p, "put")
  BY DEF Init, AtStep, AtTheFile, NoTask
<1>2. Tombstoned /\ ForgottenStaysOut
  BY <1>1 DEF Init, Tombstoned, ForgottenStaysOut
<1> QED
  BY <1>1, <1>2, InitIInv DEF AInv, RowsOvertaken, WritesOthers, FileCleared

(* Whoever adds to the report of forgets ends one, and finds the file gone *)
(* or has written it.                                                      *)
LEMMA Reporter ==
  ASSUME [Next]_vars, NEW m \in Mems, NEW c \in Checkouts,
         <<m, c>> \in forgotten', <<m, c>> \notin forgotten
  PROVE  \E p \in Procs : /\ task[p].m = m /\ task[p].at = c /\ ~task[p].create
                          /\ ~AtStep(p, "idle")
                          /\ \/ LookForFile(p) /\ ~file[c].there /\ file' = file
                             \/ RemoveFile(p) \/ WriteFile(p)
<1>1. PICK p \in Procs : RemoveFile(p) \/ WriteFile(p) \/ LookForFile(p)
  BY Histories
<1>2. CASE RemoveFile(p)
  BY <1>2 DEF RemoveFile, Reports, AtStep
<1>3. CASE WriteFile(p)
  BY <1>3 DEF WriteFile, Reports, AtStep
<1>4. CASE LookForFile(p)
  BY <1>4 DEF LookForFile, Reports, Unremembered, IsMine, AtStep
<1> QED
  BY <1>1, <1>2, <1>3, <1>4

(* A process that is at something went on with it or has begun it.         *)
LEMMA GoesOnOrBegins ==
  ASSUME TypeOK, [Next]_vars, NEW q \in Procs, task'[q].step # "idle"
  PROVE  \/ ~AtStep(q, "idle") /\ SameTask(q)
         \/ \E m \in Mems, c \in Checkouts : Begins(q, m, c)
<1>1. task'[q] # NoTask
  BY EmptyTask
<1>2. CASE task'[q] = task[q]
  BY <1>2 DEF AtStep, SameTask
<1>3. CASE (Goes1(q) \/ ReadRows(q)) /\ SameTask(q)
  BY <1>3 DEF Goes1, Promote, LookForFile, OpenFile, ReadRows, AtStep
<1> QED
  BY <1>1, <1>2, <1>3, Moves

(* A process comes to a file by reading the rows, and then keeps them.     *)
LEMMA ComesToFile ==
  ASSUME TypeOK, [Next]_vars, NEW q \in Procs, AtTheFile(q)'
  PROVE  /\ SameTask(q)
         /\ \/ ReadRows(q) /\ task'[q].rows = Projectable /\ task'[q].step = "write"
            \/ AtTheFile(q) /\ task'[q].rows = task[q].rows
<1>1. task'[q].step \in {"write", "put"}
  BY DEF AtTheFile, AtStep
<1>2. task'[q] # NoTask
  BY <1>1, EmptyTask
<1>3. ASSUME NEW m \in Mems, NEW c \in Checkouts, Begins(q, m, c) PROVE FALSE
  BY <1>1, <1>3, BeginsWith
<1>4. CASE task'[q] = task[q]
  BY <1>4 DEF AtTheFile, AtStep, SameTask
<1>5. CASE Goes1(q) /\ SameTask(q) /\ task'[q].rows = task[q].rows
  BY <1>1, <1>5 DEF Goes1, OpenFile, AtTheFile
<1> QED
  BY <1>2, <1>3, <1>4, <1>5, Moves

LEMMA StepTombstoned == AInv /\ [Next]_vars => Tombstoned'
<1> SUFFICES ASSUME AInv, [Next]_vars PROVE Tombstoned'
  OBVIOUS
<1> USE DEF AInv, IInv
<1>1. ASSUME NEW m \in Mems, mem[m].status = "tombstone" PROVE mem'[m].status = "tombstone"
  BY <1>1, MemMoves DEF Is
<1>2. ASSUME NEW q \in Procs, task'[q].step # "idle", ~task'[q].create
      PROVE  mem'[task'[q].m].status = "tombstone"
  <2>1. CASE ~AtStep(q, "idle") /\ SameTask(q)
    <3>1. task[q].m \in Mems /\ mem[task[q].m].status = "tombstone"
      BY <1>2, <2>1 DEF TaskIsNamed, Tombstoned, Is, SameTask
    <3> QED
      BY <1>1, <2>1, <3>1 DEF SameTask
  <2>2. ASSUME NEW m \in Mems, NEW c \in Checkouts, Begins(q, m, c)
        PROVE  mem'[task'[q].m].status = "tombstone"
    <3>1. Forget(q, m, c) /\ task'[q].m = m
      BY <1>2, <2>2, BeginsWith
    <3>2. mem'[m].status = "tombstone"
      BY <3>1 DEF Forget, TypeOK, Memory
    <3> QED
      BY <3>1, <3>2
  <2> QED
    BY <1>2, <2>1, <2>2, GoesOnOrBegins
<1>3. ASSUME NEW m \in Mems, NEW c \in Checkouts, <<m, c>> \in forgotten'
      PROVE  mem'[m].status = "tombstone"
  <2>1. mem[m].status = "tombstone"
    <3>1. CASE <<m, c>> \in forgotten
      BY <3>1 DEF Tombstoned, Is
    <3>2. CASE <<m, c>> \notin forgotten
      BY <1>3, <3>2, Reporter DEF Tombstoned, Is
    <3> QED
      BY <3>1, <3>2
  <2> QED
    BY <1>1, <2>1
<1> QED
  BY <1>2, <1>3 DEF Tombstoned, AtStep, Is

LEMMA StepOvertaken == AInv /\ [Next]_vars => RowsOvertaken'
<1> SUFFICES ASSUME AInv, [Next]_vars,
                    NEW q \in Procs, NEW m \in Mems,
                    AtTheFile(q)', m \in task'[q].rows, mem'[m].status = "tombstone"
             PROVE  <<m, task'[q].at>> \in overtaken'
  BY DEF RowsOvertaken, Is
<1> USE DEF AInv, IInv
<1>1. SameTask(q)
  BY ComesToFile
<1>2. CASE ReadRows(q) /\ task'[q].rows = Projectable
  <2>1. mem' = mem /\ mem[m].status = "active"
    BY <1>2 DEF ReadRows, Projectable, Is
  <2> QED
    BY <2>1
<1>3. CASE AtTheFile(q) /\ task'[q].rows = task[q].rows
  <2>1. CASE mem[m].status = "tombstone"
    BY <1>1, <1>3, <2>1, Histories DEF RowsOvertaken, Is, SameTask
  <2>2. CASE mem[m].status # "tombstone"
    <3>1. PICK p \in Procs, c \in Checkouts : Forget(p, m, c)
      BY <2>2, MemMoves DEF Is
    <3>2. task[q].at \in Selected(m)
      BY <1>3 DEF Selected
    <3> QED
      BY <1>1, <3>1, <3>2 DEF Forget, SameTask
  <2> QED
    BY <2>1, <2>2
<1> QED
  BY <1>2, <1>3, ComesToFile

LEMMA StepWritesOthers == AInv /\ [Next]_vars => WritesOthers'
<1> SUFFICES ASSUME AInv, [Next]_vars, NEW q \in Procs, AtTheFile(q)', ~task'[q].create
             PROVE  task'[q].m \notin task'[q].rows
  BY DEF WritesOthers
<1> USE DEF AInv, IInv
<1>1. SameTask(q)
  BY ComesToFile
<1>2. CASE ReadRows(q) /\ task'[q].rows = Projectable
  <2>1. mem[task[q].m].status = "tombstone"
    BY <1>1, <1>2 DEF ReadRows, Tombstoned, SameTask, AtStep, Is
  <2> QED
    BY <1>1, <1>2, <2>1 DEF Projectable, SameTask, Is
<1>3. CASE AtTheFile(q) /\ task'[q].rows = task[q].rows
  BY <1>1, <1>3 DEF WritesOthers, SameTask
<1> QED
  BY <1>2, <1>3, ComesToFile

(* Of a forgotten memory no file says more than it said, but where a       *)
(* rewrite was overtaken.                                                  *)
LEMMA NothingComesBack ==
  ASSUME AInv, [Next]_vars, NEW m \in Mems, NEW c \in Checkouts,
         Is(m, "tombstone"), m \in file'[c].says, <<m, c>> \notin overtaken'
  PROVE  /\ m \in file[c].says
         /\ \A p \in Procs : AtWork(p) /\ task[p].at = c => ~RemoveFile(p) /\ ~OpenFile(p)
<1> USE DEF AInv, IInv
<1>1. <<m, c>> \notin overtaken
  BY Histories
<1>2. m \in file[c].says
  <2>1. ASSUME NEW p \in Procs, AtTheFile(p), task[p].at = c PROVE m \notin task[p].rows
    BY <1>1, <2>1 DEF RowsOvertaken
  <2> QED
    BY <2>1, FileMoves
<1>3. ASSUME NEW p \in Procs, AtWork(p), task[p].at = c, RemoveFile(p) \/ OpenFile(p) PROVE FALSE
  <2>1. PICK f \in File : Writes(p, f) /\ f.says = {}
    BY <1>3, NewContent
  <2>2. file'[c] = f
    BY <1>3, <2>1 DEF Writes, TypeOK
  <2> QED
    BY <2>1, <2>2
<1> QED
  BY <1>2, <1>3

LEMMA StepCleared == AInv /\ [Next]_vars => FileCleared'
<1> SUFFICES ASSUME AInv, [Next]_vars, NEW q \in Procs,
                    task'[q].step = "put", ~task'[q].create,
                    task'[q].m \in file'[task'[q].at].says,
                    <<task'[q].m, task'[q].at>> \notin overtaken'
             PROVE  FALSE
  BY DEF FileCleared, AtStep
<1> USE DEF AInv, IInv
<1>1. SameTask(q) /\ AtTheFile(q) /\ task'[q].rows = task[q].rows
  BY ComesToFile DEF AtTheFile, AtStep
<1> DEFINE m == task[q].m
           c == task[q].at
<1>2. m \in Mems /\ c \in Checkouts /\ Is(m, "tombstone")
  BY <1>1, NamedAtWork DEF AtTheFile, AtStep, Tombstoned, SameTask
<1>3. /\ m \in file'[c].says /\ <<m, c>> \notin overtaken'
  BY <1>1 DEF SameTask
<1> HIDE DEF m, c
<1>4. /\ m \in file[c].says
      /\ \A p \in Procs : AtWork(p) /\ task[p].at = c => ~RemoveFile(p) /\ ~OpenFile(p)
  BY <1>2, <1>3, NothingComesBack
<1>5. ~AtStep(q, "put")
  BY <1>1, <1>3, <1>4, Histories DEF m, c, FileCleared, SameTask
<1>6. OpenFile(q)
  <2>1. task'[q] # task[q] /\ task'[q] # NoTask /\ ~ReadRows(q)
    BY <1>1, <1>5, EmptyTask DEF AtStep, AtTheFile, ReadRows
  <2>2. ASSUME NEW n \in Mems, NEW d \in Checkouts, Begins(q, n, d) PROVE FALSE
    BY <2>2, BeginsWith
  <2> QED
    BY <2>1, <2>2, Moves DEF Goes1
<1> QED
  BY <1>4, <1>6 DEF AtWork, c

LEMMA StepForgotten == AInv /\ [Next]_vars => ForgottenStaysOut'
<1> SUFFICES ASSUME AInv, [Next]_vars, NEW m \in Mems, NEW c \in Checkouts,
                    <<m, c>> \in forgotten', m \in file'[c].says, <<m, c>> \notin overtaken'
             PROVE  FALSE
  BY DEF ForgottenStaysOut
<1> USE DEF AInv, IInv
<1>1. <<m, c>> \notin overtaken
  BY Histories
<1>2. CASE <<m, c>> \in forgotten
  <2>1. Is(m, "tombstone")
    BY <1>2 DEF Tombstoned
  <2> QED
    BY <1>1, <1>2, <2>1, NothingComesBack DEF ForgottenStaysOut
<1>3. CASE <<m, c>> \notin forgotten
  <2>1. PICK p \in Procs : /\ task[p].m = m /\ task[p].at = c /\ ~task[p].create
                           /\ ~AtStep(p, "idle")
                           /\ \/ LookForFile(p) /\ ~file[c].there /\ file' = file
                              \/ RemoveFile(p) \/ WriteFile(p)
    BY <1>3, Reporter
  <2>2. Is(m, "tombstone")
    BY <2>1 DEF Tombstoned
  <2>3. /\ m \in file[c].says
        /\ AtWork(p) => ~RemoveFile(p)
    BY <2>1, <2>2, NothingComesBack
  <2>4. CASE ~file[c].there
    <3>1. file[c] = NoFile
      BY <2>4 DEF TypeOK, File
    <3> QED
      BY <2>3, <3>1 DEF NoFile
  <2>5. CASE WriteFile(p)
    BY <1>1, <2>1, <2>3, <2>5 DEF FileCleared, WriteFile
  <2> QED
    BY <2>1, <2>3, <2>4, <2>5 DEF AtWork
<1> QED
  BY <1>2, <1>3

LEMMA StepAInv == AInv /\ [Next]_vars => AInv'
  BY StepIInv, StepTombstoned, StepOvertaken, StepWritesOthers, StepCleared, StepForgotten DEF AInv

(* What a forget has refreshed away comes back to a file only through a    *)
(* rewrite that had selected it when it was forgotten, whatever breaks off *)
(* and however many processes work in one checkout.                        *)
THEOREM Forgotten == Spec => []ForgottenStaysOut
<1>1. AInv => ForgottenStaysOut
  BY DEF AInv
<1> QED
  BY InitAInv, StepAInv, <1>1, PTL DEF Spec

-----------------------------------------------------------------------------
(* The publications. *)

(* A process at an await publishes nothing.                                *)
IdlePublishesNothing == \A p \in Procs : AtStep(p, "idle") => ~task[p].create

PInv == AInv /\ IdlePublishesNothing

LEMMA StepPInv == PInv /\ [Next]_vars => PInv'
<1> SUFFICES ASSUME PInv, [Next]_vars, NEW q \in Procs, task'[q].step = "idle", task'[q].create
             PROVE  FALSE
  BY StepAInv DEF PInv, IdlePublishesNothing, AtStep
<1>1. task'[q] # NoTask
  BY EmptyTask
<1>2. task'[q] # task[q]
  BY DEF PInv, IdlePublishesNothing, AtStep
<1>3. ~Goes1(q)
  BY DEF Goes1
<1>4. ASSUME NEW m \in Mems, NEW c \in Checkouts, Begins(q, m, c) PROVE FALSE
  BY <1>4, BeginsWith
<1> QED
  BY <1>1, <1>2, <1>3, <1>4, Moves DEF PInv, AInv, IInv

(* The refreshes change with the task of the one process that takes a step. *)
LEMMA Remapped ==
  ASSUME NEW p \in Procs, OthersWait(p)
  PROVE  /\ Refreshes' = [Refreshes EXCEPT ![p] = RefreshOf(task'[p])]
         /\ Refreshes[p] = RefreshOf(task[p])
         /\ RefreshOf(task'[p]) = RefreshOf(task[p]) => Refreshes' = Refreshes
  BY DEF Refreshes, OthersWait

(* A task that has neither somebody's yes nor found a file.                *)
LEMMA AtRest ==
  ASSUME NEW t, ~t.create, t.step \notin {"read", "write", "put"}
  PROVE  RefreshOf(t) = Public!Resting
  BY DEF RefreshOf, Public!Resting

LEMMA AtAFile ==
  ASSUME NEW t, t.create \/ t.step \in {"read", "write", "put"}
  PROVE  /\ RefreshOf(t).on /\ RefreshOf(t).m = t.m /\ RefreshOf(t).at = t.at
         /\ RefreshOf(t).share = t.create
         /\ RefreshOf(t).ready <=> t.step \in {"write", "put"}
         /\ t.step \in {"write", "put"} => RefreshOf(t).took = t.rows
  BY DEF RefreshOf

LEMMA NotReady ==
  ASSUME NEW t, t.create \/ t.step = "read", t.step \notin {"write", "put"}
  PROVE  RefreshOf(t) = [on |-> TRUE, share |-> t.create, ready |-> FALSE,
                         m |-> t.m, at |-> t.at, took |-> {}]
<1>1. (t.step \in {"write", "put"}) = FALSE
  OBVIOUS
<1>2. t.create \/ t.step \in {"read", "write", "put"}
  OBVIOUS
<1> QED
  BY <1>1, <1>2, Zenon DEF RefreshOf

LEMMA Ready ==
  ASSUME NEW t, t.step \in {"write", "put"}
  PROVE  RefreshOf(t) = [on |-> TRUE, share |-> t.create, ready |-> TRUE,
                         m |-> t.m, at |-> t.at, took |-> t.rows]
<1>1. (t.step \in {"write", "put"}) = TRUE
  OBVIOUS
<1>2. t.create \/ t.step \in {"read", "write", "put"}
  OBVIOUS
<1> QED
  BY <1>1, <1>2, Zenon DEF RefreshOf

LEMMA EndedRests ==
  ASSUME PInv, NEW p \in Procs, Ends(p)
  PROVE  Public!Rests(p) /\ OthersWait(p) /\ RefreshOf(task'[p]) = Public!Resting
<1>1. task'[p] = NoTask /\ OthersWait(p)
  BY Ended DEF PInv, AInv, IInv
<1>2. RefreshOf(task'[p]) = Public!Resting
  BY <1>1, EmptyTask, AtRest
<1> QED
  BY <1>1, <1>2, Remapped DEF Public!Rests

(* A yes. *)
LEMMA AllowAgrees ==
  ASSUME PInv, NEW p \in Procs, NEW m \in Mems, NEW c \in Checkouts, Allow(p, m, c)
  PROVE  ~Refreshes[p].on /\ Public!Agree(p, m, c)
<1>1. /\ task'[p] = [step |-> "promote", create |-> TRUE, m |-> m, at |-> c, rows |-> {}]
      /\ OthersWait(p)
  BY Begun DEF Allow, PInv, AInv, IInv
<1>2. RefreshOf(task[p]) = Public!Resting
  BY AtRest DEF Allow, AtStep, PInv, IdlePublishesNothing
<1>3. RefreshOf(task'[p]) = [on |-> TRUE, share |-> TRUE, ready |-> FALSE, m |-> m, at |-> c,
                             took |-> {}]
  <2> DEFINE t == task'[p]
  <2>1. t.create /\ t.create = TRUE /\ t.step = "promote" /\ t.m = m /\ t.at = c
    BY <1>1
  <2> HIDE DEF t
  <2>2. RefreshOf(t) = [on |-> TRUE, share |-> t.create, ready |-> FALSE, m |-> t.m, at |-> t.at,
                        took |-> {}]
    BY <2>1, NotReady
  <2> QED
    BY <2>1, <2>2 DEF t
<1>4. Public!Starts(p, TRUE, m, c)
  BY <1>1, <1>2, <1>3, Remapped DEF Public!Starts
<1>5. ~Refreshes[p].on
  BY <1>1, <1>2, Remapped DEF Public!Resting
<1> QED
  BY <1>4, <1>5 DEF Public!Agree, Allow

(* The tombstone is committed: nothing is refreshed yet.                   *)
LEMMA ForgetStutters ==
  ASSUME PInv, NEW p \in Procs, NEW m \in Mems, NEW c \in Checkouts, Forget(p, m, c)
  PROVE  UNCHANGED <<approved, forgotten, file, Refreshes>>
<1>1. /\ task'[p] = [step |-> "look", create |-> FALSE, m |-> m, at |-> c, rows |-> {}]
      /\ OthersWait(p)
  BY Begun DEF Forget, PInv, AInv, IInv
<1>2. RefreshOf(task[p]) = Public!Resting
  BY AtRest DEF Forget, AtStep, PInv, IdlePublishesNothing
<1>3. RefreshOf(task'[p]) = Public!Resting
  BY <1>1 DEF RefreshOf, Public!Resting
<1> QED
  BY <1>1, <1>2, <1>3, Remapped DEF Forget

(* A look that finds nothing to maintain, and one that does.               *)
LEMMA LookStep ==
  ASSUME PInv, NEW p \in Procs, LookForFile(p)
  PROVE  Public!Next \/ UNCHANGED <<approved, forgotten, file, Refreshes>>
<1> USE DEF PInv, AInv, IInv
<1>1. task[p].m \in Mems /\ task[p].at \in Checkouts /\ task[p].step = "look"
  BY NamedAtWork DEF LookForFile, AtStep
<1>2. CASE ~IsMine(p) /\ Ends(p) /\ Reports(p)
  <2>1. ~task[p].create /\ ~file[task[p].at].there
    BY <1>2 DEF IsMine
  <2>2. RefreshOf(task[p]) = Public!Resting
    BY <1>1, <2>1, AtRest
  <2>3. Refreshes[p] = Public!Resting /\ Refreshes' = Refreshes
    BY <1>2, <2>2, EndedRests, Remapped
  <2>4. forgotten' = forgotten \cup {<<task[p].m, task[p].at>>} /\ approved' = approved /\ file' = file
    BY <1>2, <2>1 DEF Reports, LookForFile
  <2>5. Public!FindNone(p, task[p].m, task[p].at) /\ ~Refreshes[p].on
    BY <2>1, <2>3, <2>4 DEF Public!FindNone, Public!Resting
  <2> QED
    BY <1>1, <2>5 DEF Public!Next, Public!Begin
<1>3. CASE IsMine(p) /\ Goes(p, "read") /\ Unremembered
  <2>1. /\ SameTask(p) /\ OthersWait(p) /\ task'[p].step = "read"
    BY <1>3, GoneOn
  <2>2. UNCHANGED <<approved, forgotten, file>>
    BY <1>3 DEF LookForFile, Unremembered
  <2>3. RefreshOf(task'[p]) = [on |-> TRUE, share |-> task[p].create, ready |-> FALSE,
                               m |-> task[p].m, at |-> task[p].at, took |-> {}]
    BY <2>1, NotReady DEF SameTask
  <2>4. CASE task[p].create
    <3>1. RefreshOf(task[p]) = [on |-> TRUE, share |-> task[p].create, ready |-> FALSE,
                                m |-> task[p].m, at |-> task[p].at, took |-> {}]
      BY <1>1, <2>4, NotReady
    <3> QED
      BY <2>1, <2>2, <2>3, <3>1, Remapped
  <2>5. CASE ~task[p].create
    <3>1. file[task[p].at].there
      BY <1>3, <2>5 DEF IsMine
    <3>2. Refreshes[p] = Public!Resting
      BY <1>1, <2>1, <2>5, AtRest, Remapped
    <3>3. task[p].create = FALSE
      BY <2>5 DEF TypeOK, Task
    <3>4. Public!Starts(p, FALSE, task[p].m, task[p].at)
      BY <2>1, <2>3, <3>2, <3>3, Remapped DEF Public!Starts
    <3>5. Public!Find(p, task[p].m, task[p].at)
      BY <2>2, <3>1, <3>4 DEF Public!Find
    <3>6. ~Refreshes[p].on
      BY <3>2 DEF Public!Resting
    <3> QED
      BY <1>1, <3>5, <3>6 DEF Public!Next, Public!Begin
  <2> QED
    BY <2>4, <2>5
<1> QED
  BY <1>2, <1>3 DEF LookForFile

(* Whatever the SELECT finds may stand in the file then.                   *)
LEMMA ReadTakes ==
  ASSUME PInv, NEW p \in Procs, ReadRows(p)
  PROVE  Refreshes[p].on /\ Public!Take(p)
<1> USE DEF PInv, AInv, IInv
<1>1. /\ SameTask(p) /\ OthersWait(p)
      /\ task'[p].step = "write" /\ task'[p].rows = Projectable /\ task[p].step = "read"
  BY HasRead DEF ReadRows, AtStep
<1>2. task[p].at \in Checkouts
  BY <1>1, NamedAtWork DEF AtStep
<1>3. Projectable \subseteq Public!Lawful(task[p].at)
  <2>1. ASSUME NEW m \in Projectable PROVE <<m, task[p].at>> \notin forgotten
    BY <1>2 DEF Projectable, Tombstoned, Is
  <2> QED
    BY <2>1, ProjectableApproved DEF Public!Lawful
<1>4. RefreshOf(task[p]) = [on |-> TRUE, share |-> task[p].create, ready |-> FALSE,
                            m |-> task[p].m, at |-> task[p].at, took |-> {}]
  BY <1>1, NotReady
<1>5. RefreshOf(task'[p]) = [on |-> TRUE, share |-> task[p].create, ready |-> TRUE,
                             m |-> task[p].m, at |-> task[p].at, took |-> Projectable]
  <2> DEFINE t == task'[p]
  <2>1. /\ t.create = task[p].create /\ t.m = task[p].m /\ t.at = task[p].at
        /\ t.rows = Projectable /\ t.step = "write"
    BY <1>1 DEF SameTask
  <2> HIDE DEF t
  <2>2. RefreshOf(t) = [on |-> TRUE, share |-> t.create, ready |-> TRUE, m |-> t.m, at |-> t.at,
                        took |-> t.rows]
    BY <2>1, Ready
  <2> QED
    BY <2>1, <2>2 DEF t
<1>6. RefreshOf(task'[p]) = [Refreshes[p] EXCEPT !.ready = TRUE, !.took = Projectable]
  <2> DEFINE r == [Refreshes[p] EXCEPT !.ready = TRUE, !.took = Projectable]
             share == task[p].create
             m == task[p].m
             c == task[p].at
             says == Projectable
  <2>1. Refreshes[p] = [on |-> TRUE, share |-> share, ready |-> FALSE, m |-> m, at |-> c, took |-> {}]
    BY <1>4 DEF Refreshes
  <2>2. RefreshOf(task'[p]) =
          [on |-> TRUE, share |-> share, ready |-> TRUE, m |-> m, at |-> c, took |-> says]
    BY <1>5
  <2>3. r = [Refreshes[p] EXCEPT !.ready = TRUE, !.took = says]
    OBVIOUS
  <2> HIDE DEF r, share, m, c, says
  <2>4. Refreshes[p] \in [on : {TRUE}, share : {share}, ready : {FALSE}, m : {m}, at : {c}, took : {{}}]
    BY <2>1
  <2>5. r \in [on : {TRUE}, share : {share}, ready : {TRUE}, m : {m}, at : {c}, took : {says}]
    BY <2>3, <2>4
  <2>6. r = [on |-> TRUE, share |-> share, ready |-> TRUE, m |-> m, at |-> c, took |-> says]
    BY <2>5
  <2> QED
    BY <2>2, <2>6 DEF r
<1>7. /\ Refreshes' = [Refreshes EXCEPT ![p] = [Refreshes[p] EXCEPT !.ready = TRUE, !.took = Projectable]]
      /\ Refreshes[p].on /\ ~Refreshes[p].ready /\ Refreshes[p].at = task[p].at
  BY <1>1, <1>4, <1>6, Remapped
<1>8. UNCHANGED <<approved, forgotten, file>>
  BY DEF ReadRows, Unremembered
<1> QED
  BY <1>3, <1>7, <1>8 DEF Public!Take

(* A statement that touches the file rewrites it from what was taken.      *)
LEMMA WorkRewrites ==
  ASSUME PInv, NEW p \in Procs, AtWork(p)
  PROVE  Public!Rewrite(p) /\ Refreshes[p].on
<1> USE DEF PInv, AInv, IInv
<1> DEFINE c == task[p].at
<1>1. c \in Checkouts /\ task[p].step \in {"write", "put"}
  BY NewContent DEF AtTheFile, AtStep
<1>2. PICK f \in File : Writes(p, f) /\ f.says \subseteq task[p].rows \cup file[c].says
  BY NewContent
<1>3. /\ f = [there |-> f.there, says |-> f.says] /\ f.there \in BOOLEAN
  BY FileFields
<1>4. Refreshes[p] = RefreshOf(task[p])
  BY DEF Refreshes
<1>5. /\ Refreshes[p].on /\ Refreshes[p].ready
      /\ Refreshes[p].at = c /\ Refreshes[p].took = task[p].rows
  BY <1>1, <1>4, AtAFile
<1>6. approved' = approved
  BY DEF AtWork, RemoveFile, OpenFile, WriteFile, WriteFails, Reports, Unremembered
<1>7. file' = [file EXCEPT ![c] = [there |-> f.there, says |-> f.says]]
  BY <1>2, <1>3 DEF Writes
<1>8. \E there \in BOOLEAN, says \in SUBSET (Refreshes[p].took \cup file[c].says) :
        file' = [file EXCEPT ![c] = [there |-> there, says |-> says]]
  BY <1>2, <1>3, <1>5, <1>7
<1> QED
  BY <1>5, <1>6, <1>8 DEF Public!Rewrite

LEMMA WorkStep ==
  ASSUME PInv, NEW p \in Procs, AtWork(p)
  PROVE  Refreshes[p].on /\ (Public!Put(p) \/ Public!Finish(p))
<1> USE DEF PInv, AInv, IInv
<1>1. /\ task[p].step \in {"write", "put"} /\ AtTheFile(p)
  BY NewContent DEF AtTheFile, AtStep
<1>2. CASE OpenFile(p)
  <2>1. /\ SameTask(p) /\ OthersWait(p) /\ task'[p].rows = task[p].rows /\ task'[p].step = "put"
    BY <1>2, GoneOn DEF OpenFile
  <2>2. RefreshOf(task'[p]) = RefreshOf(task[p])
    BY <1>1, <2>1 DEF RefreshOf, SameTask
  <2>3. Refreshes' = Refreshes /\ forgotten' = forgotten
    BY <1>2, <2>1, <2>2, Remapped DEF OpenFile, Unremembered
  <2> QED
    BY <2>3, WorkRewrites DEF Public!Put
<1>3. CASE ~OpenFile(p)
  <2>1. Ends(p)
    BY <1>3 DEF AtWork, RemoveFile, WriteFile, WriteFails
  <2>2. /\ Refreshes[p].m = task[p].m /\ Refreshes[p].at = task[p].at
        /\ Refreshes[p].share = task[p].create /\ Refreshes[p].took = task[p].rows
    BY <1>1, AtAFile DEF Refreshes
  <2>3. CASE forgotten' = forgotten
    BY <2>1, <2>3, WorkRewrites, EndedRests DEF Public!Finish
  <2>4. CASE forgotten' # forgotten
    <3>1. /\ ~task[p].create /\ forgotten' = forgotten \cup {<<task[p].m, task[p].at>>}
      BY <1>3, <2>4 DEF AtWork, RemoveFile, WriteFile, WriteFails, Reports, Unremembered
    <3>2. task[p].m \notin task[p].rows
      BY <1>1, <3>1 DEF WritesOthers
    <3> QED
      BY <2>1, <2>2, <3>1, <3>2, WorkRewrites, EndedRests DEF Public!Finish
  <2> QED
    BY <2>3, <2>4
<1> QED
  BY <1>2, <1>3, WorkRewrites

(* A call that breaks off before the file gives up what it had leave for.  *)
LEMMA BreakOff ==
  ASSUME PInv, NEW p \in Procs, Ends(p), UNCHANGED <<approved, forgotten, file>>
  PROVE  Public!Next \/ UNCHANGED <<approved, forgotten, file, Refreshes>>
<1>1. CASE Refreshes[p].on
  <2>1. Public!GiveUp(p)
    BY <1>1, EndedRests DEF Public!GiveUp
  <2> QED
    BY <1>1, <2>1 DEF Public!Next
<1>2. CASE ~Refreshes[p].on
  <2>1. ~(task[p].create \/ task[p].step \in {"read", "write", "put"})
    BY <1>2, AtAFile DEF Refreshes
  <2>2. RefreshOf(task'[p]) = RefreshOf(task[p]) /\ OthersWait(p)
    BY <2>1, AtRest, EndedRests
  <2> QED
    BY <2>2, Remapped
<1> QED
  BY <1>1, <1>2

LEMMA PublicationStep ==
  ASSUME PInv, [Next]_vars
  PROVE  [Public!Next]_(Public!publication)
<1> SUFFICES Public!Next \/ UNCHANGED <<approved, forgotten, file, Refreshes>>
  BY DEF Public!publication
<1>1. ASSUME NEW p \in Procs, NEW m \in Mems, NEW c \in Checkouts, Call(p, m, c)
      PROVE  Public!Next \/ UNCHANGED <<approved, forgotten, file, Refreshes>>
  <2>1. CASE Allow(p, m, c)
    BY <2>1, AllowAgrees DEF Public!Next, Public!Begin
  <2>2. CASE Forget(p, m, c)
    BY <2>2, ForgetStutters
  <2>3. CASE RequestApproval(p, m, c) \/ Refuse(p, m, c)
    BY <2>3 DEF RequestApproval, Refuse, Unremembered, Refreshes
  <2> QED
    BY <1>1, <2>1, <2>2, <2>3 DEF Call
<1>2. ASSUME NEW p \in Procs, Write(p)
      PROVE  UNCHANGED <<approved, forgotten, file, Refreshes>>
  BY <1>2 DEF Write, Propose, Curate, Unremembered, Refreshes
<1>3. ASSUME NEW p \in Procs, Statement(p)
      PROVE  Public!Next \/ UNCHANGED <<approved, forgotten, file, Refreshes>>
  <2>1. CASE Promote(p)
    <3>1. /\ SameTask(p) /\ OthersWait(p) /\ task'[p].step = "look" /\ task[p].step = "promote"
      BY <2>1, GoneOn DEF Promote, AtStep, PInv, AInv, IInv
    <3>2. RefreshOf(task'[p]) = RefreshOf(task[p])
      BY <3>1 DEF RefreshOf, SameTask
    <3> QED
      BY <2>1, <3>1, <3>2, Remapped DEF Promote, Unremembered
  <2>2. CASE PromoteFails(p) \/ Crash(p)
    BY <2>2, BreakOff DEF PromoteFails, Crash, Unremembered
  <2>3. CASE LookForFile(p)
    BY <2>3, LookStep
  <2>4. CASE ReadRows(p)
    BY <2>4, ReadTakes DEF Public!Next
  <2>5. CASE AtWork(p)
    BY <2>5, WorkStep DEF Public!Next
  <2> QED
    BY <1>3, <2>1, <2>2, <2>3, <2>4, <2>5 DEF Statement, AtWork
<1>4. CASE UNCHANGED vars
  BY <1>4 DEF vars, Refreshes
<1> QED
  BY <1>1, <1>2, <1>3, <1>4 DEF Next

(* Answers, promotions, looks, reads and rewrites of any number of         *)
(* processes, and whatever breaks off between them, are publications: what *)
(* a file is to say is taken in the instant of the read, of what is agreed *)
(* to and not withdrawn then.                                              *)
THEOREM PublicationImplemented == Spec => PublicationSpec
<1>1. Init => PInv
  BY InitAInv DEF PInv, IdlePublishesNothing, Init, NoTask, AtStep
<1>2. Init => Public!Init
  <2> SUFFICES ASSUME Init PROVE Public!Init
    OBVIOUS
  <2>1. Refreshes = [p \in Procs |-> Public!Resting]
    BY AtRest, EmptyTask DEF Init, Refreshes
  <2> QED
    BY <2>1 DEF Init, NoFile, Public!Init
<1> QED
  BY <1>1, <1>2, StepPInv, PublicationStep, PTL DEF Spec, PublicationSpec, Public!Spec
=============================================================================
