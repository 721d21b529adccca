------------------------------ MODULE Sharing ------------------------------
(***************************************************************************)
(* What one repository publishes.  A memory a person approves is marked in *)
(* the store, and the checkout's .repo_memory/memories.md is rewritten     *)
(* from the marked rows; forgetting a memory rewrites the file as well     *)
(* (packages/memory/src: service.ts and projection.ts).  The file is       *)
(* outside every transaction, one store has many checkouts, and several    *)
(* processes have the store open.                                          *)
(*                                                                         *)
(* Within a process only an await lets anything else run: from the answer  *)
(* of a person, or the call of forget, to the end of the file's rewrite a  *)
(* process does nothing else.  Other processes act between any two of its  *)
(* statements, those that work in the same checkout too.                   *)
(***************************************************************************)
EXTENDS Naturals, FiniteSets

CONSTANTS Procs,         \* processes with this store open
          Mems,          \* raw memories
          Secrets,       \* those whose text looks like a credential
          Checkouts,     \* work trees of this repository
          ServedBy,      \* [Procs -> SUBSET Checkouts]: a process's sessions
          MaxAsked,      \* bound: approvals one process awaits at a time
          NULL

ASSUME SharingAssumption ==
  /\ Secrets \subseteq Mems
  /\ ServedBy \in [Procs -> SUBSET Checkouts]
  /\ MaxAsked \in Nat \ {0}
  /\ NULL \notin Mems \cup Checkouts

VARIABLES mem,        \* [Mems -> Memory]
          file,       \* [Checkouts -> File]: memories.md
          asked,      \* [Procs -> SUBSET (Mems \X Checkouts)]: approvals awaited
          task,       \* [Procs -> Task]: what the process runs to its end
          approved,   \* history: the memories a person agreed to publish
          told,       \* history: what a share that just returned calls shared
          forgotten,  \* history: what a forget call has refreshed, and where
          overtaken   \* history: what a rewrite had selected when it was forgotten

vars == <<mem, file, asked, task, approved, told, forgotten, overtaken>>

(* `team`: visibility 'team-shareable' and human_confirmed, one statement. *)
Memory == [status : {"none", "active", "dormant", "retired", "tombstone"},
           team : BOOLEAN]

NoFile == [there |-> FALSE, says |-> {}]

File == [there : {TRUE}, says : SUBSET Mems] \cup {NoFile}

Task == [step : {"idle", "promote", "look", "read", "write", "put"}, create : BOOLEAN,
         m : Mems \cup {NULL}, at : Checkouts \cup {NULL}, rows : SUBSET Mems]

NoTask == [step |-> "idle", create |-> FALSE, m |-> NULL, at |-> NULL, rows |-> {}]

Init == /\ mem = [m \in Mems |-> [status |-> "none", team |-> FALSE]]
        /\ file = [c \in Checkouts |-> NoFile]
        /\ asked = [p \in Procs |-> {}]
        /\ task = [p \in Procs |-> NoTask]
        /\ approved = {} /\ told = {} /\ forgotten = {} /\ overtaken = {}

Is(m, st) == mem[m].status = st
AtStep(p, step) == task[p].step = step
AtTheFile(p) == AtStep(p, "write") \/ AtStep(p, "put")
Goes(p, step) == task' = [task EXCEPT ![p].step = step]
Ends(p) == task' = [task EXCEPT ![p] = NoTask]
Unremembered == told' = {} /\ UNCHANGED <<approved, forgotten, overtaken>>

-----------------------------------------------------------------------------
(* Other writers of the store, in a process that is at an await. *)

(* propose; the row it replaces keeps its mark and loses its status.       *)
Propose(p, m, old) ==
  /\ AtStep(p, "idle")
  /\ Is(m, "none")
  /\ old # NULL => Is(old, "active")
  /\ mem' = [n \in Mems |->
       IF n = m THEN [status |-> "active", team |-> FALSE]
       ELSE IF n = old THEN [mem[n] EXCEPT !.status = "retired"]
       ELSE mem[n]]
  /\ UNCHANGED <<file, asked, task>> /\ Unremembered

(* runDecayJob's sleep and revival, runReconcileJob's retirement.          *)
Curate(p, m, st) ==
  /\ AtStep(p, "idle")
  /\ <<mem[m].status, st>> \in {<<"active", "dormant">>, <<"dormant", "active">>,
                                <<"active", "retired">>}
  /\ mem' = [mem EXCEPT ![m].status = st]
  /\ UNCHANGED <<file, asked, task>> /\ Unremembered

-----------------------------------------------------------------------------
(* share. *)

(* From here to Ends the process awaits nothing.                           *)
Begin(p, step, create, m, c) ==
  task' = [task EXCEPT ![p] = [step |-> step, create |-> create, m |-> m, at |-> c,
                               rows |-> {}]]

(* The checks, and the request for approval that is then awaited.          *)
RequestApproval(p, m, c) ==
  /\ AtStep(p, "idle")
  /\ c \in ServedBy[p]
  /\ Is(m, "active") /\ m \notin Secrets
  /\ Cardinality(asked[p]) < MaxAsked
  /\ asked' = [asked EXCEPT ![p] = asked[p] \cup {<<m, c>>}]
  /\ UNCHANGED <<mem, file, task>> /\ Unremembered

(* Any other outcome than 'allowed-once'.                                  *)
Refuse(p, m, c) ==
  /\ AtStep(p, "idle")
  /\ <<m, c>> \in asked[p]
  /\ asked' = [asked EXCEPT ![p] = asked[p] \ {<<m, c>>}]
  /\ UNCHANGED <<mem, file, task>> /\ Unremembered

Allow(p, m, c) ==
  /\ AtStep(p, "idle")
  /\ <<m, c>> \in asked[p]
  /\ asked' = [asked EXCEPT ![p] = asked[p] \ {<<m, c>>}]
  /\ Begin(p, "promote", TRUE, m, c)
  /\ approved' = approved \cup {m}
  /\ told' = {}
  /\ UNCHANGED <<mem, file, forgotten, overtaken>>

(* The guarded UPDATE; if the row is no longer active it matches nothing,  *)
(* and the call goes on to publish.                                        *)
Promote(p) ==
  /\ AtStep(p, "promote")
  /\ mem' = IF Is(task[p].m, "active") THEN [mem EXCEPT ![task[p].m].team = TRUE] ELSE mem
  /\ Goes(p, "look")
  /\ UNCHANGED <<file, asked>> /\ Unremembered

(* The transaction could not begin: share throws.                          *)
PromoteFails(p) ==
  /\ AtStep(p, "promote")
  /\ Ends(p)
  /\ UNCHANGED <<mem, file, asked>> /\ Unremembered

-----------------------------------------------------------------------------
(* The checkouts whose file some process is about to write m into.         *)
Selected(m) == {task[q].at : q \in {q \in Procs : AtTheFile(q) /\ m \in task[q].rows}}

(* forget: the tombstone is committed, then the file is refreshed.         *)
Forget(p, m, c) ==
  /\ AtStep(p, "idle")
  /\ c \in ServedBy[p]
  /\ ~Is(m, "none") /\ ~Is(m, "tombstone")
  /\ mem' = [mem EXCEPT ![m].status = "tombstone"]
  /\ Begin(p, "look", FALSE, m, c)
  /\ overtaken' = overtaken \cup {m} \X Selected(m)
  /\ told' = {}
  /\ UNCHANGED <<file, asked, approved, forgotten>>

-----------------------------------------------------------------------------
(* refreshProjection, statement by statement. *)

(* The call returns; what it reported is history.                          *)
Reports(p) ==
  /\ told' = IF task[p].create THEN {<<task[p].m, task[p].at>>} ELSE {}
  /\ forgotten' = IF task[p].create THEN forgotten
                  ELSE forgotten \cup {<<task[p].m, task[p].at>>}
  /\ UNCHANGED <<approved, overtaken>>

(* Mutant: a refresh that creates the file it is to refresh.               *)
AlwaysMine(p) == TRUE

(* share publishes; forget only maintains a file that exists here.         *)
IsMine(p) == task[p].create \/ file[task[p].at].there

LookForFile(p) ==
  /\ AtStep(p, "look")
  /\ \/ IsMine(p) /\ Goes(p, "read") /\ Unremembered
     \/ ~IsMine(p) /\ Ends(p) /\ Reports(p)
  /\ UNCHANGED <<mem, file, asked>>

(* Mutants: the whitelist without the person's word; the status left out.  *)
ProjectableUnconfirmed == {m \in Mems : Is(m, "active") /\ m \notin Secrets}

ProjectableAnyStatus == {m \in Mems : mem[m].team /\ m \notin Secrets}

(* projectStore's SELECT and its scan for secrets.                         *)
Projectable == {m \in Mems : Is(m, "active") /\ mem[m].team /\ m \notin Secrets}

ReadRows(p) ==
  /\ AtStep(p, "read")
  /\ task' = [task EXCEPT ![p] = [@ EXCEPT !.step = "write", !.rows = Projectable]]
  /\ UNCHANGED <<mem, file, asked>> /\ Unremembered

Writes(p, f) == file' = [file EXCEPT ![task[p].at] = f]

(* Nothing qualifies: the file is removed.                                 *)
RemoveFile(p) ==
  /\ AtStep(p, "write") /\ task[p].rows = {}
  /\ Writes(p, NoFile)
  /\ Ends(p) /\ Reports(p)
  /\ UNCHANGED <<mem, asked>>

(* writeFileSync opens, and so empties, the file and then writes into it.  *)
OpenFile(p) ==
  /\ AtStep(p, "write") /\ task[p].rows # {}
  /\ Writes(p, [there |-> TRUE, says |-> {}])
  /\ Goes(p, "put")
  /\ UNCHANGED <<mem, asked>> /\ Unremembered

(* What the file may say once the rows are written over it: the end of a   *)
(* longer text that another process wrote since the opening stays.  In a   *)
(* file that was removed since, the rows go nowhere.                       *)
Written(p) == IF file[task[p].at].there
              THEN {[there |-> TRUE, says |-> task[p].rows \cup tail] :
                      tail \in SUBSET file[task[p].at].says}
              ELSE {NoFile}

WriteFile(p) ==
  /\ AtStep(p, "put")
  /\ \E f \in Written(p) : Writes(p, f)
  /\ Ends(p) /\ Reports(p)
  /\ UNCHANGED <<mem, asked>>

(* What a rewrite that breaks off may leave: nothing done, the file gone   *)
(* and its directory still there, or a first part.                         *)
Broken(p) == LET old == file[task[p].at] IN
  {f \in File : \/ f = old
                \/ AtStep(p, "write") /\ task[p].rows = {} /\ f = NoFile
                \/ AtStep(p, "put") /\ old.there /\ f.there /\ f.says \subseteq task[p].rows \cup old.says}

(* The error share raises and forget swallows.                             *)
WriteFails(p) ==
  /\ AtTheFile(p)
  /\ \E f \in Broken(p) : Writes(p, f)
  /\ Ends(p)
  /\ UNCHANGED <<mem, asked>> /\ Unremembered

(* The process dies, anywhere but at the write (see WriteFails).           *)
Crash(p) ==
  /\ ~AtTheFile(p)
  /\ asked' = [asked EXCEPT ![p] = {}]
  /\ Ends(p)
  /\ UNCHANGED <<mem, file>> /\ Unremembered

-----------------------------------------------------------------------------
Call(p, m, c) == \/ RequestApproval(p, m, c) \/ Refuse(p, m, c) \/ Allow(p, m, c)
                 \/ Forget(p, m, c)

Statement(p) == \/ Promote(p) \/ PromoteFails(p) \/ LookForFile(p) \/ ReadRows(p)
                \/ RemoveFile(p) \/ OpenFile(p) \/ WriteFile(p) \/ WriteFails(p)
                \/ Crash(p)

Write(p) == \E m \in Mems : \/ \E old \in Mems \cup {NULL} : Propose(p, m, old)
                            \/ \E st \in {"active", "dormant", "retired"} : Curate(p, m, st)

Next == \E p \in Procs : \/ Write(p) \/ Statement(p)
                         \/ \E m \in Mems, c \in Checkouts : Call(p, m, c)

Spec == Init /\ [][Next]_vars

-----------------------------------------------------------------------------
(* Properties. *)

(* Type invariant of the store, the files and the processes.               *)
TypeOK == /\ mem \in [Mems -> Memory]
          /\ file \in [Checkouts -> File]
          /\ asked \in [Procs -> SUBSET (Mems \X Checkouts)]
          /\ task \in [Procs -> Task]
          /\ approved \subseteq Mems
          /\ told \subseteq Mems \X Checkouts
          /\ forgotten \subseteq Mems \X Checkouts
          /\ overtaken \subseteq Mems \X Checkouts

(* The three gates of projection.ts: whatever the checkouts' files say,    *)
(* in whole or broken off, a person agreed to publish, and it is no secret.*)
PublishedWasApproved == \A c \in Checkouts : file[c].says \subseteq approved \ Secrets

(* D5's fourth read surface.  Once forget has returned from its refresh,   *)
(* this checkout's file says the memory only if some rewrite of the file   *)
(* had selected it when its tombstone was committed: no look, no write     *)
(* that breaks off and no later share brings it back, however many         *)
(* processes work in the checkout.                                         *)
ForgottenStaysOut == \A m \in Mems, c \in Checkouts :
  <<m, c>> \in forgotten /\ m \in file[c].says => <<m, c>> \in overtaken

(* What the comments say of it without that exception: the file never says *)
(* the memory again.                                                       *)
ForgottenLeavesTheFile == \A m \in Mems, c \in Checkouts :
                            <<m, c>> \in forgotten => m \notin file[c].says

(* What a task is about to do to a file: to publish in it, or to maintain  *)
(* one that it has found.                                                  *)
RefreshOf(t) ==
  IF t.create \/ t.step \in {"read", "write", "put"}
  THEN [on |-> TRUE, share |-> t.create, ready |-> t.step \in {"write", "put"},
        m |-> t.m, at |-> t.at, took |-> IF t.step \in {"write", "put"} THEN t.rows ELSE {}]
  ELSE [on |-> FALSE, share |-> FALSE, ready |-> FALSE, m |-> NULL, at |-> NULL, took |-> {}]

Refreshes == [p \in Procs |-> RefreshOf(task[p])]

(* The answers of people and the statements of every share and forget of   *)
(* any number of processes, whatever breaks off or dies between them, add  *)
(* up to publications: what is to stand in a file is taken in one instant, *)
(* of what was agreed to and is not withdrawn then, and a file comes into  *)
(* being only by a share or where a forget has found one (guard 3 of       *)
(* refreshProjection).                                                     *)
Public == INSTANCE Publication WITH agreed <- approved, withdrawn <- forgotten,
                                    text <- file, refresh <- Refreshes

PublicationSpec == Public!Spec

(* share never reports "Shared." over a file without the memory.           *)
SharedMeansPublished == \A m \in Mems, c \in Checkouts :
                          <<m, c>> \in told => m \in file[c].says
=============================================================================
