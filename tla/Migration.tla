----------------------------- MODULE Migration -----------------------------
(* Opening one store file from several processes: StoreRegistry.open and the   *)
(* migration protocol behind it (store/store.ts, store/schema.ts, store/tx.ts).*)
(* The committed file is `store`; a migrating process works on a copy until it *)
(* commits, so a crash or a throw leaves the committed file as it was.  Tables *)
(* and columns are named by the version that adds them; the triggers of one    *)
(* family, always created and dropped together, are one entry of `triggers`.   *)
EXTENDS Naturals, FiniteSets

CONSTANTS Procs,         \* processes, each with one registry
          Rows,          \* ids of memories
          Targets,       \* versions a caller migrates to
          FirstStores,   \* files the behaviours start from
          Retries,       \* IMMEDIATE_TX_RETRIES
          NULL

TargetVersion == 12      \* TARGET_USER_VERSION
Versions == 1..TargetVersion

ASSUME TargetsAssumption == Targets \subseteq Versions
ASSUME RetriesAssumption == Retries \in Nat
ASSUME NullAssumption == NULL \notin Procs

Kinds == {"repo", "global"}
RowStates == {"none", "raw", "derived", "contradicts"}
Families == {"fts", "repo", "visibility", "dormant", "status", "invalidate"}
Texts == {"none", "on", "external", "owned", "any", "source"}
Files == [brand : {"none", "ours", "foreign"}, version : 0..TargetVersion + 1,
          kind : Kinds \cup {"none"}, wal : BOOLEAN,
          index : {"none", "external", "owned"},
          derived : {"none", "boolean", "layers", "checked"},
          triggers : [Families -> Texts],
          features : SUBSET Versions,
          rows : [Rows -> RowStates], cited : SUBSET Rows, indexed : SUBSET Rows]

(***************************************************************************)
(* What a version's schema looks like.                                     *)
(***************************************************************************)

\* Versions whose step adds a table or a column that stays.
Additive == {2, 3, 4, 8}

\* The triggers a release left behind when version n was its newest.
EraTriggers(n) ==
  [f \in Families |->
     CASE f = "fts"        -> IF n = 0 THEN "none" ELSE IF n < 9 THEN "external" ELSE "owned"
       [] f = "repo"       -> IF n \in 1..2 THEN "on" ELSE "none"
       [] f = "visibility" -> IF n >= 3 THEN "on" ELSE "none"
       [] f = "dormant"    -> IF n \in 4..10 THEN "on" ELSE "none"
       [] f = "status"     -> IF n >= 11 THEN "on" ELSE "none"
       [] f = "invalidate" -> IF n < 5 THEN "none" ELSE IF n < 12 THEN "any" ELSE "source"]

\* The same version reached through a rebuild of this release, which installs the live set.
RebuiltTriggers(n) ==
  [EraTriggers(n) EXCEPT !["dormant"] = "none", !["status"] = "on", !["invalidate"] = "source"]

TriggerSets(n) == {EraTriggers(n)} \cup (IF n \in 6..11 THEN {RebuiltTriggers(n)} ELSE {})

IndexOf(n) == IF n = 0 THEN "none" ELSE IF n < 9 THEN "external" ELSE "owned"
DerivedOf(n) == IF n < 4 THEN "none" ELSE IF n < 7 THEN "boolean"
                ELSE IF n < 10 THEN "layers" ELSE "checked"

Present(s) == {r \in Rows : s.rows[r] # "none"}
Raw(s) == {r \in Rows : s.rows[r] = "raw"}
Contradicts(s) == \E r \in Rows : s.rows[r] = "contradicts"

\* A file whose content is what its version says.
IsSchema(s, n) ==
  /\ s.triggers \in TriggerSets(n)
  /\ s.index = IndexOf(n)
  /\ s.derived = DerivedOf(n)
  /\ s.features = {v \in Additive : v <= n}
  /\ (s.kind = "none") <=> (n < 3)
  /\ s.indexed = Present(s)
  /\ s.cited \subseteq Raw(s)
  /\ n = 0 => Present(s) = {}
  /\ n < 4 => Present(s) = Raw(s)
  /\ n >= 10 => ~Contradicts(s)

\* A file some release left behind, or one that is no store of ours.
HistoricFile(s) ==
  /\ s \in Files
  /\ s.brand = "ours" => s.version > 0
  /\ s.brand = "ours" /\ s.version <= TargetVersion => IsSchema(s, s.version)
  /\ s.brand = "none" /\ s.version = 0 => IsSchema(s, 0)
ASSUME FirstStoresAssumption == \A s \in FirstStores : HistoricFile(s)

(***************************************************************************)
(* The migration steps.                                                    *)
(***************************************************************************)

Added(s, v) == [s EXCEPT !.features = @ \cup {v}]
Trigger(s, family, text) == [s EXCEPT !.triggers = [@ EXCEPT ![family] = text]]
RefillFtsIndex(s) == [s EXCEPT !.indexed = Present(s)]

\* The FTS triggers follow the shape the index has at that moment.
LiveTriggers(index) ==
  [f \in Families |->
     CASE f = "fts"                      -> index
       [] f \in {"visibility", "status"} -> "on"
       [] f = "invalidate"               -> "source"
       [] OTHER                          -> "none"]
CreateMemoryTriggers(s) == [s EXCEPT !.triggers = LiveTriggers(s.index)]

\* DROP TABLE takes the triggers with it, and the evidence too when foreign keys are enforced.
DropTable(s, fk) == [s EXCEPT !.cited = IF fk THEN {} ELSE @]
RebuildMemories(s, fk, derived) ==
  CreateMemoryTriggers(RefillFtsIndex([DropTable(s, fk) EXCEPT !.derived = derived]))

MigrateV1(s) == Trigger(Trigger([s EXCEPT !.index = "external"], "fts", "external"), "repo", "on")
MigrateV2(s) == Added(s, 2)
MigrateV3(s, kind) ==
  Trigger(Trigger([Added(s, 3) EXCEPT !.kind = IF @ = "none" THEN kind ELSE @], "repo", "none"),
          "visibility", "on")
MigrateV4(s) == Trigger([Added(s, 4) EXCEPT !.derived = "boolean"], "dormant", "on")
MigrateV5(s) == Trigger(s, "invalidate", "any")
MigrateV6(s, fk) == RebuildMemories(s, fk, "boolean")
MigrateV7(s, fk) == RebuildMemories(s, fk, "layers")
MigrateV8(s) == Added(s, 8)
MigrateV9(s) == RefillFtsIndex(Trigger([s EXCEPT !.index = "owned"], "fts", "owned"))
MigrateV10(s, fk) == RebuildMemories(s, fk, "checked")
MigrateV11(s) == Trigger(Trigger(s, "dormant", "none"), "status", "on")
MigrateV12(s) == Trigger(s, "invalidate", "source")

(* Mutant: v11 with a bare DROP of the name a rebuild has already retired.  *)
BareDropsV11(v) == CASE v = 3 -> {"repo"} [] v = 9 -> {"fts"} [] v = 11 -> {"dormant"}
                     [] v = 12 -> {"invalidate"} [] OTHER -> {}

\* Triggers a step drops by a bare DROP TRIGGER, which throws if one is not there.
BareDrops(v) == CASE v = 3 -> {"repo"} [] v = 9 -> {"fts"} [] v = 12 -> {"invalidate"} [] OTHER -> {}

\* Triggers a step creates without having dropped them first.
FreshCreates(v) == CASE v = 1 -> {"fts", "repo"} [] v = 3 -> {"visibility"} [] v = 4 -> {"dormant"}
                     [] v = 5 -> {"invalidate"} [] OTHER -> {}

\* A statement of step v throws on s: a trigger that is missing or there already, the CHECK the
\* copied rows must meet, a table or column that exists, a column the copy names and lacks.
StepThrows(v, s) ==
  \/ \E f \in BareDrops(v) : s.triggers[f] = "none"
  \/ \E f \in FreshCreates(v) : s.triggers[f] # "none"
  \/ v = 10 /\ Contradicts(s)
  \/ v \in Additive /\ v \in s.features
  \/ v \in {6, 7, 10} /\ ~({2, 4} \subseteq s.features)

Step(v, s, kind, fk) ==
  CASE v = 1  -> MigrateV1(s)
    [] v = 2  -> MigrateV2(s)
    [] v = 3  -> MigrateV3(s, kind)
    [] v = 4  -> MigrateV4(s)
    [] v = 5  -> MigrateV5(s)
    [] v = 6  -> MigrateV6(s, fk)
    [] v = 7  -> MigrateV7(s, fk)
    [] v = 8  -> MigrateV8(s)
    [] v = 9  -> MigrateV9(s)
    [] v = 10 -> MigrateV10(s, fk)
    [] v = 11 -> MigrateV11(s)
    [] v = 12 -> MigrateV12(s)

(***************************************************************************)
(* Processes opening the file.                                             *)
(***************************************************************************)

VARIABLES store,   \* the committed file
          path,    \* the kind its place in the directory stands for
          lock,    \* the process inside BEGIN IMMEDIATE, or NULL
          proc,    \* where each process is
          outcome, \* how the last attempt to open ended
          ran      \* how often each step was committed (history)
vars == <<store, path, lock, proc, outcome, ran>>

Phases == {"closed", "journal", "begin", "steps", "verify", "note", "open", "disposed"}
Outcomes == {"none", "foreign", "unbranded", "newer", "threw", "unsound", "busy", "kind", "opened"}
Closed == [phase |-> "closed", target |-> TargetVersion, attempt |-> 0, at |-> 0,
           note |-> FALSE, fk |-> TRUE, work |-> NULL]

TypeOK ==
  /\ store \in Files
  /\ path \in Kinds
  /\ lock \in Procs \cup {NULL}
  /\ proc \in [Procs -> [phase : Phases, target : Targets \cup {TargetVersion},
                         attempt : 0..Retries, at : 0..TargetVersion, note : BOOLEAN,
                         fk : BOOLEAN, work : Files \cup {NULL}]]
  /\ outcome \in [Procs -> Outcomes]
  /\ ran \in [Versions -> Nat]

Init ==
  /\ store \in FirstStores
  /\ path \in IF store.kind = "none" /\ store.version > 0 THEN {"repo"} ELSE Kinds
  /\ lock = NULL
  /\ proc = [p \in Procs |-> Closed]
  /\ outcome = [p \in Procs |-> "none"]
  /\ ran = [v \in Versions |-> IF v <= store.version THEN 1 ELSE 0]

\* open() throws: the connection is closed and the registry keeps nothing.
Refuse(p, why) ==
  /\ proc' = [proc EXCEPT ![p] = Closed]
  /\ outcome' = [outcome EXCEPT ![p] = why]

\* The process goes on to a phase, where its attempts at the lock are counted anew.
Enter(q, phase, fk, at, work) ==
  [phase |-> phase, target |-> q.target, attempt |-> 0, at |-> at, note |-> q.note,
   fk |-> fk, work |-> work]

\* The registry does not hold the store yet, and is not disposed.
Open(p) ==
  /\ proc[p].phase = "closed"
  /\ \E t \in Targets, note \in BOOLEAN :
       proc' = [proc EXCEPT ![p] = Enter([target |-> t, note |-> note], "journal", TRUE, 0, NULL)]
  /\ outcome' = [outcome EXCEPT ![p] = "none"]
  /\ UNCHANGED <<store, path, lock, ran>>

(* Mutant: a lost race is not counted.                                      *)
SameTry(a) == a
NextTry(a) == a + 1

\* The lock race of attempt 0..Retries is lost: back off, or give up and throw.
LoseRace(p) ==
  /\ proc[p].phase \in {"journal", "begin", "note"}
  /\ proc[p].phase = "journal" => ~store.wal
  /\ lock # NULL
  /\ IF proc[p].attempt < Retries
       THEN /\ proc' = [proc EXCEPT ![p].attempt = NextTry(@)]
            /\ UNCHANGED outcome
       ELSE Refuse(p, "busy")
  /\ UNCHANGED <<store, path, lock, ran>>

(* Mutant: foreign keys stay on while the steps run.                        *)
ForeignKeysLeftOn == TRUE

\* Foreign keys are switched off outside the transaction, where the pragma has an effect.
ForeignKeysWhileMigrating == FALSE

\* A file that is in WAL mode needs no lock to stay there.
SwitchJournal(p) ==
  /\ proc[p].phase = "journal"
  /\ store.wal \/ lock = NULL
  /\ store' = [store EXCEPT !.wal = TRUE]
  /\ proc' = [proc EXCEPT ![p] = Enter(@, "begin", ForeignKeysWhileMigrating, 0, NULL)]
  /\ UNCHANGED <<path, lock, outcome, ran>>

\* The version checks, made under the lock.
Refusal(s, target) ==
  IF s.brand = "foreign" THEN "foreign"
  ELSE IF s.brand = "none" /\ s.version # 0 THEN "unbranded"
  ELSE IF s.version > target THEN "newer" ELSE "none"

(* Mutant: the migration starts without the write lock.                     *)
LockIgnored(p) == TRUE
LockFree(p) == lock = NULL

BeginImmediate(p) ==
  /\ proc[p].phase = "begin"
  /\ LockFree(p)
  /\ LET why == Refusal(store, proc[p].target) IN
     \/ /\ why # "none"
        /\ Refuse(p, why)
        /\ UNCHANGED lock
     \/ /\ why = "none"
        /\ store.version = proc[p].target
        /\ proc' = [proc EXCEPT ![p] = Enter(@, "verify", TRUE, 0, NULL)]
        /\ UNCHANGED <<lock, outcome>>
     \/ /\ why = "none"
        /\ store.version # proc[p].target
        /\ lock' = p
        /\ proc' = [proc EXCEPT ![p] = Enter(@, "steps", @.fk, store.version, store)]
        /\ UNCHANGED outcome
  /\ UNCHANGED <<store, path, ran>>

RollBack(p, why) == Refuse(p, why) /\ lock' = NULL

MigrateStep(p) ==
  /\ proc[p].phase = "steps"
  /\ proc[p].at < proc[p].target
  /\ LET v == proc[p].at + 1  s == proc[p].work IN
     IF StepThrows(v, s)
       THEN RollBack(p, "threw")
       ELSE /\ proc' = [proc EXCEPT ![p] = Enter(@, "steps", @.fk, v, Step(v, s, path, @.fk))]
            /\ UNCHANGED <<lock, outcome>>
  /\ UNCHANGED <<store, path, ran>>

\* foreign_key_check and the index check before the stamp.
IsSound(s) == s.cited \subseteq Present(s) /\ Present(s) \subseteq s.indexed

(* Mutant: the brand is written, the version is not.                        *)
StampBrandOnly(s, target) == [s EXCEPT !.brand = "ours"]
Stamp(s, target) == [s EXCEPT !.brand = "ours", !.version = target]

Commit(p) ==
  /\ proc[p].phase = "steps"
  /\ proc[p].at = proc[p].target
  /\ IF ~IsSound(proc[p].work)
       THEN RollBack(p, "unsound") /\ UNCHANGED <<store, ran>>
       ELSE /\ store' = Stamp(proc[p].work, proc[p].target)
            /\ ran' = [v \in Versions |-> IF proc[p].work.version < v /\ v <= proc[p].target
                                            THEN ran[v] + 1 ELSE ran[v]]
            /\ lock' = NULL
            /\ proc' = [proc EXCEPT ![p] = Enter(@, "verify", TRUE, 0, NULL)]
            /\ UNCHANGED outcome
  /\ UNCHANGED path

\* A file stamped with the other kind is refused, after its migration has been committed.
VerifyKind(p) ==
  /\ proc[p].phase = "verify"
  /\ IF store.kind # path
       THEN Refuse(p, "kind")
       ELSE /\ proc' = [proc EXCEPT ![p] = Enter(@, IF @.note THEN "note" ELSE "open",
                                                         @.fk, 0, NULL)]
            /\ outcome' = [outcome EXCEPT ![p] = IF proc[p].note THEN "none" ELSE "opened"]
  /\ UNCHANGED <<store, path, lock, ran>>

\* The repository's source is noted in a second transaction, with its own attempts.
NoteSource(p) ==
  /\ proc[p].phase = "note"
  /\ lock = NULL
  /\ proc' = [proc EXCEPT ![p] = Enter(@, "open", @.fk, 0, NULL)]
  /\ outcome' = [outcome EXCEPT ![p] = "opened"]
  /\ UNCHANGED <<store, path, lock, ran>>

\* A process with the store open, of whatever release, adds a human's memory with its
\* evidence: the triggers index it and retire the derived layer.
Write(p, r) ==
  /\ proc[p].phase = "open"
  /\ lock = NULL
  /\ store.rows[r] = "none"
  /\ LET retired == IF store.triggers["invalidate"] = "none" THEN {}
                    ELSE {x \in Rows : store.rows[x] \in {"derived", "contradicts"}} IN
     store' = [store EXCEPT
       !.rows = [x \in Rows |-> IF x = r THEN "raw" ELSE IF x \in retired THEN "none" ELSE @[x]],
       !.cited = @ \cup {r},
       !.indexed = (@ \cup {r}) \ retired]
  /\ UNCHANGED <<path, lock, proc, outcome, ran>>

\* dispose() closes the connection; it cannot interrupt open(), which never yields.
Dispose(p) ==
  /\ proc[p].phase \in {"closed", "open"}
  /\ proc' = [proc EXCEPT ![p] = [Closed EXCEPT !.phase = "disposed"]]
  /\ UNCHANGED <<store, path, lock, outcome, ran>>

\* The process dies, in any state, and starts again: SQLite drops its transaction.
Crash(p) ==
  /\ proc[p].phase # "closed"
  /\ proc' = [proc EXCEPT ![p] = Closed]
  /\ outcome' = [outcome EXCEPT ![p] = "none"]
  /\ lock' = IF lock = p THEN NULL ELSE lock
  /\ UNCHANGED <<store, path, ran>>

Advance(p) == SwitchJournal(p) \/ LoseRace(p) \/ BeginImmediate(p) \/ MigrateStep(p)
              \/ Commit(p) \/ VerifyKind(p) \/ NoteSource(p)
Next == \E p \in Procs : \/ Open(p) \/ Advance(p) \/ Dispose(p) \/ Crash(p)
                         \/ \E r \in Rows : Write(p, r)

Spec == Init /\ [][Next]_vars
\* A process that is opening a store runs on without yielding.
FairSpec == Spec /\ \A p \in Procs : WF_vars(Advance(p))

(***************************************************************************)
(* Properties.                                                             *)
(***************************************************************************)

StepsOnce == \A v \in Versions : ran[v] = IF v <= store.version THEN 1 ELSE 0

\* Whatever version the committed file carries, its tables, triggers, index and rows are that
\* version's: nobody ever sees half a migration, on any arrival path (schema.ts:1051-1108).
\* Every step up to it was committed exactly once, however many processes planned the same
\* upgrade: the check is made under the lock (schema.ts:4-9, 1056-1075).
StoreIsConsistent ==
  /\ store.brand = "ours" /\ store.version <= TargetVersion => IsSchema(store, store.version)
  /\ StepsOnce

\* A store a process serves is ours, of the kind its place stands for, at least as new as the
\* process asked for, and carries the whole live trigger set at the target; the connection
\* enforces foreign keys (store.ts:115-190, schema.ts:1035-1055).
ServedStoreSound ==
  \A p \in Procs : proc[p].phase = "open" =>
    /\ store.brand = "ours"
    /\ store.kind = path
    /\ store.version >= proc[p].target
    /\ store.version = TargetVersion => store.triggers = LiveTriggers(store.index)
    /\ Present(store) \subseteq store.indexed
    /\ proc[p].fk

\* No step loses a raw memory, the evidence behind one, or the store's kind: the rebuilds drop a
\* table that evidence cascades from (schema.ts:1018-1025).
NothingLost ==
  [][/\ Raw(store) \subseteq Raw(store')
     /\ store.cited \subseteq store'.cited
     /\ store.kind # "none" => store'.kind = store.kind]_vars

\* The one row content that keeps a store from being upgraded is a derived row with a foreign
\* provenance; no trigger name of any release stands in the way (schema.ts:798-802, 844-852).
StuckOnlyOnContradiction ==
  [][\A p \in Procs : outcome'[p] \in {"threw", "unsound"} /\ outcome[p] # outcome'[p]
       => Contradicts(store) /\ store.version < 10]_vars

\* Opening a store ends, with the store or with a refusal, whoever else holds the lock: the
\* attempts at a busy lock are counted (tx.ts:49-76).
EveryOpenEnds ==
  \A p \in Procs : proc[p].phase \in {"journal", "begin", "steps", "verify", "note"}
                     ~> proc[p].phase \in {"closed", "open", "disposed"}

\* Whoever opens, dies, loses the lock or rolls back, to a reader of the committed file there is
\* nothing but upgrades, each at one instant and none of a file that is not ours, and memories
\* added with their evidence (schema.ts:1030-1108, store.ts:103-190).
View == INSTANCE StoreFile WITH
  Newest <- TargetVersion, RetiresFrom <- 5, place <- path, brand <- store.brand,
  version <- store.version, kind <- store.kind, raw <- Raw(store),
  derived <- {r \in Rows : store.rows[r] \in {"derived", "contradicts"}}, cited <- store.cited

FileSpec == View!Spec

\* What schema.ts:800-802 says of a store whose rows cannot meet v10: it "keeps working on the
\* old schema".
OldSchemaKeepsWorking ==
  \A p \in Procs : outcome[p] = "threw" => proc[p].phase = "open"

=============================================================================
