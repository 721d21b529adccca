---------------------------- MODULE MCMigration ----------------------------
(* Instances of Migration: two processes and files of every release.        *)
EXTENDS Migration, TLC

CONSTANTS p1, p2, m1, m2, m3

TwoProcs == {p1, p2}
ThreeRows == {m1, m2, m3}
TwoTargets == {10, TargetVersion}

\* A file of version n: one memory with its evidence, and a second row of state x.
File(n, triggers, kind, x) ==
  LET rows == [r \in ThreeRows |-> CASE r = m1 -> IF n = 0 THEN "none" ELSE "raw"
                                     [] r = m2 -> x [] r = m3 -> "none"]
      there == {r \in ThreeRows : rows[r] # "none"} IN
  [brand |-> IF n = 0 THEN "none" ELSE "ours", version |-> n,
   kind |-> IF n < 3 THEN "none" ELSE kind, wal |-> n > 0,
   index |-> IndexOf(n), derived |-> DerivedOf(n), triggers |-> triggers,
   features |-> {v \in Additive : v <= n}, rows |-> rows,
   cited |-> {r \in ThreeRows : rows[r] = "raw"}, indexed |-> there]

SecondRow(n) == {"none"} \cup (IF n >= 4 THEN {"derived"} ELSE {})
                         \cup (IF n \in 4..9 THEN {"contradicts"} ELSE {})

Ours == UNION {UNION {{File(n, t, k, x) : k \in Kinds, x \in SecondRow(n)} : t \in TriggerSets(n)}
                 : n \in {0, 1, 3, 5, 8, 9, 10, 11, 12}}
Newer == {[File(12, EraTriggers(12), "repo", "none") EXCEPT !.version = 13]}
NotOurs == {[File(12, EraTriggers(12), "repo", "none") EXCEPT !.brand = b] : b \in {"none", "foreign"}}

EveryFile == Ours \cup Newer \cup NotOurs
FewFiles == {File(0, EraTriggers(0), "repo", "none"), File(9, EraTriggers(9), "repo", "contradicts"),
             File(10, RebuiltTriggers(10), "repo", "derived")}

=============================================================================
