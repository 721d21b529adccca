------------------------------ MODULE StoreFile ------------------------------
(* What a store file promises to whoever has it open, with processes, locks,   *)
(* transactions, schemas and crashes left out: it changes in two ways only.    *)
(* An upgrade takes a file of ours, or an empty one, to a later version in one *)
(* instant and touches nothing a person stored; a write adds a memory together *)
(* with its evidence, and retires what was derived without it.                 *)
EXTENDS Naturals

CONSTANTS Rows,          \* ids of memories
          Newest,        \* the last version
          RetiresFrom    \* the version that made writes retire the derived rows

VARIABLES place,         \* the kind its place in the directory stands for
          brand, version, kind,
          raw, derived,  \* ids of the memories of either sort
          cited          \* the memories with evidence behind them

file == <<place, brand, version, kind, raw, derived, cited>>

Kinds == {"repo", "global"}

Init == /\ place \in Kinds
        /\ brand \in {"none", "ours", "foreign"}
        /\ version \in Nat
        /\ kind \in Kinds \cup {"none"}
        /\ raw \in SUBSET Rows /\ derived \in SUBSET Rows /\ cited \in SUBSET Rows

\* A file is marked with its kind once, by its place, and with its brand and version together.
Upgrade(t) ==
  /\ brand = "ours" \/ (brand = "none" /\ version = 0)
  /\ version < t
  /\ brand' = "ours" /\ version' = t
  /\ kind' = IF kind # "none" THEN kind ELSE IF t < 3 THEN "none" ELSE place
  /\ UNCHANGED <<place, raw, derived, cited>>

Remember(r) ==
  /\ brand = "ours" /\ version <= Newest /\ kind = place
  /\ r \notin raw \cup derived
  /\ raw' = raw \cup {r} /\ cited' = cited \cup {r}
  /\ derived' = IF version >= RetiresFrom THEN {} ELSE derived
  /\ UNCHANGED <<place, brand, version, kind>>

Next == \/ \E t \in 1..Newest : Upgrade(t)
        \/ \E r \in Rows : Remember(r)

Spec == Init /\ [][Next]_file
=============================================================================
