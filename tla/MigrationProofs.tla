-------------------------- MODULE MigrationProofs --------------------------
(***************************************************************************)
(* Theorems about Migration, for every set of processes, memories, targets *)
(* and historic files, and every number of retries.                        *)
(***************************************************************************)
EXTENDS Migration, TLAPS

(***************************************************************************)
(* Trigger sets, family by family.                                         *)
(***************************************************************************)

Reads(t, fts, repo, visibility, dormant, status, invalidate) ==
  /\ t \in [Families -> Texts]
  /\ t["fts"] = fts /\ t["repo"] = repo /\ t["visibility"] = visibility
  /\ t["dormant"] = dormant /\ t["status"] = status /\ t["invalidate"] = invalidate

LEMMA ReadAlike ==
  ASSUME NEW t, NEW u, NEW a, NEW b, NEW c, NEW d, NEW e, NEW g,
         Reads(t, a, b, c, d, e, g), Reads(u, a, b, c, d, e, g)
  PROVE  t = u
BY DEF Reads, Families

LEMMA EraReads ==
  /\ Reads(EraTriggers(0), "none", "none", "none", "none", "none", "none")
  /\ Reads(EraTriggers(1), "external", "on", "none", "none", "none", "none")
  /\ Reads(EraTriggers(2), "external", "on", "none", "none", "none", "none")
  /\ Reads(EraTriggers(3), "external", "none", "on", "none", "none", "none")
  /\ Reads(EraTriggers(4), "external", "none", "on", "on", "none", "none")
  /\ \A n \in 5..8 : Reads(EraTriggers(n), "external", "none", "on", "on", "none", "any")
  /\ \A n \in 9..10 : Reads(EraTriggers(n), "owned", "none", "on", "on", "none", "any")
  /\ Reads(EraTriggers(11), "owned", "none", "on", "none", "on", "any")
  /\ Reads(EraTriggers(12), "owned", "none", "on", "none", "on", "source")
BY DEF EraTriggers, Reads, Families, Texts

LEMMA RebuiltReads ==
  /\ \A n \in 6..8 : Reads(RebuiltTriggers(n), "external", "none", "on", "none", "on", "source")
  /\ \A n \in 9..11 : Reads(RebuiltTriggers(n), "owned", "none", "on", "none", "on", "source")
<1>1. ASSUME NEW n, NEW a, NEW b, NEW c, NEW d, NEW e, NEW g, Reads(EraTriggers(n), a, b, c, d, e, g)
      PROVE  Reads(RebuiltTriggers(n), a, b, c, "none", "on", "source")
  <2> DEFINE t == [EraTriggers(n) EXCEPT !["dormant"] = "none"]
             u == [t EXCEPT !["status"] = "on"]
             w == [u EXCEPT !["invalidate"] = "source"]
  <2>1. Reads(t, a, b, c, "none", e, g)
    BY <1>1 DEF Reads, Families, Texts
  <2> HIDE DEF t
  <2>2. Reads(u, a, b, c, "none", "on", g)
    BY <2>1 DEF Reads, Families, Texts
  <2> HIDE DEF u
  <2>3. Reads(w, a, b, c, "none", "on", "source")
    BY <2>2 DEF Reads, Families, Texts
  <2> QED
    BY <2>3 DEF RebuiltTriggers, t, u
<1>2. \A n \in 6..8 : Reads(RebuiltTriggers(n), "external", "none", "on", "none", "on", "source")
  BY <1>1, EraReads
<1>3. \A n \in 9..10 : Reads(RebuiltTriggers(n), "owned", "none", "on", "none", "on", "source")
  BY <1>1, EraReads
<1>4. Reads(RebuiltTriggers(11), "owned", "none", "on", "none", "on", "source")
  BY <1>1, EraReads
<1> QED
  BY <1>2, <1>3, <1>4

LEMMA LiveReads ==
  ASSUME NEW x \in {"none", "external", "owned"}
  PROVE  Reads(LiveTriggers(x), x, "none", "on", "none", "on", "source")
BY DEF LiveTriggers, Reads, Families, Texts

(***************************************************************************)
(* What the parts of a step leave alone.                                   *)
(***************************************************************************)

SameRows(r, s) == r.rows = s.rows /\ r.cited = s.cited
SameStamp(r, s) == r.brand = s.brand /\ r.version = s.version /\ r.wal = s.wal

LEMMA AddedIs ==
  ASSUME NEW s \in Files, NEW v \in Versions
  PROVE  LET r == Added(s, v) IN
         /\ r \in Files /\ SameRows(r, s) /\ SameStamp(r, s)
         /\ r.kind = s.kind /\ r.index = s.index /\ r.derived = s.derived
         /\ r.triggers = s.triggers /\ r.indexed = s.indexed
         /\ r.features = s.features \cup {v}
BY DEF Added, Files, SameRows, SameStamp

LEMMA TriggerIs ==
  ASSUME NEW s \in Files, NEW f \in Families, NEW x \in Texts
  PROVE  LET r == Trigger(s, f, x) IN
         /\ r \in Files /\ SameRows(r, s) /\ SameStamp(r, s)
         /\ r.kind = s.kind /\ r.index = s.index /\ r.derived = s.derived
         /\ r.features = s.features /\ r.indexed = s.indexed
         /\ r.triggers = [s.triggers EXCEPT ![f] = x]
BY DEF Trigger, Files, SameRows, SameStamp

LEMMA IndexIs ==
  ASSUME NEW s \in Files, NEW x \in {"none", "external", "owned"}
  PROVE  LET r == [s EXCEPT !.index = x] IN
         /\ r \in Files /\ SameRows(r, s) /\ SameStamp(r, s)
         /\ r.kind = s.kind /\ r.derived = s.derived /\ r.triggers = s.triggers
         /\ r.features = s.features /\ r.indexed = s.indexed
         /\ r.index = x
BY DEF Files, SameRows, SameStamp

LEMMA DerivedIs ==
  ASSUME NEW s \in Files, NEW x \in {"none", "boolean", "layers", "checked"}
  PROVE  LET r == [s EXCEPT !.derived = x] IN
         /\ r \in Files /\ SameRows(r, s) /\ SameStamp(r, s)
         /\ r.kind = s.kind /\ r.index = s.index /\ r.triggers = s.triggers
         /\ r.features = s.features /\ r.indexed = s.indexed
         /\ r.derived = x
BY DEF Files, SameRows, SameStamp

LEMMA RefillIs ==
  ASSUME NEW s \in Files
  PROVE  LET r == RefillFtsIndex(s) IN
         /\ r \in Files /\ SameRows(r, s) /\ SameStamp(r, s)
         /\ r.kind = s.kind /\ r.index = s.index /\ r.derived = s.derived
         /\ r.triggers = s.triggers /\ r.features = s.features
         /\ r.indexed = Present(s)
BY DEF RefillFtsIndex, Present, Files, SameRows, SameStamp

(* With foreign keys off a rebuild keeps every row and all evidence, and     *)
(* installs the live triggers whatever was there.                          *)
LEMMA RebuildIs ==
  ASSUME NEW s \in Files, NEW x \in {"boolean", "layers", "checked"}
  PROVE  LET r == RebuildMemories(s, FALSE, x) IN
         /\ r \in Files /\ SameRows(r, s) /\ SameStamp(r, s)
         /\ r.kind = s.kind /\ r.index = s.index /\ r.features = s.features
         /\ r.derived = x /\ r.indexed = Present(s) /\ r.triggers = LiveTriggers(s.index)
<1> DEFINE t == DropTable(s, FALSE)
           u == [t EXCEPT !.derived = x]
           w == RefillFtsIndex(u)
           r == CreateMemoryTriggers(w)
<1>1. /\ t \in Files /\ SameRows(t, s) /\ SameStamp(t, s)
      /\ t.kind = s.kind /\ t.index = s.index /\ t.derived = s.derived
      /\ t.triggers = s.triggers /\ t.features = s.features /\ t.indexed = s.indexed
  BY DEF DropTable, Files, SameRows, SameStamp
<1> HIDE DEF t
<1>2. /\ u \in Files /\ SameRows(u, s) /\ SameStamp(u, s)
      /\ u.kind = s.kind /\ u.index = s.index /\ u.features = s.features /\ u.derived = x
  BY <1>1 DEF Files, SameRows, SameStamp
<1> HIDE DEF u
<1>3. /\ w \in Files /\ SameRows(w, s) /\ SameStamp(w, s)
      /\ w.kind = s.kind /\ w.index = s.index /\ w.features = s.features /\ w.derived = x
      /\ w.indexed = Present(s)
  BY <1>2, RefillIs DEF SameRows, SameStamp, Present
<1> HIDE DEF w
<1>4. LiveTriggers(s.index) \in [Families -> Texts]
  <2>1. s.index \in {"none", "external", "owned"}
    BY DEF Files
  <2> QED
    BY <2>1, LiveReads DEF Reads
<1>5. /\ r \in Files /\ SameRows(r, s) /\ SameStamp(r, s)
      /\ r.kind = s.kind /\ r.index = s.index /\ r.features = s.features /\ r.derived = x
      /\ r.indexed = Present(s) /\ r.triggers = LiveTriggers(s.index)
  BY <1>3, <1>4 DEF CreateMemoryTriggers, Files, SameRows, SameStamp
<1> QED
  BY <1>5 DEF RebuildMemories, r, w, u, t

(***************************************************************************)
(* Every step makes its version of the version before it.                  *)
(***************************************************************************)

Moves(r, s, v) == /\ r \in Files /\ SameRows(r, s) /\ SameStamp(r, s)
                  /\ s.kind # "none" => r.kind = s.kind
                  /\ IsSchema(r, v)

FeaturesOf(n) == {v \in Additive : v <= n}

LEMMA SchemaMoves ==
  ASSUME NEW s \in Files, NEW r \in Files, NEW v \in Versions, IsSchema(s, v - 1),
         SameRows(r, s), SameStamp(r, s),
         r.triggers \in TriggerSets(v), r.index = IndexOf(v), r.derived = DerivedOf(v),
         r.features = FeaturesOf(v), r.indexed = Present(s),
         (r.kind = "none") <=> (v < 3), s.kind # "none" => r.kind = s.kind,
         v = 10 => ~Contradicts(s)
  PROVE  Moves(r, s, v)
<1>1. Present(r) = Present(s) /\ Raw(r) = Raw(s) /\ Contradicts(r) = Contradicts(s)
  BY DEF SameRows, Present, Raw, Contradicts
<1>2. r.cited \subseteq Raw(r)
  BY <1>1 DEF SameRows, IsSchema
<1>3. v < 4 => Present(r) = Raw(r)
  BY <1>1 DEF IsSchema, Versions, TargetVersion
<1>4. v >= 10 => ~Contradicts(r)
  BY <1>1 DEF IsSchema, Versions, TargetVersion
<1> QED
  BY <1>1, <1>2, <1>3, <1>4 DEF Moves, IsSchema, FeaturesOf, Versions, TargetVersion

(* The steps that only add a table or a column: v2 and v8.                  *)
LEMMA AdditiveMoves ==
  ASSUME NEW s \in Files, NEW v \in {2, 8}, IsSchema(s, v - 1)
  PROVE  Moves(Added(s, v), s, v)
<1> DEFINE r == Added(s, v)
<1>1. v \in Versions
  BY DEF Versions, TargetVersion
<1>2. /\ r \in Files /\ SameRows(r, s) /\ SameStamp(r, s)
      /\ r.kind = s.kind /\ r.index = s.index /\ r.derived = s.derived
      /\ r.triggers = s.triggers /\ r.indexed = s.indexed
      /\ r.features = s.features \cup {v}
  BY <1>1, AddedIs
<1> HIDE DEF r
<1>3. r.features = FeaturesOf(v)
  BY <1>2 DEF IsSchema, FeaturesOf, Additive
<1>4. r.triggers \in TriggerSets(v)
  <2>1. CASE v = 2
    <3>1. s.triggers = EraTriggers(1)
      BY <2>1 DEF IsSchema, TriggerSets
    <3>2. s.triggers = EraTriggers(2)
      BY <3>1, EraReads, ReadAlike
    <3> QED
      BY <3>2, <2>1, <1>2 DEF TriggerSets
  <2>2. CASE v = 8
    <3>1. s.triggers \in {EraTriggers(7), RebuiltTriggers(7)}
      BY <2>2 DEF IsSchema, TriggerSets
    <3>2. EraTriggers(7) = EraTriggers(8)
      BY EraReads, ReadAlike
    <3>3. RebuiltTriggers(7) = RebuiltTriggers(8)
      BY RebuiltReads, ReadAlike
    <3> QED
      BY <3>1, <3>2, <3>3, <2>2, <1>2 DEF TriggerSets
  <2> QED
    BY <2>1, <2>2
<1>5. r.index = IndexOf(v) /\ r.derived = DerivedOf(v) /\ ((r.kind = "none") <=> (v < 3))
      /\ r.indexed = Present(s)
  BY <1>2 DEF IsSchema, IndexOf, DerivedOf
<1>6. Moves(r, s, v)
  BY <1>1, <1>2, <1>3, <1>4, <1>5, SchemaMoves
<1> QED
  BY <1>6 DEF r

(* The rebuilds, v6, v7 and v10, arrive at the live set from either of the   *)
(* sets they may find.                                                     *)
LEMMA RebuildMoves ==
  ASSUME NEW s \in Files, NEW v \in {6, 7, 10}, IsSchema(s, v - 1), v = 10 => ~Contradicts(s)
  PROVE  Moves(RebuildMemories(s, FALSE, DerivedOf(v)), s, v)
<1> DEFINE r == RebuildMemories(s, FALSE, DerivedOf(v))
<1>1. v \in Versions
  BY DEF Versions, TargetVersion
<1>2. DerivedOf(v) \in {"boolean", "layers", "checked"}
  BY DEF DerivedOf
<1>3. /\ r \in Files /\ SameRows(r, s) /\ SameStamp(r, s)
      /\ r.kind = s.kind /\ r.index = s.index /\ r.features = s.features
      /\ r.derived = DerivedOf(v) /\ r.indexed = Present(s)
      /\ r.triggers = LiveTriggers(s.index)
  BY <1>2, RebuildIs
<1> HIDE DEF r
<1>4. r.features = FeaturesOf(v)
  BY <1>3 DEF IsSchema, FeaturesOf, Additive
<1>5. s.index = IndexOf(v - 1) /\ IndexOf(v - 1) = IndexOf(v)
  BY DEF IsSchema, IndexOf
<1>6. LiveTriggers(s.index) = RebuiltTriggers(v)
  <2>1. CASE v \in {6, 7}
    <3>1. s.index = "external"
      BY <2>1, <1>5 DEF IndexOf
    <3>2. Reads(LiveTriggers(s.index), "external", "none", "on", "none", "on", "source")
      BY <3>1, LiveReads
    <3>3. Reads(RebuiltTriggers(v), "external", "none", "on", "none", "on", "source")
      BY <2>1, RebuiltReads
    <3> QED
      BY <3>2, <3>3, ReadAlike
  <2>2. CASE v = 10
    <3>1. s.index = "owned"
      BY <2>2, <1>5 DEF IndexOf
    <3>2. Reads(LiveTriggers(s.index), "owned", "none", "on", "none", "on", "source")
      BY <3>1, LiveReads
    <3>3. Reads(RebuiltTriggers(v), "owned", "none", "on", "none", "on", "source")
      BY <2>2, RebuiltReads
    <3> QED
      BY <3>2, <3>3, ReadAlike
  <2> QED
    BY <2>1, <2>2
<1>7. r.triggers \in TriggerSets(v)
  BY <1>3, <1>6 DEF TriggerSets
<1>8. (r.kind = "none") <=> (v < 3)
  BY <1>3 DEF IsSchema
<1>9. Moves(r, s, v)
  BY <1>1, <1>3, <1>4, <1>5, <1>7, <1>8, SchemaMoves
<1> QED
  BY <1>9 DEF r

LEMMA FirstMoves ==
  ASSUME NEW s \in Files, IsSchema(s, 0)
  PROVE  Moves(MigrateV1(s), s, 1)
<1> DEFINE t == [s EXCEPT !.index = "external"]
           u == Trigger(t, "fts", "external")
           r == Trigger(u, "repo", "on")
<1>1. /\ t \in Files /\ SameRows(t, s) /\ SameStamp(t, s)
      /\ t.kind = s.kind /\ t.derived = s.derived /\ t.triggers = s.triggers
      /\ t.features = s.features /\ t.indexed = s.indexed /\ t.index = "external"
  BY IndexIs
<1> HIDE DEF t
<1>2. /\ u \in Files /\ SameRows(u, t) /\ SameStamp(u, t)
      /\ u.kind = t.kind /\ u.index = t.index /\ u.derived = t.derived
      /\ u.features = t.features /\ u.indexed = t.indexed
      /\ u.triggers = [t.triggers EXCEPT !["fts"] = "external"]
  BY <1>1, TriggerIs DEF Families, Texts
<1> HIDE DEF u
<1>3. /\ r \in Files /\ SameRows(r, u) /\ SameStamp(r, u)
      /\ r.kind = u.kind /\ r.index = u.index /\ r.derived = u.derived
      /\ r.features = u.features /\ r.indexed = u.indexed
      /\ r.triggers = [u.triggers EXCEPT !["repo"] = "on"]
  BY <1>2, TriggerIs DEF Families, Texts
<1> HIDE DEF r
<1>4. r.triggers = EraTriggers(1)
  <2>1. s.triggers = EraTriggers(0)
    BY DEF IsSchema, TriggerSets
  <2>2. Reads(u.triggers, "external", "none", "none", "none", "none", "none")
    <3>1. Reads(s.triggers, "none", "none", "none", "none", "none", "none")
      BY <2>1, EraReads
    <3> QED
      BY <3>1, <1>1, <1>2 DEF Reads, Families, Texts
  <2>3. Reads(r.triggers, "external", "on", "none", "none", "none", "none")
    BY <2>2, <1>3 DEF Reads, Families, Texts
  <2> QED
    BY <2>3, EraReads, ReadAlike
<1>5. /\ r.triggers \in TriggerSets(1) /\ r.index = IndexOf(1) /\ r.derived = DerivedOf(1)
      /\ r.features = FeaturesOf(1) /\ r.indexed = Present(s) /\ r.kind = "none"
  BY <1>1, <1>2, <1>3, <1>4
     DEF TriggerSets, IsSchema, IndexOf, DerivedOf, FeaturesOf, Additive
<1>6. SameRows(r, s) /\ SameStamp(r, s)
  BY <1>1, <1>2, <1>3 DEF SameRows, SameStamp
<1>7. Moves(r, s, 1)
  <2>1. 1 \in Versions /\ IsSchema(s, 1 - 1)
    BY DEF Versions, TargetVersion
  <2>2. (r.kind = "none" <=> 1 < 3) /\ (s.kind # "none" => r.kind = s.kind)
    BY <1>1, <1>2, <1>3, <1>5
  <2> QED
    BY <2>1, <2>2, <1>3, <1>5, <1>6, SchemaMoves
<1> QED
  BY <1>7 DEF r, u, t, MigrateV1

LEMMA KindMoves ==
  ASSUME NEW s \in Files, NEW kind \in Kinds, IsSchema(s, 2)
  PROVE  Moves(MigrateV3(s, kind), s, 3) /\ MigrateV3(s, kind).kind = kind
<1> DEFINE a == Added(s, 3)
           t == [a EXCEPT !.kind = IF @ = "none" THEN kind ELSE @]
           u == Trigger(t, "repo", "none")
           r == Trigger(u, "visibility", "on")
<1>0. 3 \in Versions
  BY DEF Versions, TargetVersion
<1>1. /\ a \in Files /\ SameRows(a, s) /\ SameStamp(a, s)
      /\ a.kind = s.kind /\ a.index = s.index /\ a.derived = s.derived
      /\ a.triggers = s.triggers /\ a.indexed = s.indexed
      /\ a.features = s.features \cup {3}
  BY <1>0, AddedIs
<1> HIDE DEF a
<1>2. /\ t \in Files /\ SameRows(t, s) /\ SameStamp(t, s)
      /\ t.index = s.index /\ t.derived = s.derived
      /\ t.triggers = s.triggers /\ t.indexed = s.indexed
      /\ t.features = a.features /\ t.kind = kind
  <2>1. a.kind = "none"
    BY <1>1 DEF IsSchema
  <2> QED
    BY <2>1, <1>1 DEF Files, SameRows, SameStamp
<1> HIDE DEF t
<1>3. /\ u \in Files /\ SameRows(u, t) /\ SameStamp(u, t)
      /\ u.kind = t.kind /\ u.index = t.index /\ u.derived = t.derived
      /\ u.features = t.features /\ u.indexed = t.indexed
      /\ u.triggers = [t.triggers EXCEPT !["repo"] = "none"]
  BY <1>2, TriggerIs DEF Families, Texts
<1> HIDE DEF u
<1>4. /\ r \in Files /\ SameRows(r, u) /\ SameStamp(r, u)
      /\ r.kind = u.kind /\ r.index = u.index /\ r.derived = u.derived
      /\ r.features = u.features /\ r.indexed = u.indexed
      /\ r.triggers = [u.triggers EXCEPT !["visibility"] = "on"]
  BY <1>3, TriggerIs DEF Families, Texts
<1> HIDE DEF r
<1>5. r.triggers = EraTriggers(3)
  <2>1. s.triggers = EraTriggers(2)
    BY DEF IsSchema, TriggerSets
  <2>2. Reads(u.triggers, "external", "none", "none", "none", "none", "none")
    <3>1. Reads(s.triggers, "external", "on", "none", "none", "none", "none")
      BY <2>1, EraReads
    <3> QED
      BY <3>1, <1>2, <1>3 DEF Reads, Families, Texts
  <2>3. Reads(r.triggers, "external", "none", "on", "none", "none", "none")
    BY <2>2, <1>4 DEF Reads, Families, Texts
  <2> QED
    BY <2>3, EraReads, ReadAlike
<1>6. /\ r.triggers \in TriggerSets(3) /\ r.index = IndexOf(3) /\ r.derived = DerivedOf(3)
      /\ r.features = FeaturesOf(3) /\ r.indexed = Present(s) /\ r.kind = kind
  BY <1>1, <1>2, <1>3, <1>4, <1>5
     DEF TriggerSets, IsSchema, IndexOf, DerivedOf, FeaturesOf, Additive
<1>7. SameRows(r, s) /\ SameStamp(r, s)
  BY <1>2, <1>3, <1>4 DEF SameRows, SameStamp
<1>8. Moves(r, s, 3)
  <2>1. IsSchema(s, 3 - 1) /\ s.kind = "none" /\ kind # "none"
    BY DEF IsSchema, Kinds
  <2>2. (r.kind = "none" <=> 3 < 3) /\ (s.kind # "none" => r.kind = s.kind)
    BY <2>1, <1>6
  <2>3. 3 = 10 => ~Contradicts(s)
    OBVIOUS
  <2> QED
    BY <1>0, <2>1, <2>2, <2>3, <1>4, <1>6, <1>7, SchemaMoves
<1> QED
  BY <1>6, <1>8 DEF r, u, t, a, MigrateV3

LEMMA StatementMoves ==
  ASSUME NEW s \in Files, IsSchema(s, 3)
  PROVE  Moves(MigrateV4(s), s, 4)
<1> DEFINE a == Added(s, 4)
           t == [a EXCEPT !.derived = "boolean"]
           r == Trigger(t, "dormant", "on")
<1>0. 4 \in Versions
  BY DEF Versions, TargetVersion
<1>1. /\ a \in Files /\ SameRows(a, s) /\ SameStamp(a, s)
      /\ a.kind = s.kind /\ a.index = s.index
      /\ a.triggers = s.triggers /\ a.indexed = s.indexed
      /\ a.features = s.features \cup {4}
  BY <1>0, AddedIs
<1> HIDE DEF a
<1>2. /\ t \in Files /\ SameRows(t, a) /\ SameStamp(t, a)
      /\ t.kind = a.kind /\ t.index = a.index /\ t.triggers = a.triggers
      /\ t.features = a.features /\ t.indexed = a.indexed
      /\ t.derived = "boolean"
  BY <1>1, DerivedIs
<1> HIDE DEF t
<1>3. /\ r \in Files /\ SameRows(r, t) /\ SameStamp(r, t)
      /\ r.kind = t.kind /\ r.index = t.index /\ r.derived = t.derived
      /\ r.features = t.features /\ r.indexed = t.indexed
      /\ r.triggers = [t.triggers EXCEPT !["dormant"] = "on"]
  BY <1>2, TriggerIs DEF Families, Texts
<1> HIDE DEF r
<1>4. r.triggers = EraTriggers(4)
  <2>1. s.triggers = EraTriggers(3)
    BY DEF IsSchema, TriggerSets
  <2>2. Reads(r.triggers, "external", "none", "on", "on", "none", "none")
    <3>1. Reads(s.triggers, "external", "none", "on", "none", "none", "none")
      BY <2>1, EraReads
    <3> QED
      BY <3>1, <1>1, <1>2, <1>3 DEF Reads, Families, Texts
  <2> QED
    BY <2>2, EraReads, ReadAlike
<1>5. /\ r.triggers \in TriggerSets(4) /\ r.index = IndexOf(4) /\ r.derived = DerivedOf(4)
      /\ r.features = FeaturesOf(4) /\ r.indexed = Present(s) /\ r.kind = s.kind
  BY <1>1, <1>2, <1>3, <1>4
     DEF TriggerSets, IsSchema, IndexOf, DerivedOf, FeaturesOf, Additive
<1>6. SameRows(r, s) /\ SameStamp(r, s)
  BY <1>1, <1>2, <1>3 DEF SameRows, SameStamp
<1>7. Moves(r, s, 4)
  <2>1. IsSchema(s, 4 - 1) /\ s.kind # "none"
    BY DEF IsSchema
  <2>2. (r.kind = "none" <=> 4 < 3) /\ (s.kind # "none" => r.kind = s.kind)
    BY <2>1, <1>5
  <2>3. 4 = 10 => ~Contradicts(s)
    OBVIOUS
  <2> QED
    BY <1>0, <2>1, <2>2, <2>3, <1>3, <1>5, <1>6, SchemaMoves
<1> QED
  BY <1>7 DEF r, t, a, MigrateV4

(* v5 and v12 replace the invalidation trigger.                             *)
LEMMA InvalidationMoves ==
  ASSUME NEW s \in Files, NEW v \in {5, 12}, IsSchema(s, v - 1)
  PROVE  Moves(Trigger(s, "invalidate", IF v = 5 THEN "any" ELSE "source"), s, v)
<1> DEFINE text == IF v = 5 THEN "any" ELSE "source"
           r == Trigger(s, "invalidate", text)
<1>0. v \in Versions /\ text \in Texts
  BY DEF Versions, TargetVersion, Texts
<1>1. /\ r \in Files /\ SameRows(r, s) /\ SameStamp(r, s)
      /\ r.kind = s.kind /\ r.index = s.index /\ r.derived = s.derived
      /\ r.features = s.features /\ r.indexed = s.indexed
      /\ r.triggers = [s.triggers EXCEPT !["invalidate"] = text]
  BY <1>0, TriggerIs DEF Families
<1> HIDE DEF r
<1>2. r.triggers = EraTriggers(v)
  <2>1. CASE v = 5
    <3>1. s.triggers = EraTriggers(4)
      BY <2>1 DEF IsSchema, TriggerSets
    <3>2. Reads(r.triggers, "external", "none", "on", "on", "none", "any")
      <4>1. Reads(s.triggers, "external", "none", "on", "on", "none", "none")
        BY <3>1, EraReads
      <4> QED
        BY <4>1, <2>1, <1>0, <1>1 DEF Reads, Families, Texts
    <3> QED
      BY <3>2, <2>1, EraReads, ReadAlike
  <2>2. CASE v = 12
    <3>1. s.triggers \in {EraTriggers(11), RebuiltTriggers(11)}
      BY <2>2 DEF IsSchema, TriggerSets
    <3>2. Reads(r.triggers, "owned", "none", "on", "none", "on", "source")
      <4>1. CASE s.triggers = EraTriggers(11)
        <5>1. Reads(s.triggers, "owned", "none", "on", "none", "on", "any")
          BY <4>1, EraReads
        <5> QED
          BY <5>1, <2>2, <1>0, <1>1 DEF Reads, Families, Texts
      <4>2. CASE s.triggers = RebuiltTriggers(11)
        <5>1. Reads(s.triggers, "owned", "none", "on", "none", "on", "source")
          BY <4>2, RebuiltReads
        <5> QED
          BY <5>1, <2>2, <1>0, <1>1 DEF Reads, Families, Texts
      <4> QED
        BY <3>1, <4>1, <4>2
    <3> QED
      BY <3>2, <2>2, EraReads, ReadAlike
  <2> QED
    BY <2>1, <2>2
<1>3. /\ r.triggers \in TriggerSets(v) /\ r.index = IndexOf(v) /\ r.derived = DerivedOf(v)
      /\ r.features = FeaturesOf(v) /\ r.indexed = Present(s) /\ r.kind = s.kind
  BY <1>1, <1>2 DEF TriggerSets, IsSchema, IndexOf, DerivedOf, FeaturesOf, Additive
<1>4. Moves(r, s, v)
  <2>1. (r.kind = "none") <=> (v < 3)
    BY <1>3 DEF IsSchema
  <2> QED
    BY <2>1, <1>0, <1>1, <1>3, SchemaMoves
<1> QED
  BY <1>4 DEF r

(* v9 gives the index its own text and fills it again.                      *)
LEMMA IndexMoves ==
  ASSUME NEW s \in Files, IsSchema(s, 8)
  PROVE  Moves(MigrateV9(s), s, 9)
<1> DEFINE t == [s EXCEPT !.index = "owned"]
           u == Trigger(t, "fts", "owned")
           r == RefillFtsIndex(u)
<1>0. 9 \in Versions
  BY DEF Versions, TargetVersion
<1>1. /\ t \in Files /\ SameRows(t, s) /\ SameStamp(t, s)
      /\ t.kind = s.kind /\ t.derived = s.derived /\ t.triggers = s.triggers
      /\ t.features = s.features /\ t.index = "owned"
  BY IndexIs
<1> HIDE DEF t
<1>2. /\ u \in Files /\ SameRows(u, t) /\ SameStamp(u, t)
      /\ u.kind = t.kind /\ u.index = t.index /\ u.derived = t.derived
      /\ u.features = t.features
      /\ u.triggers = [t.triggers EXCEPT !["fts"] = "owned"]
  BY <1>1, TriggerIs DEF Families, Texts
<1> HIDE DEF u
<1>3. /\ r \in Files /\ SameRows(r, u) /\ SameStamp(r, u)
      /\ r.kind = u.kind /\ r.index = u.index /\ r.derived = u.derived
      /\ r.features = u.features /\ r.triggers = u.triggers /\ r.indexed = Present(u)
  BY <1>2, RefillIs
<1> HIDE DEF r
<1>4. SameRows(r, s) /\ SameStamp(r, s) /\ Present(u) = Present(s)
  BY <1>1, <1>2, <1>3 DEF SameRows, SameStamp, Present
<1>5. r.triggers \in TriggerSets(9)
  <2>1. s.triggers \in {EraTriggers(8), RebuiltTriggers(8)}
    BY DEF IsSchema, TriggerSets
  <2>2. CASE s.triggers = EraTriggers(8)
    <3>1. Reads(r.triggers, "owned", "none", "on", "on", "none", "any")
      <4>1. Reads(s.triggers, "external", "none", "on", "on", "none", "any")
        BY <2>2, EraReads
      <4> QED
        BY <4>1, <1>1, <1>2, <1>3 DEF Reads, Families, Texts
    <3>2. r.triggers = EraTriggers(9)
      BY <3>1, EraReads, ReadAlike
    <3> QED
      BY <3>2 DEF TriggerSets
  <2>3. CASE s.triggers = RebuiltTriggers(8)
    <3>1. Reads(r.triggers, "owned", "none", "on", "none", "on", "source")
      <4>1. Reads(s.triggers, "external", "none", "on", "none", "on", "source")
        BY <2>3, RebuiltReads
      <4> QED
        BY <4>1, <1>1, <1>2, <1>3 DEF Reads, Families, Texts
    <3>2. r.triggers = RebuiltTriggers(9)
      BY <3>1, RebuiltReads, ReadAlike
    <3> QED
      BY <3>2 DEF TriggerSets
  <2> QED
    BY <2>1, <2>2, <2>3
<1>6. /\ r.index = IndexOf(9) /\ r.derived = DerivedOf(9)
      /\ r.features = FeaturesOf(9) /\ r.indexed = Present(s) /\ r.kind = s.kind
  BY <1>1, <1>2, <1>3, <1>4 DEF IsSchema, IndexOf, DerivedOf, FeaturesOf, Additive
<1>7. Moves(r, s, 9)
  <2>1. IsSchema(s, 9 - 1) /\ s.kind # "none"
    BY DEF IsSchema
  <2>2. (r.kind = "none" <=> 9 < 3) /\ (s.kind # "none" => r.kind = s.kind)
    BY <2>1, <1>6
  <2>3. 9 = 10 => ~Contradicts(s)
    OBVIOUS
  <2> QED
    BY <1>0, <2>1, <2>2, <2>3, <1>3, <1>4, <1>5, <1>6, SchemaMoves
<1> QED
  BY <1>7 DEF r, u, t, MigrateV9

(* v11 finds the guard under its old name, or already retired by a rebuild. *)
LEMMA StatusMoves ==
  ASSUME NEW s \in Files, IsSchema(s, 10)
  PROVE  Moves(MigrateV11(s), s, 11)
<1> DEFINE t == Trigger(s, "dormant", "none")
           r == Trigger(t, "status", "on")
<1>0. 11 \in Versions
  BY DEF Versions, TargetVersion
<1>1. /\ t \in Files /\ SameRows(t, s) /\ SameStamp(t, s)
      /\ t.kind = s.kind /\ t.index = s.index /\ t.derived = s.derived
      /\ t.features = s.features /\ t.indexed = s.indexed
      /\ t.triggers = [s.triggers EXCEPT !["dormant"] = "none"]
  BY TriggerIs DEF Families, Texts
<1> HIDE DEF t
<1>2. /\ r \in Files /\ SameRows(r, t) /\ SameStamp(r, t)
      /\ r.kind = t.kind /\ r.index = t.index /\ r.derived = t.derived
      /\ r.features = t.features /\ r.indexed = t.indexed
      /\ r.triggers = [t.triggers EXCEPT !["status"] = "on"]
  BY <1>1, TriggerIs DEF Families, Texts
<1> HIDE DEF r
<1>3. SameRows(r, s) /\ SameStamp(r, s)
  BY <1>1, <1>2 DEF SameRows, SameStamp
<1>4. r.triggers \in TriggerSets(11)
  <2>1. s.triggers \in {EraTriggers(10), RebuiltTriggers(10)}
    BY DEF IsSchema, TriggerSets
  <2>2. CASE s.triggers = EraTriggers(10)
    <3>1. Reads(t.triggers, "owned", "none", "on", "none", "none", "any")
      <4>1. Reads(s.triggers, "owned", "none", "on", "on", "none", "any")
        BY <2>2, EraReads
      <4> QED
        BY <4>1, <1>1 DEF Reads, Families, Texts
    <3>2. Reads(r.triggers, "owned", "none", "on", "none", "on", "any")
      BY <3>1, <1>2 DEF Reads, Families, Texts
    <3>3. r.triggers = EraTriggers(11)
      BY <3>2, EraReads, ReadAlike
    <3> QED
      BY <3>3 DEF TriggerSets
  <2>3. CASE s.triggers = RebuiltTriggers(10)
    <3>1. Reads(t.triggers, "owned", "none", "on", "none", "on", "source")
      <4>1. Reads(s.triggers, "owned", "none", "on", "none", "on", "source")
        BY <2>3, RebuiltReads
      <4> QED
        BY <4>1, <1>1 DEF Reads, Families, Texts
    <3>2. Reads(r.triggers, "owned", "none", "on", "none", "on", "source")
      BY <3>1, <1>2 DEF Reads, Families, Texts
    <3>3. r.triggers = RebuiltTriggers(11)
      BY <3>2, RebuiltReads, ReadAlike
    <3> QED
      BY <3>3 DEF TriggerSets
  <2> QED
    BY <2>1, <2>2, <2>3
<1>5. /\ r.index = IndexOf(11) /\ r.derived = DerivedOf(11)
      /\ r.features = FeaturesOf(11) /\ r.indexed = Present(s) /\ r.kind = s.kind
  BY <1>1, <1>2 DEF IsSchema, IndexOf, DerivedOf, FeaturesOf, Additive
<1>6. Moves(r, s, 11)
  <2>1. IsSchema(s, 11 - 1) /\ s.kind # "none"
    BY DEF IsSchema
  <2>2. (r.kind = "none" <=> 11 < 3) /\ (s.kind # "none" => r.kind = s.kind)
    BY <2>1, <1>5
  <2>3. 11 = 10 => ~Contradicts(s)
    OBVIOUS
  <2> QED
    BY <1>0, <2>1, <2>2, <2>3, <1>2, <1>3, <1>4, <1>5, SchemaMoves
<1> QED
  BY <1>6 DEF r, t, MigrateV11

LEMMA StepMoves ==
  ASSUME NEW s \in Files, NEW v \in Versions, NEW kind \in Kinds,
         IsSchema(s, v - 1), v = 10 => ~Contradicts(s)
  PROVE  Moves(Step(v, s, kind, FALSE), s, v)
<1>0. v \in {1, 2, 3, 4, 5, 6, 7, 8, 9, 10, 11, 12}
  BY DEF Versions, TargetVersion
<1>1. CASE v = 1
  BY <1>1, FirstMoves DEF Step
<1>2. CASE v = 2
  <2>1. Step(v, s, kind, FALSE) = Added(s, v)
    BY <1>2 DEF Step, MigrateV2
  <2> QED
    BY <2>1, <1>2, AdditiveMoves
<1>3. CASE v = 3
  BY <1>3, KindMoves DEF Step
<1>4. CASE v = 4
  BY <1>4, StatementMoves DEF Step
<1>5. CASE v = 5
  <2>1. Step(v, s, kind, FALSE) = Trigger(s, "invalidate", "any")
    BY <1>5 DEF Step, MigrateV5
  <2> QED
    BY <2>1, <1>5, InvalidationMoves
<1>6. CASE v = 6
  <2>1. Step(v, s, kind, FALSE) = RebuildMemories(s, FALSE, DerivedOf(v))
    BY <1>6 DEF Step, MigrateV6, DerivedOf
  <2> QED
    BY <2>1, <1>6, RebuildMoves
<1>7. CASE v = 7
  <2>1. Step(v, s, kind, FALSE) = RebuildMemories(s, FALSE, DerivedOf(v))
    BY <1>7 DEF Step, MigrateV7, DerivedOf
  <2> QED
    BY <2>1, <1>7, RebuildMoves
<1>8. CASE v = 8
  <2>1. Step(v, s, kind, FALSE) = Added(s, v)
    BY <1>8 DEF Step, MigrateV8
  <2> QED
    BY <2>1, <1>8, AdditiveMoves
<1>9. CASE v = 9
  BY <1>9, IndexMoves DEF Step
<1>10. CASE v = 10
  <2>1. Step(v, s, kind, FALSE) = RebuildMemories(s, FALSE, DerivedOf(v))
    BY <1>10 DEF Step, MigrateV10, DerivedOf
  <2> QED
    BY <2>1, <1>10, RebuildMoves
<1>11. CASE v = 11
  BY <1>11, StatusMoves DEF Step
<1>12. CASE v = 12
  <2>1. Step(v, s, kind, FALSE) = Trigger(s, "invalidate", "source")
    BY <1>12 DEF Step, MigrateV12
  <2>2. Moves(Trigger(s, "invalidate", IF 12 = 5 THEN "any" ELSE "source"), s, 12)
    BY <1>12, InvalidationMoves
  <2>3. (IF 12 = 5 THEN "any" ELSE "source") = "source"
    OBVIOUS
  <2> QED
    BY <2>1, <2>2, <2>3, <1>12
<1> QED
  BY <1>0, <1>1, <1>2, <1>3, <1>4, <1>5, <1>6, <1>7, <1>8, <1>9, <1>10, <1>11, <1>12

(* The names a step finds: only the rows a v10 CHECK refuses can stop it.    *)
(* A step marks a file without a kind with the kind of its place, or leaves it. *)
LEMMA StepKind ==
  ASSUME NEW s \in Files, NEW v \in Versions, NEW kind \in Kinds,
         IsSchema(s, v - 1), v = 10 => ~Contradicts(s)
  PROVE  Step(v, s, kind, FALSE).kind \in {s.kind, kind}
<1> DEFINE r == Step(v, s, kind, FALSE)
<1>1. Moves(r, s, v)
  BY StepMoves
<1>2. v = 3 => r.kind = kind
  BY KindMoves DEF Step
<1> HIDE DEF r
<1>3. s.kind # "none" => r.kind = s.kind
  BY <1>1 DEF Moves
<1>4. (r.kind = "none" <=> v < 3) /\ (s.kind = "none" <=> v - 1 < 3)
  BY <1>1 DEF Moves, IsSchema
<1>5. r.kind \in {s.kind, kind}
  BY <1>2, <1>3, <1>4 DEF Versions, TargetVersion
<1> QED
  BY <1>5 DEF r

LEMMA ThrowsOnContradiction ==
  ASSUME NEW s \in Files, NEW v \in Versions, IsSchema(s, v - 1), StepThrows(v, s)
  PROVE  v = 10 /\ Contradicts(s)
<1>1. ASSUME NEW f \in BareDrops(v), s.triggers[f] = "none" PROVE FALSE
  <2>1. CASE v = 3
    BY <2>1, <1>1, EraReads DEF BareDrops, IsSchema, TriggerSets, Reads
  <2>2. CASE v = 9
    <3>1. s.triggers \in {EraTriggers(8), RebuiltTriggers(8)} /\ f = "fts"
      BY <2>2, <1>1 DEF BareDrops, IsSchema, TriggerSets
    <3> QED
      BY <3>1, <1>1, EraReads, RebuiltReads DEF Reads
  <2>3. CASE v = 12
    <3>1. s.triggers \in {EraTriggers(11), RebuiltTriggers(11)} /\ f = "invalidate"
      BY <2>3, <1>1 DEF BareDrops, IsSchema, TriggerSets
    <3> QED
      BY <3>1, <1>1, EraReads, RebuiltReads DEF Reads
  <2>4. CASE v \notin {3, 9, 12}
    BY <2>4 DEF BareDrops
  <2> QED
    BY <2>1, <2>2, <2>3, <2>4
<1>2. ASSUME NEW f \in FreshCreates(v), s.triggers[f] # "none" PROVE FALSE
  <2>1. CASE v \in {1, 3, 4, 5}
    <3>1. s.triggers = EraTriggers(v - 1)
      BY <2>1 DEF IsSchema, TriggerSets
    <3>2. CASE v = 1
      BY <3>1, <3>2, <1>2, EraReads DEF FreshCreates, Reads
    <3>3. CASE v = 3
      BY <3>1, <3>3, <1>2, EraReads DEF FreshCreates, Reads
    <3>4. CASE v = 4
      BY <3>1, <3>4, <1>2, EraReads DEF FreshCreates, Reads
    <3>5. CASE v = 5
      BY <3>1, <3>5, <1>2, EraReads DEF FreshCreates, Reads
    <3> QED
      BY <2>1, <3>2, <3>3, <3>4, <3>5
  <2>2. CASE v \notin {1, 3, 4, 5}
    BY <2>2 DEF FreshCreates
  <2> QED
    BY <2>1, <2>2
<1>3. ~(v \in Additive /\ v \in s.features)
  BY DEF IsSchema, Versions, TargetVersion
<1>4. ~(v \in {6, 7, 10} /\ ~({2, 4} \subseteq s.features))
  BY DEF IsSchema, Additive
<1> QED
  BY <1>1, <1>2, <1>3, <1>4 DEF StepThrows

(***************************************************************************)
(* The inductive invariant: the committed file is always some release's,    *)
(* a migrating process holds the lock over a copy whose content is that of  *)
(* the last step it took, and who has passed the checks has what it asked.  *)
(***************************************************************************)

States == [phase : Phases, target : Targets \cup {TargetVersion}, attempt : 0..Retries,
           at : 0..TargetVersion, note : BOOLEAN, fk : BOOLEAN, work : Files \cup {NULL}]

Historic(s) ==
  /\ s.brand = "ours" => s.version > 0
  /\ s.brand = "ours" /\ s.version <= TargetVersion => IsSchema(s, s.version)
  /\ s.brand = "none" /\ s.version = 0 => IsSchema(s, 0)

Upgradable(s) == s.brand = "ours" \/ (s.brand = "none" /\ s.version = 0)

Copied(w, s) == /\ w \in Files /\ SameRows(w, s) /\ w.version = s.version
                /\ s.kind # "none" => w.kind = s.kind

Migrating(p) ==
  proc[p].phase = "steps" =>
    /\ lock = p /\ proc[p].fk = FALSE
    /\ Upgradable(store) /\ Copied(proc[p].work, store)
    /\ store.version <= proc[p].at /\ proc[p].at <= proc[p].target
    /\ store.version < proc[p].target /\ proc[p].work.kind \in {store.kind, path}
    /\ IsSchema(proc[p].work, proc[p].at)

Passed(p) ==
  /\ proc[p].phase = "begin" => proc[p].fk = FALSE
  /\ proc[p].phase \in {"verify", "note", "open"} =>
       /\ store.brand = "ours" /\ proc[p].fk = TRUE
       /\ proc[p].target <= store.version /\ store.version <= TargetVersion
  /\ proc[p].phase \in {"note", "open"} => store.kind = path

IInv == TypeOK /\ Historic(store) /\ StepsOnce /\ \A p \in Procs : Migrating(p) /\ Passed(p)

LEMMA TargetsAre ==
  ASSUME NEW x \in States
  PROVE  x.target \in Versions
<1>1. x.target \in Targets \cup {TargetVersion}
  BY DEF States
<1>2. TargetVersion \in Versions
  BY DEF Versions, TargetVersion
<1> QED
  BY <1>1, <1>2, TargetsAssumption

LEMMA InitHolds == Init => IInv
<1> SUFFICES ASSUME Init PROVE IInv
  OBVIOUS
<1>1. store \in Files /\ Historic(store)
  BY FirstStoresAssumption DEF Init, HistoricFile, Historic
<1>2. \A p \in Procs : proc[p] = Closed
  BY DEF Init
<1>3. Closed \in States /\ Closed.phase = "closed"
  BY RetriesAssumption DEF Closed, States, Phases, TargetVersion
<1>4. proc \in [Procs -> States]
  BY <1>3 DEF Init
<1>5. \A p \in Procs : Migrating(p) /\ Passed(p)
  BY <1>2, <1>3 DEF Migrating, Passed
<1>6. ran \in [Versions -> Nat] /\ StepsOnce
  BY DEF Init, StepsOnce
<1>7. path \in Kinds /\ lock \in Procs \cup {NULL} /\ outcome \in [Procs -> Outcomes]
  BY DEF Init, Kinds, Outcomes
<1> QED
  BY <1>1, <1>4, <1>5, <1>6, <1>7 DEF IInv, TypeOK, States

(* A step that leaves the committed file alone disturbs only its own process. *)
LEMMA StoreLeftAlone ==
  ASSUME IInv, NEW p \in Procs, NEW x \in States,
         proc' = [proc EXCEPT ![p] = x], outcome' \in [Procs -> Outcomes],
         store' = store, path' = path, ran' = ran, lock' \in Procs \cup {NULL},
         \A q \in Procs \ {p} : lock = q => lock' = q,
         Migrating(p)', Passed(p)'
  PROVE  IInv'
<1>1. proc \in [Procs -> States]
  BY DEF IInv, TypeOK, States
<1>2. proc' \in [Procs -> States]
  BY <1>1
<1>3. TypeOK'
  BY <1>2 DEF IInv, TypeOK, States
<1>4. Historic(store)' /\ StepsOnce'
  BY DEF IInv, StepsOnce
<1>5. ASSUME NEW q \in Procs, q # p PROVE Migrating(q)' /\ Passed(q)'
  <2>1. proc'[q] = proc[q] /\ Migrating(q) /\ Passed(q) /\ (lock = q => lock' = q)
    BY <1>1, <1>5 DEF IInv
  <2>2. Migrating(q)'
    BY <2>1 DEF Migrating
  <2>3. Passed(q)'
    BY <2>1 DEF Passed
  <2> QED
    BY <2>2, <2>3
<1> QED
  BY <1>3, <1>4, <1>5 DEF IInv

LEMMA ClosedIs == Closed \in States /\ Closed.phase = "closed"
BY RetriesAssumption DEF Closed, States, Phases, TargetVersion

(* A refusal, with or without the rollback of what was begun.               *)
LEMMA RefuseKeeps ==
  ASSUME IInv, NEW p \in Procs, NEW why \in Outcomes, Refuse(p, why),
         UNCHANGED <<store, path, ran>>, lock' \in Procs \cup {NULL},
         \A q \in Procs \ {p} : lock = q => lock' = q
  PROVE  IInv'
<1>1. proc' = [proc EXCEPT ![p] = Closed] /\ outcome' \in [Procs -> Outcomes]
  BY DEF Refuse, IInv, TypeOK
<1>2. proc'[p] = Closed
  BY <1>1 DEF IInv, TypeOK
<1>3. Migrating(p)' /\ Passed(p)'
  BY <1>2, ClosedIs DEF Migrating, Passed
<1> QED
  BY <1>1, <1>3, ClosedIs, StoreLeftAlone

LEMMA OpenKeeps ==
  ASSUME IInv, NEW p \in Procs, Open(p)
  PROVE  IInv'
<1> PICK t \in Targets, note \in BOOLEAN :
      proc' = [proc EXCEPT ![p] = Enter([target |-> t, note |-> note], "journal", TRUE, 0, NULL)]
  BY DEF Open
<1> DEFINE x == Enter([target |-> t, note |-> note], "journal", TRUE, 0, NULL)
<1>1. x \in States
  BY RetriesAssumption DEF Enter, States, Phases, TargetVersion
<1>2. x.phase = "journal"
  BY DEF Enter
<1> HIDE DEF x
<1>3. proc' = [proc EXCEPT ![p] = x] /\ proc'[p] = x
  BY DEF x, IInv, TypeOK
<1>4. Migrating(p)' /\ Passed(p)'
  BY <1>2, <1>3 DEF Migrating, Passed
<1>5. outcome' \in [Procs -> Outcomes] /\ UNCHANGED <<store, path, lock, ran>> /\ lock \in Procs \cup {NULL}
  BY DEF Open, IInv, TypeOK, Outcomes
<1> QED
  BY <1>1, <1>3, <1>4, <1>5, StoreLeftAlone

LEMMA LoseRaceKeeps ==
  ASSUME IInv, NEW p \in Procs, LoseRace(p)
  PROVE  IInv'
<1>1. CASE proc[p].attempt < Retries
  <2> DEFINE x == [proc[p] EXCEPT !.attempt = NextTry(@)]
  <2>1. proc' = [proc EXCEPT ![p] = x] /\ UNCHANGED <<outcome, store, path, lock, ran>>
    BY <1>1 DEF LoseRace
  <2>2. proc[p] \in States
    BY DEF IInv, TypeOK, States
  <2>3. /\ x \in States /\ x.phase = proc[p].phase /\ x.target = proc[p].target
        /\ x.fk = proc[p].fk
    BY <2>2, <1>1, RetriesAssumption DEF States, NextTry
  <2> HIDE DEF x
  <2>4. proc'[p] = x
    BY <2>1 DEF IInv, TypeOK
  <2>5. x.phase \in {"journal", "begin", "note"}
    BY <2>3 DEF LoseRace
  <2>6. Migrating(p)'
    BY <2>4, <2>5 DEF Migrating
  <2>7. Passed(p)'
    BY <2>1, <2>3, <2>4 DEF IInv, Passed
  <2> QED
    BY <2>1, <2>3, <2>6, <2>7, StoreLeftAlone DEF IInv, TypeOK
<1>2. CASE ~(proc[p].attempt < Retries)
  <2>1. Refuse(p, "busy") /\ UNCHANGED <<store, path, lock, ran>>
    BY <1>2 DEF LoseRace
  <2> QED
    BY <2>1, RefuseKeeps DEF Outcomes, IInv, TypeOK
<1> QED
  BY <1>1, <1>2

LEMMA DisposeKeeps ==
  ASSUME IInv, NEW p \in Procs, Dispose(p)
  PROVE  IInv'
<1> DEFINE x == [Closed EXCEPT !.phase = "disposed"]
<1>1. x \in States /\ x.phase = "disposed"
  BY ClosedIs DEF States, Phases
<1>2. proc' = [proc EXCEPT ![p] = x] /\ UNCHANGED <<store, path, lock, outcome, ran>>
  BY DEF Dispose
<1> HIDE DEF x
<1>3. proc'[p] = x
  BY <1>2 DEF IInv, TypeOK
<1>4. Migrating(p)' /\ Passed(p)'
  BY <1>1, <1>3 DEF Migrating, Passed
<1> QED
  BY <1>1, <1>2, <1>4, StoreLeftAlone DEF IInv, TypeOK

LEMMA CrashKeeps ==
  ASSUME IInv, NEW p \in Procs, Crash(p)
  PROVE  IInv'
<1>1. Refuse(p, "none") /\ UNCHANGED <<store, path, ran>>
  BY DEF Crash, Refuse
<1>2. lock' \in Procs \cup {NULL} /\ \A q \in Procs \ {p} : lock = q => lock' = q
  BY DEF Crash, IInv, TypeOK
<1> QED
  BY <1>1, <1>2, RefuseKeeps DEF Outcomes

LEMMA BeginKeeps ==
  ASSUME IInv, NEW p \in Procs, BeginImmediate(p)
  PROVE  IInv'
<1> DEFINE why == Refusal(store, proc[p].target)
<1>1. proc[p] \in States /\ proc[p].target \in Versions /\ store \in Files
  BY TargetsAre DEF IInv, TypeOK, States
<1>2. UNCHANGED <<store, path, ran>> /\ lock = NULL /\ proc[p].phase = "begin"
  BY DEF BeginImmediate, LockFree
<1>3. CASE why # "none"
  <2>1. Refuse(p, why) /\ UNCHANGED lock /\ why \in Outcomes
    BY <1>3 DEF BeginImmediate, Refusal, Outcomes
  <2> QED
    BY <2>1, <1>2, RefuseKeeps DEF IInv, TypeOK
<1>4. ASSUME why = "none"
      PROVE  Upgradable(store) /\ store.version <= proc[p].target
             /\ IsSchema(store, store.version)
  <2>1. store.brand # "foreign" /\ ~(store.brand = "none" /\ store.version # 0)
        /\ ~(store.version > proc[p].target)
    BY <1>4 DEF Refusal
  <2>2. Upgradable(store) /\ store.version <= proc[p].target
    BY <2>1, <1>1 DEF Upgradable, Files, Versions, TargetVersion
  <2> QED
    BY <2>2, <1>1 DEF IInv, Historic, Upgradable, Files, Versions, TargetVersion
<1>5. CASE why = "none" /\ store.version = proc[p].target
  <2> DEFINE x == Enter(proc[p], "verify", TRUE, 0, NULL)
  <2>1. proc' = [proc EXCEPT ![p] = x] /\ UNCHANGED <<lock, outcome>>
    BY <1>5 DEF BeginImmediate
  <2>2. x \in States
    BY <1>1, RetriesAssumption DEF Enter, States, Phases, TargetVersion
  <2>3. x.phase = "verify" /\ x.fk = TRUE /\ x.target = proc[p].target
    BY DEF Enter
  <2> HIDE DEF x
  <2>4. proc'[p] = x
    BY <2>1 DEF IInv, TypeOK
  <2>5. Migrating(p)'
    BY <2>3, <2>4 DEF Migrating
  <2>6. store.brand = "ours"
    BY <1>4, <1>5, <1>1 DEF Upgradable, Versions, TargetVersion
  <2>7. Passed(p)'
    BY <2>3, <2>4, <2>6, <1>1, <1>2, <1>5 DEF Passed, Versions, TargetVersion
  <2> QED
    BY <2>1, <2>2, <2>5, <2>7, <1>2, StoreLeftAlone DEF IInv, TypeOK
<1>6. CASE why = "none" /\ store.version # proc[p].target
  <2> DEFINE x == Enter(proc[p], "steps", proc[p].fk, store.version, store)
  <2>1. proc' = [proc EXCEPT ![p] = x] /\ lock' = p /\ UNCHANGED outcome
    BY <1>6 DEF BeginImmediate
  <2>2. store.version \in 0..TargetVersion /\ proc[p].fk = FALSE
    <3>1. Passed(p)
      BY DEF IInv
    <3> QED
      BY <3>1, <1>1, <1>2, <1>4, <1>6 DEF Passed, Files, Versions, TargetVersion
  <2>3. x \in States
    BY <2>2, <1>1, RetriesAssumption DEF Enter, States, Phases
  <2>4. x.phase = "steps" /\ x.fk = FALSE /\ x.target = proc[p].target
        /\ x.at = store.version /\ x.work = store
    BY <2>2 DEF Enter
  <2> HIDE DEF x
  <2>5. proc'[p] = x
    BY <2>1 DEF IInv, TypeOK
  <2>6. Copied(store, store) /\ store.version <= store.version /\ store.version < proc[p].target
    BY <1>1, <1>4, <1>6, <2>2 DEF Copied, SameRows, Versions, TargetVersion
  <2>7. Migrating(p)'
    BY <2>1, <2>4, <2>5, <2>6, <1>2, <1>4, <1>6 DEF Migrating
  <2>8. Passed(p)'
    BY <2>4, <2>5 DEF Passed
  <2>9. \A q \in Procs \ {p} : lock = q => lock' = q
    BY <1>2, NullAssumption
  <2> QED
    BY <2>1, <2>3, <2>7, <2>8, <2>9, <1>2, StoreLeftAlone DEF IInv, TypeOK
<1> QED
  BY <1>3, <1>5, <1>6

LEMMA MigrateStepKeeps ==
  ASSUME IInv, NEW p \in Procs, MigrateStep(p)
  PROVE  IInv'
<1> DEFINE v == proc[p].at + 1
           s == proc[p].work
           x == Enter(proc[p], "steps", proc[p].fk, v, Step(v, s, path, proc[p].fk))
<1>1. proc[p] \in States /\ proc[p].target \in Versions /\ path \in Kinds
  BY TargetsAre DEF IInv, TypeOK, States
<1>2. proc[p].phase = "steps" /\ proc[p].at < proc[p].target /\ UNCHANGED <<store, path, ran>>
  BY DEF MigrateStep
<1>3. Migrating(p) /\ lock = p
  BY <1>2 DEF IInv, Migrating
<1>4. v \in Versions /\ v - 1 = proc[p].at /\ v <= proc[p].target /\ store.version <= v
  BY <1>1, <1>2, <1>3 DEF States, Migrating, Versions, TargetVersion, IInv, TypeOK, Files
<1>5. s \in Files /\ IsSchema(s, v - 1)
  BY <1>2, <1>3, <1>4 DEF Migrating, Copied
<1>6. CASE StepThrows(v, s)
  <2>1. Refuse(p, "threw") /\ lock' = NULL
    BY <1>6 DEF MigrateStep, RollBack
  <2>2. \A q \in Procs \ {p} : lock = q => lock' = q
    BY <1>3
  <2> QED
    BY <2>1, <2>2, <1>2, RefuseKeeps DEF Outcomes
<1>7. CASE ~StepThrows(v, s)
  <2>1. proc' = [proc EXCEPT ![p] = x] /\ UNCHANGED <<lock, outcome>>
    BY <1>7 DEF MigrateStep
  <2>2. v = 10 => ~Contradicts(s)
    BY <1>7 DEF StepThrows
  <2>3. proc[p].fk = FALSE
    BY <1>2, <1>3 DEF Migrating
  <2> DEFINE w == Step(v, s, path, FALSE)
  <2>4. Moves(w, s, v)
    BY <1>1, <1>4, <1>5, <2>2, StepMoves
  <2> HIDE DEF w, v
  <2>5. x = Enter(proc[p], "steps", FALSE, v, w)
    BY <2>3 DEF w
  <2> HIDE DEF x
  <2>6. x \in States
    BY <2>4, <2>5, <1>1, <1>4, RetriesAssumption DEF Enter, States, Phases, Versions, TargetVersion, Moves
  <2>7. x.phase = "steps" /\ x.fk = FALSE /\ x.target = proc[p].target /\ x.at = v /\ x.work = w
    BY <2>5 DEF Enter
  <2>8. proc'[p] = x
    BY <2>1 DEF IInv, TypeOK
  <2>9. Copied(w, store)
    BY <1>2, <1>3, <2>4 DEF Migrating, Copied, Moves, SameRows, SameStamp
  <2>10. Migrating(p)'
    <3>1. Upgradable(store) /\ IsSchema(w, v) /\ store.version < proc[p].target
      BY <1>2, <1>3, <2>4 DEF Migrating, Moves
    <3>2. w.kind \in {store.kind, path}
      <4>1. s.kind \in {store.kind, path} /\ w.kind \in {s.kind, path}
        BY <1>1, <1>2, <1>3, <1>4, <1>5, <2>2, StepKind DEF Migrating, w
      <4> QED
        BY <4>1
    <3> QED
      BY <3>1, <3>2, <2>1, <2>7, <2>8, <2>9, <1>2, <1>3, <1>4 DEF Migrating
  <2>11. Passed(p)'
    BY <2>7, <2>8 DEF Passed
  <2> QED
    BY <2>1, <2>6, <2>10, <2>11, <1>2, StoreLeftAlone DEF IInv, TypeOK
<1> QED
  BY <1>6, <1>7

LEMMA SwitchJournalKeeps ==
  ASSUME IInv, NEW p \in Procs, SwitchJournal(p)
  PROVE  IInv'
<1> DEFINE x == Enter(proc[p], "begin", FALSE, 0, NULL)
<1>1. proc \in [Procs -> States] /\ store \in Files
  BY DEF IInv, TypeOK, States
<1>2. proc' = [proc EXCEPT ![p] = x] /\ UNCHANGED <<path, lock, outcome, ran>>
      /\ store' = [store EXCEPT !.wal = TRUE]
  BY DEF SwitchJournal, ForeignKeysWhileMigrating
<1>3. x \in States /\ x.phase = "begin" /\ x.fk = FALSE
  <2>1. proc[p] \in States
    BY <1>1
  <2> QED
    BY <2>1, RetriesAssumption DEF Enter, States, Phases, TargetVersion
<1> HIDE DEF x
<1>4. proc'[p] = x /\ \A q \in Procs \ {p} : proc'[q] = proc[q]
  BY <1>1, <1>2
<1>5. /\ store' \in Files /\ SameRows(store', store) /\ store'.brand = store.brand
      /\ store'.version = store.version /\ store'.kind = store.kind
      /\ store'.triggers = store.triggers /\ store'.index = store.index
      /\ store'.derived = store.derived /\ store'.features = store.features
      /\ store'.indexed = store.indexed
  BY <1>1, <1>2 DEF Files, SameRows
<1>6. \A n \in 0..TargetVersion : IsSchema(store, n) => IsSchema(store', n)
  <2>1. Present(store') = Present(store) /\ Raw(store') = Raw(store)
        /\ (Contradicts(store') <=> Contradicts(store)) /\ store'.cited = store.cited
    BY <1>5 DEF SameRows, Present, Raw, Contradicts
  <2> QED
    BY <2>1, <1>5 DEF IsSchema
<1>7. Historic(store)'
  BY <1>1, <1>5, <1>6 DEF IInv, Historic, Files, TargetVersion
<1>8. TypeOK' /\ StepsOnce'
  <2>1. proc' \in [Procs -> States]
    BY <1>1, <1>2, <1>3
  <2> QED
    BY <2>1, <1>2, <1>5 DEF IInv, TypeOK, StepsOnce, States
<1>9. ASSUME NEW q \in Procs PROVE Migrating(q)' /\ Passed(q)'
  <2>1. CASE q = p
    BY <2>1, <1>3, <1>4 DEF Migrating, Passed
  <2>2. CASE q # p
    <3>1. proc'[q] = proc[q] /\ Migrating(q) /\ Passed(q)
      BY <2>2, <1>4 DEF IInv
    <3>2. Migrating(q)'
      BY <3>1, <1>2, <1>5 DEF Migrating, Upgradable, Copied, SameRows
    <3>3. Passed(q)'
      BY <3>1, <1>2, <1>5 DEF Passed
    <3> QED
      BY <3>2, <3>3
  <2> QED
    BY <2>1, <2>2
<1> QED
  BY <1>7, <1>8, <1>9 DEF IInv

(* What the process that commits has in its hands.                          *)
LEMMA AtCommit ==
  ASSUME IInv, NEW p \in Procs, Commit(p)
  PROVE  /\ lock = p /\ proc[p].at = proc[p].target /\ proc[p].target \in Versions
         /\ Copied(proc[p].work, store) /\ IsSchema(proc[p].work, proc[p].target)
         /\ store.version <= proc[p].target /\ IsSound(proc[p].work)
         /\ Upgradable(store) /\ store.version < proc[p].target
         /\ proc[p].work.kind \in {store.kind, path}
<1>1. proc[p] \in States /\ proc[p].target \in Versions
  BY TargetsAre DEF IInv, TypeOK, States
<1>2. Migrating(p) /\ proc[p].phase = "steps" /\ proc[p].at = proc[p].target
  BY DEF IInv, Commit
<1>3. /\ lock = p /\ Copied(proc[p].work, store) /\ IsSchema(proc[p].work, proc[p].target)
      /\ store.version <= proc[p].target /\ Upgradable(store)
      /\ store.version < proc[p].target /\ proc[p].work.kind \in {store.kind, path}
  BY <1>2 DEF Migrating
<1>4. IsSound(proc[p].work)
  BY <1>3 DEF IsSound, IsSchema, Raw, Present
<1> QED
  BY <1>1, <1>2, <1>3, <1>4

LEMMA CommitKeeps ==
  ASSUME IInv, NEW p \in Procs, Commit(p)
  PROVE  IInv'
<1> DEFINE w == proc[p].work
           n == proc[p].target
           x == Enter(proc[p], "verify", TRUE, 0, NULL)
<1>1. /\ lock = p /\ proc[p].at = n /\ n \in Versions /\ Copied(w, store) /\ IsSchema(w, n)
      /\ store.version <= n /\ IsSound(w)
  BY AtCommit
<1>2. /\ store' = Stamp(w, n) /\ lock' = NULL /\ proc' = [proc EXCEPT ![p] = x]
      /\ ran' = [v \in Versions |-> IF w.version < v /\ v <= n THEN ran[v] + 1 ELSE ran[v]]
      /\ UNCHANGED <<path, outcome>>
  BY <1>1 DEF Commit
<1>3. proc \in [Procs -> States] /\ proc[p] \in States /\ store \in Files
  BY DEF IInv, TypeOK, States
<1>4. x \in States /\ x.phase = "verify" /\ x.fk = TRUE /\ x.target = n
  BY <1>3, RetriesAssumption DEF Enter, States, Phases, TargetVersion
<1> HIDE DEF x
<1>5. proc'[p] = x /\ \A q \in Procs \ {p} : proc'[q] = proc[q]
  BY <1>2, <1>3
<1> HIDE DEF n, w
<1>6. w \in Files
  BY <1>1 DEF Copied
<1>7. /\ store' \in Files /\ SameRows(store', w) /\ store'.brand = "ours" /\ store'.version = n
      /\ store'.kind = w.kind /\ store'.triggers = w.triggers /\ store'.index = w.index
      /\ store'.derived = w.derived /\ store'.features = w.features
      /\ store'.indexed = w.indexed
  <2> DEFINE b == [w EXCEPT !.brand = "ours"]
  <2>1. /\ b \in Files /\ SameRows(b, w) /\ b.brand = "ours"
        /\ b.kind = w.kind /\ b.triggers = w.triggers /\ b.index = w.index
        /\ b.derived = w.derived /\ b.features = w.features /\ b.indexed = w.indexed
    BY <1>6 DEF Files, SameRows
  <2>2. store' = [b EXCEPT !.version = n]
    BY <1>2 DEF Stamp
  <2>3. n \in 0..TargetVersion + 1
    BY <1>1 DEF Versions, TargetVersion
  <2> HIDE DEF b
  <2> QED
    BY <2>1, <2>2, <2>3 DEF Files, SameRows
<1>8. IsSchema(store', n)
  <2>1. Present(store') = Present(w) /\ Raw(store') = Raw(w)
        /\ (Contradicts(store') <=> Contradicts(w)) /\ store'.cited = w.cited
    BY <1>7 DEF SameRows, Present, Raw, Contradicts
  <2> QED
    BY <2>1, <1>1, <1>7 DEF IsSchema
<1>9. Historic(store)'
  BY <1>1, <1>7, <1>8 DEF Historic, Versions, TargetVersion
<1>10. ran' \in [Versions -> Nat] /\ StepsOnce'
  <2>1. ran \in [Versions -> Nat] /\ w.version = store.version /\ store.version \in Nat
    BY <1>1, <1>3 DEF IInv, TypeOK, Copied, Files
  <2>2. \A v \in Versions : ran[v] = IF v <= store.version THEN 1 ELSE 0
    BY DEF IInv, StepsOnce
  <2>3. \A v \in Versions : ran'[v] = IF v <= n THEN 1 ELSE 0
    BY <2>1, <2>2, <1>1, <1>2 DEF Versions, TargetVersion
  <2>4. ran' \in [Versions -> Nat]
    BY <2>1, <1>2
  <2> QED
    BY <2>3, <2>4, <1>7 DEF StepsOnce
<1>11. TypeOK'
  <2>1. proc' \in [Procs -> States]
    BY <1>2, <1>3, <1>4
  <2> QED
    BY <2>1, <1>2, <1>7, <1>10 DEF IInv, TypeOK, States
<1>12. ASSUME NEW q \in Procs PROVE Migrating(q)' /\ Passed(q)'
  <2>1. CASE q = p
    <3>1. Migrating(q)'
      BY <2>1, <1>4, <1>5 DEF Migrating
    <3>2. Passed(q)'
      BY <2>1, <1>1, <1>4, <1>5, <1>7 DEF Passed, Versions, TargetVersion
    <3> QED
      BY <3>1, <3>2
  <2>2. CASE q # p
    <3>1. proc'[q] = proc[q] /\ Migrating(q) /\ Passed(q)
      BY <2>2, <1>5 DEF IInv
    <3>2. proc[q].phase # "steps"
      BY <3>1, <2>2, <1>1 DEF Migrating
    <3>3. Migrating(q)'
      BY <3>1, <3>2 DEF Migrating
    <3>4. store.kind # "none" => store'.kind = store.kind
      BY <1>1, <1>7 DEF Copied
    <3>5. path # "none" /\ path' = path
      BY <1>2 DEF IInv, TypeOK, Kinds
    <3>6. proc[q].target \in Nat
      <4>1. proc[q] \in States
        BY <1>3
      <4> QED
        BY <4>1, TargetsAre DEF Versions, TargetVersion
    <3>7. Passed(q)'
      <4>1. ASSUME proc[q].phase \in {"verify", "note", "open"}
            PROVE  proc[q].target <= n /\ n <= TargetVersion /\ proc[q].fk = TRUE
        BY <4>1, <3>1, <3>6, <1>1, <1>3 DEF Passed, Versions, TargetVersion, Files
      <4>2. proc[q].phase = "begin" => proc[q].fk = FALSE
        BY <3>1 DEF Passed
      <4>3. proc[q].phase \in {"note", "open"} => store'.kind = path'
        BY <3>1, <3>4, <3>5 DEF Passed
      <4> QED
        BY <4>1, <4>2, <4>3, <3>1, <1>7 DEF Passed
    <3> QED
      BY <3>3, <3>7
  <2> QED
    BY <2>1, <2>2
<1> QED
  BY <1>9, <1>10, <1>11, <1>12 DEF IInv

LEMMA VerifyKindKeeps ==
  ASSUME IInv, NEW p \in Procs, VerifyKind(p)
  PROVE  IInv'
<1>1. proc[p] \in States /\ proc[p].phase = "verify" /\ UNCHANGED <<store, path, lock, ran>>
  BY DEF VerifyKind, IInv, TypeOK, States
<1>2. CASE store.kind # path
  <2>1. Refuse(p, "kind")
    BY <1>2 DEF VerifyKind
  <2> QED
    BY <2>1, <1>1, RefuseKeeps DEF Outcomes, IInv, TypeOK
<1>3. CASE store.kind = path
  <2> DEFINE next == IF proc[p].note THEN "note" ELSE "open"
             x == Enter(proc[p], next, proc[p].fk, 0, NULL)
  <2>1. /\ proc' = [proc EXCEPT ![p] = x]
        /\ outcome' = [outcome EXCEPT ![p] = IF proc[p].note THEN "none" ELSE "opened"]
    BY <1>3 DEF VerifyKind
  <2>2. next \in {"note", "open"}
    OBVIOUS
  <2> HIDE DEF next
  <2>3. /\ x \in States /\ x.phase \in {"note", "open"} /\ x.fk = proc[p].fk
        /\ x.target = proc[p].target
    BY <2>2, <1>1, RetriesAssumption DEF Enter, States, Phases, TargetVersion
  <2> HIDE DEF x
  <2>4. proc'[p] = x
    BY <2>1 DEF IInv, TypeOK
  <2>5. Migrating(p)'
    BY <2>3, <2>4 DEF Migrating
  <2>6. Passed(p)'
    BY <2>3, <2>4, <1>1, <1>3 DEF IInv, Passed
  <2>7. outcome' \in [Procs -> Outcomes]
    <3>1. (IF proc[p].note THEN "none" ELSE "opened") \in Outcomes
      BY DEF Outcomes
    <3> QED
      BY <3>1, <2>1 DEF IInv, TypeOK
  <2> QED
    BY <2>1, <2>3, <2>5, <2>6, <2>7, <1>1, StoreLeftAlone DEF IInv, TypeOK
<1> QED
  BY <1>2, <1>3

LEMMA NoteSourceKeeps ==
  ASSUME IInv, NEW p \in Procs, NoteSource(p)
  PROVE  IInv'
<1> DEFINE x == Enter(proc[p], "open", proc[p].fk, 0, NULL)
<1>1. proc[p] \in States /\ proc[p].phase = "note" /\ UNCHANGED <<store, path, lock, ran>>
  BY DEF NoteSource, IInv, TypeOK, States
<1>2. proc' = [proc EXCEPT ![p] = x] /\ outcome' = [outcome EXCEPT ![p] = "opened"]
  BY DEF NoteSource
<1>3. x \in States /\ x.phase = "open" /\ x.fk = proc[p].fk /\ x.target = proc[p].target
  BY <1>1, RetriesAssumption DEF Enter, States, Phases, TargetVersion
<1> HIDE DEF x
<1>4. proc'[p] = x
  BY <1>2 DEF IInv, TypeOK
<1>5. Migrating(p)' /\ Passed(p)'
  BY <1>1, <1>3, <1>4 DEF IInv, Migrating, Passed
<1> QED
  BY <1>1, <1>2, <1>3, <1>5, StoreLeftAlone DEF IInv, TypeOK, Outcomes

(* What a write does to the rows: one raw memory more, some derived ones less. *)
Retired(s) == IF s.triggers["invalidate"] = "none" THEN {}
              ELSE {x \in Rows : s.rows[x] \in {"derived", "contradicts"}}

LEMMA WriteIs ==
  ASSUME IInv, NEW p \in Procs, NEW r \in Rows, Write(p, r)
  PROVE  /\ store' \in Files /\ SameStamp(store', store) /\ store'.kind = store.kind
         /\ store'.triggers = store.triggers /\ store'.index = store.index
         /\ store'.derived = store.derived /\ store'.features = store.features
         /\ store'.rows = [x \in Rows |-> IF x = r THEN "raw" ELSE IF x \in Retired(store)
                                            THEN "none" ELSE store.rows[x]]
         /\ store'.cited = store.cited \cup {r}
         /\ store'.indexed = (store.indexed \cup {r}) \ Retired(store)
<1> DEFINE rows == [x \in Rows |-> IF x = r THEN "raw" ELSE IF x \in Retired(store)
                                     THEN "none" ELSE store.rows[x]]
           a == [store EXCEPT !.rows = rows]
           b == [a EXCEPT !.cited = store.cited \cup {r}]
           c == [b EXCEPT !.indexed = (store.indexed \cup {r}) \ Retired(store)]
<1>0. store \in Files
  BY DEF IInv, TypeOK
<1>1. rows \in [Rows -> RowStates]
  BY <1>0 DEF Files, RowStates
<1>2. store' = [store EXCEPT !.rows = rows, !.cited = store.cited \cup {r},
                             !.indexed = (store.indexed \cup {r}) \ Retired(store)]
  BY <1>0 DEF Write, Retired
<1> HIDE DEF rows
<1>3. store' = c
  BY <1>0, <1>2 DEF a, b, c, Files
<1>4. a \in Files /\ SameStamp(a, store) /\ a.kind = store.kind /\ a.triggers = store.triggers
      /\ a.index = store.index /\ a.derived = store.derived /\ a.features = store.features
      /\ a.rows = rows
  BY <1>0, <1>1 DEF Files, SameStamp
<1> HIDE DEF a
<1>5. b \in Files /\ SameStamp(b, store) /\ b.kind = store.kind /\ b.triggers = store.triggers
      /\ b.index = store.index /\ b.derived = store.derived /\ b.features = store.features
      /\ b.rows = rows /\ b.cited = store.cited \cup {r}
  BY <1>0, <1>4 DEF Files, SameStamp
<1> HIDE DEF b
<1>6. (store.indexed \cup {r}) \ Retired(store) \in SUBSET Rows
  BY <1>0 DEF Files
<1>7. c \in Files /\ SameStamp(c, store) /\ c.kind = store.kind /\ c.triggers = store.triggers
      /\ c.index = store.index /\ c.derived = store.derived /\ c.features = store.features
      /\ c.rows = rows /\ c.cited = store.cited \cup {r}
      /\ c.indexed = (store.indexed \cup {r}) \ Retired(store)
  BY <1>5, <1>6 DEF Files, SameStamp
<1> QED
  BY <1>3, <1>7 DEF rows

LEMMA WriteMoves ==
  ASSUME IInv, NEW p \in Procs, NEW r \in Rows, Write(p, r)
  PROVE  /\ Raw(store') = Raw(store) \cup {r}
         /\ Present(store') = (Present(store) \cup {r}) \ Retired(store)
         /\ Contradicts(store') => Contradicts(store)
<1>1. store'.rows = [x \in Rows |-> IF x = r THEN "raw" ELSE IF x \in Retired(store)
                                            THEN "none" ELSE store.rows[x]]
  BY WriteIs
<1>2. store.rows[r] = "none" /\ r \notin Retired(store)
  BY DEF Write, Retired
<1>3. \A x \in Rows : store.rows[x] = "raw" => x \notin Retired(store)
  BY DEF Retired
<1> QED
  BY <1>1, <1>2, <1>3 DEF Raw, Present, Contradicts

LEMMA WriteKeeps ==
  ASSUME IInv, NEW p \in Procs, NEW r \in Rows, Write(p, r)
  PROVE  IInv'
<1>1. /\ store' \in Files /\ SameStamp(store', store) /\ store'.kind = store.kind
      /\ store'.triggers = store.triggers /\ store'.index = store.index
      /\ store'.derived = store.derived /\ store'.features = store.features
      /\ store'.cited = store.cited \cup {r}
      /\ store'.indexed = (store.indexed \cup {r}) \ Retired(store)
  BY WriteIs
<1>2. /\ Raw(store') = Raw(store) \cup {r}
      /\ Present(store') = (Present(store) \cup {r}) \ Retired(store)
      /\ Contradicts(store') => Contradicts(store)
  BY WriteMoves
<1>3. proc[p].phase = "open" /\ lock = NULL /\ UNCHANGED <<path, lock, proc, outcome, ran>>
  BY DEF Write
<1>4. store.brand = "ours" /\ store.version > 0
  BY <1>3 DEF IInv, Passed, Historic
<1>5. ASSUME store.version <= TargetVersion PROVE IsSchema(store', store.version)
  <2>1. IsSchema(store, store.version)
    BY <1>4, <1>5 DEF IInv, Historic
  <2>2. store'.indexed = Present(store')
    BY <2>1, <1>1, <1>2 DEF IsSchema
  <2>3. store'.cited \subseteq Raw(store')
    BY <2>1, <1>1, <1>2 DEF IsSchema
  <2>4. store.version < 4 => Present(store') = Raw(store')
    <3> SUFFICES ASSUME store.version < 4 PROVE Present(store') = Raw(store')
      OBVIOUS
    <3>1. Present(store) = Raw(store)
      BY <2>1 DEF IsSchema
    <3>2. \A x \in Raw(store) \cup {r} : x \notin Retired(store)
      BY DEF Raw, Retired, Write
    <3> QED
      BY <3>1, <3>2, <1>2
  <2>5. store.version >= 10 => ~Contradicts(store')
    BY <2>1, <1>2 DEF IsSchema
  <2> QED
    BY <2>1, <2>2, <2>3, <2>4, <2>5, <1>1, <1>4 DEF IsSchema, IInv, TypeOK, Files
<1>6. Historic(store)'
  BY <1>1, <1>4, <1>5 DEF Historic, SameStamp
<1>7. TypeOK' /\ StepsOnce'
  BY <1>1, <1>3 DEF IInv, TypeOK, StepsOnce, SameStamp
<1>8. ASSUME NEW q \in Procs PROVE Migrating(q)' /\ Passed(q)'
  <2>1. proc[q].phase # "steps"
    BY <1>3, NullAssumption DEF IInv, Migrating
  <2>2. Migrating(q)'
    BY <2>1, <1>3 DEF Migrating
  <2>3. Passed(q)'
    BY <1>1, <1>3 DEF IInv, Passed, SameStamp
  <2> QED
    BY <2>2, <2>3
<1> QED
  BY <1>6, <1>7, <1>8 DEF IInv

LEMMA NextKeeps == IInv /\ [Next]_vars => IInv'
<1> SUFFICES ASSUME IInv, [Next]_vars PROVE IInv'
  OBVIOUS
<1>1. ASSUME UNCHANGED vars PROVE IInv'
  BY <1>1 DEF vars, IInv, TypeOK, Historic, StepsOnce, Migrating, Passed
<1>2. ASSUME NEW p \in Procs, Open(p) PROVE IInv'
  BY <1>2, OpenKeeps
<1>3. ASSUME NEW p \in Procs, Advance(p) PROVE IInv'
  BY <1>3, SwitchJournalKeeps, LoseRaceKeeps, BeginKeeps, MigrateStepKeeps, CommitKeeps,
     VerifyKindKeeps, NoteSourceKeeps DEF Advance
<1>4. ASSUME NEW p \in Procs, Dispose(p) PROVE IInv'
  BY <1>4, DisposeKeeps
<1>5. ASSUME NEW p \in Procs, Crash(p) PROVE IInv'
  BY <1>5, CrashKeeps
<1>6. ASSUME NEW p \in Procs, NEW r \in Rows, Write(p, r) PROVE IInv'
  BY <1>6, WriteKeeps
<1> QED
  BY <1>1, <1>2, <1>3, <1>4, <1>5, <1>6 DEF Next

(* In every reachable state the file is some release's, and every process is *)
(* where the checks it passed allow it to be.                               *)
THEOREM Invariance == Spec => []IInv
<1> QED
  BY InitHolds, NextKeeps, PTL DEF Spec

(* Every variable keeps to its type.                                        *)
THEOREM TypeCorrect == Spec => []TypeOK
<1>1. IInv => TypeOK
  BY DEF IInv
<1> QED
  BY <1>1, Invariance, PTL

(* The committed file is never half migrated, and no step is committed      *)
(* twice, whoever opens, crashes or loses the lock.                         *)
THEOREM Consistent == Spec => []StoreIsConsistent
<1>1. IInv => StoreIsConsistent
  BY DEF IInv, StoreIsConsistent, Historic
<1> QED
  BY <1>1, Invariance, PTL

(* A process serves a store only when it is what the process asked for.     *)
THEOREM ServedSound == Spec => []ServedStoreSound
<1>1. ASSUME IInv, NEW p \in Procs, proc[p].phase = "open"
      PROVE  /\ store.brand = "ours" /\ store.kind = path
             /\ store.version >= proc[p].target
             /\ store.version = TargetVersion => store.triggers = LiveTriggers(store.index)
             /\ Present(store) \subseteq store.indexed /\ proc[p].fk
  <2>1. /\ store.brand = "ours" /\ store.kind = path /\ proc[p].target <= store.version
        /\ store.version <= TargetVersion /\ proc[p].fk = TRUE
    BY <1>1 DEF IInv, Passed
  <2>2. IsSchema(store, store.version)
    BY <1>1, <2>1 DEF IInv, Historic
  <2>3. Present(store) \subseteq store.indexed
    BY <2>2 DEF IsSchema
  <2>4. ASSUME store.version = TargetVersion PROVE store.triggers = LiveTriggers(store.index)
    <3>1. store.triggers = EraTriggers(12) /\ store.index = "owned"
      BY <2>2, <2>4 DEF IsSchema, TriggerSets, IndexOf, TargetVersion
    <3>2. Reads(LiveTriggers("owned"), "owned", "none", "on", "none", "on", "source")
      BY LiveReads
    <3> QED
      BY <3>1, <3>2, EraReads, ReadAlike
  <2>5. store.version >= proc[p].target
    <3>1. proc[p] \in States /\ store \in Files
      BY <1>1 DEF IInv, TypeOK, States
    <3> QED
      BY <3>1, <2>1, TargetsAre DEF Versions, TargetVersion, Files
  <2> QED
    BY <2>1, <2>3, <2>4, <2>5
<1>2. IInv => ServedStoreSound
  BY <1>1 DEF ServedStoreSound
<1> QED
  BY <1>2, Invariance, PTL

(* No step of any process loses a raw memory, its evidence, or the kind.    *)
THEOREM Lossless == Spec => NothingLost
<1> DEFINE Kept == /\ Raw(store) \subseteq Raw(store') /\ store.cited \subseteq store'.cited
                   /\ store.kind # "none" => store'.kind = store.kind
<1>1. ASSUME IInv, [Next]_vars PROVE Kept \/ UNCHANGED vars
  <2>1. ASSUME store' = store PROVE Kept
    BY <2>1
  <2>2. ASSUME NEW p \in Procs, SwitchJournal(p) PROVE Kept
    <3>1. store'.rows = store.rows /\ store'.cited = store.cited /\ store'.kind = store.kind
      BY <1>1, <2>2 DEF SwitchJournal, IInv, TypeOK, Files
    <3> QED
      BY <3>1 DEF Raw
  <2>3. ASSUME NEW p \in Procs, Commit(p) PROVE Kept
    <3>1. Copied(proc[p].work, store) /\ IsSound(proc[p].work)
      BY <1>1, <2>3, AtCommit
    <3>2. store' = Stamp(proc[p].work, proc[p].target)
      BY <3>1, <2>3 DEF Commit
    <3>3. store'.rows = proc[p].work.rows /\ store'.cited = proc[p].work.cited
          /\ store'.kind = proc[p].work.kind
      BY <3>1, <3>2 DEF Stamp, Copied, Files
    <3> QED
      BY <3>1, <3>3 DEF Copied, SameRows, Raw
  <2>4. ASSUME NEW p \in Procs, NEW r \in Rows, Write(p, r) PROVE Kept
    BY <1>1, <2>4, WriteIs, WriteMoves
  <2> QED
    BY <1>1, <2>1, <2>2, <2>3, <2>4
       DEF Next, Advance, Open, LoseRace, BeginImmediate, MigrateStep, VerifyKind, NoteSource,
           Dispose, Crash, vars
<1>2. IInv /\ [Next]_vars => [Kept]_vars
  BY <1>1
<1> QED
  BY <1>2, Invariance, PTL DEF Spec, NothingLost

(* Only a row the v10 CHECK refuses keeps a store from being upgraded: no    *)
(* trigger name and no check before the stamp ever does.                    *)
THEOREM OnlyContradictionSticks == Spec => StuckOnlyOnContradiction
<1> DEFINE Named == \A p \in Procs : outcome'[p] \in {"threw", "unsound"} /\ outcome[p] # outcome'[p]
                                       => Contradicts(store) /\ store.version < 10
<1>1. ASSUME IInv, [Next]_vars PROVE Named
  <2>0. outcome \in [Procs -> Outcomes]
    BY <1>1 DEF IInv, TypeOK
  <2>1. ASSUME outcome' = outcome PROVE Named
    BY <2>1
  <2>2. ASSUME NEW p \in Procs, NEW why \in Outcomes \ {"threw", "unsound"},
               outcome' = [outcome EXCEPT ![p] = why]
        PROVE  Named
    BY <2>0, <2>2
  <2>3. ASSUME NEW p \in Procs, MigrateStep(p) PROVE Named
    <3>1. CASE StepThrows(proc[p].at + 1, proc[p].work)
      <4>1. proc[p].phase = "steps" /\ proc[p].at < proc[p].target /\ Migrating(p)
            /\ proc[p] \in States /\ store \in Files
        BY <1>1, <2>3 DEF IInv, TypeOK, States, MigrateStep
      <4>2. /\ Copied(proc[p].work, store) /\ store.version <= proc[p].at
            /\ IsSchema(proc[p].work, proc[p].at)
        BY <4>1 DEF Migrating
      <4>3. PICK v \in Versions : v = proc[p].at + 1 /\ v - 1 = proc[p].at
        BY <4>1, TargetsAre DEF States, Versions, TargetVersion
      <4>4. v = 10 /\ Contradicts(proc[p].work)
        <5>1. proc[p].work \in Files /\ IsSchema(proc[p].work, v - 1) /\ StepThrows(v, proc[p].work)
          BY <4>2, <4>3, <3>1 DEF Copied
        <5> QED
          BY <5>1, ThrowsOnContradiction
      <4>5. Contradicts(store)
        BY <4>2, <4>4 DEF Copied, SameRows, Contradicts
      <4>6. store.version \in Nat /\ proc[p].at \in Nat
        BY <4>1 DEF States, Files
      <4>7. store.version < 10
        BY <4>2, <4>3, <4>4, <4>6
      <4> QED
        BY <4>5, <4>7
    <3>2. CASE ~StepThrows(proc[p].at + 1, proc[p].work)
      BY <2>1, <2>3, <3>2 DEF MigrateStep
    <3> QED
      BY <3>1, <3>2
  <2>4. ASSUME NEW p \in Procs, Commit(p) PROVE Named
    BY <1>1, <2>1, <2>4, AtCommit DEF Commit
  <2>5. ASSUME NEW p \in Procs, Open(p) \/ Crash(p) PROVE Named
    BY <2>2, <2>5 DEF Open, Crash, Outcomes
  <2>6. ASSUME NEW p \in Procs, LoseRace(p) PROVE Named
    <3>1. UNCHANGED outcome \/ outcome' = [outcome EXCEPT ![p] = "busy"]
      BY <2>6 DEF LoseRace, Refuse
    <3> QED
      BY <3>1, <2>1, <2>2 DEF Outcomes
  <2>7. ASSUME NEW p \in Procs, BeginImmediate(p) PROVE Named
    <3>1. Refusal(store, proc[p].target) \in Outcomes \ {"threw", "unsound"}
      BY DEF Refusal, Outcomes
    <3>2. UNCHANGED outcome \/ outcome' = [outcome EXCEPT ![p] = Refusal(store, proc[p].target)]
      BY <2>7 DEF BeginImmediate, Refuse
    <3> QED
      BY <3>1, <3>2, <2>1, <2>2
  <2>8. ASSUME NEW p \in Procs, VerifyKind(p) PROVE Named
    <3>1. \/ outcome' = [outcome EXCEPT ![p] = "kind"]
          \/ outcome' = [outcome EXCEPT ![p] = IF proc[p].note THEN "none" ELSE "opened"]
      BY <2>8 DEF VerifyKind, Refuse
    <3>2. (IF proc[p].note THEN "none" ELSE "opened") \in Outcomes \ {"threw", "unsound"}
      BY DEF Outcomes
    <3> QED
      BY <3>1, <3>2, <2>2 DEF Outcomes
  <2>9. ASSUME NEW p \in Procs, NoteSource(p) PROVE Named
    BY <2>2, <2>9 DEF NoteSource, Outcomes
  <2>10. ASSUME UNCHANGED vars \/ (\E p \in Procs : SwitchJournal(p) \/ Dispose(p)
                                     \/ \E r \in Rows : Write(p, r))
         PROVE  Named
    BY <2>1, <2>10 DEF vars, SwitchJournal, Dispose, Write
  <2> QED
    BY <1>1, <2>3, <2>4, <2>5, <2>6, <2>7, <2>8, <2>9, <2>10 DEF Next, Advance
<1>2. IInv /\ [Next]_vars => [Named]_vars
  BY <1>1
<1> QED
  BY <1>2, Invariance, PTL DEF Spec, StuckOnlyOnContradiction

(***************************************************************************)
(* The file as its readers see it.                                         *)
(***************************************************************************)

\* The rows the view calls derived, of a file s.
DerivedRows(s) == {r \in Rows : s.rows[r] \in {"derived", "contradicts"}}

(* From version 5 on a file has a trigger that retires the derived rows.    *)
LEMMA Retires ==
  ASSUME NEW n \in Versions, NEW t \in TriggerSets(n)
  PROVE  t["invalidate"] = "none" <=> n < 5
<1>0. n \in {1, 2, 3, 4} \/ n \in 5..8 \/ n \in 9..10 \/ n = 11 \/ n = 12
  BY DEF Versions, TargetVersion
<1>1. EraTriggers(n)["invalidate"] = "none" <=> n < 5
  BY <1>0, EraReads DEF Reads
<1>2. n \in 6..11 => RebuiltTriggers(n)["invalidate"] = "source"
  BY RebuiltReads DEF Reads
<1> QED
  BY <1>1, <1>2 DEF TriggerSets

(* A write adds a memory to a file of ours, in its place, and retires.      *)
LEMMA WriteRemembers ==
  ASSUME IInv, NEW p \in Procs, NEW r \in Rows, Write(p, r)
  PROVE  View!Remember(r)
<1>1. proc[p].phase = "open" /\ store.rows[r] = "none" /\ UNCHANGED path
  BY DEF Write
<1>2. /\ store.brand = "ours" /\ store.version <= TargetVersion /\ store.kind = path
  BY <1>1 DEF IInv, Passed
<1>3. store.version \in Versions /\ IsSchema(store, store.version)
  BY <1>2 DEF IInv, Historic, TypeOK, Files, Versions, TargetVersion
<1>4. PICK n \in Versions : n = store.version
  BY <1>3
<1>5. store.triggers["invalidate"] = "none" <=> store.version < 5
  BY <1>3, <1>4, Retires DEF IsSchema
<1>6. /\ store'.brand = store.brand /\ store'.version = store.version
      /\ store'.kind = store.kind /\ store'.cited = store.cited \cup {r}
      /\ Raw(store') = Raw(store) \cup {r}
      /\ store'.rows = [x \in Rows |-> IF x = r THEN "raw" ELSE IF x \in Retired(store)
                                            THEN "none" ELSE store.rows[x]]
  BY WriteIs, WriteMoves DEF SameStamp
<1>7. Retired(store) = IF store.version >= 5 THEN DerivedRows(store) ELSE {}
  BY <1>3, <1>5 DEF Retired, DerivedRows, Versions, TargetVersion
<1>8. DerivedRows(store') = IF store.version >= 5 THEN {} ELSE DerivedRows(store)
  <2>1. \A x \in DerivedRows(store) : x # r
    BY <1>1 DEF DerivedRows
  <2>2. \A x \in Rows : store'.rows[x] \in {"derived", "contradicts"}
                          <=> x \in DerivedRows(store) /\ x \notin Retired(store)
    BY <1>6, <2>1 DEF DerivedRows
  <2>3. DerivedRows(store') = {x \in Rows : x \in DerivedRows(store) /\ x \notin Retired(store)}
    BY <2>2 DEF DerivedRows
  <2> QED
    BY <1>7, <2>3 DEF DerivedRows
<1>9. r \notin Raw(store) \cup DerivedRows(store)
  BY <1>1 DEF Raw, DerivedRows
<1> QED
  BY <1>1, <1>2, <1>6, <1>8, <1>9 DEF View!Remember, DerivedRows

(* A commit is an upgrade, of the file that is there at that instant.       *)
LEMMA CommitUpgrades ==
  ASSUME IInv, NEW p \in Procs, Commit(p)
  PROVE  View!Upgrade(proc[p].target) /\ proc[p].target \in 1..TargetVersion
<1> DEFINE w == proc[p].work
           n == proc[p].target
<1>1. /\ n \in Versions /\ Copied(w, store) /\ IsSchema(w, n) /\ IsSound(w)
      /\ Upgradable(store) /\ store.version < n /\ w.kind \in {store.kind, path}
  BY AtCommit
<1>2. store' = Stamp(w, n) /\ UNCHANGED path
  BY <1>1 DEF Commit
<1> HIDE DEF w, n
<1>3. w \in Files /\ w.rows = store.rows /\ w.cited = store.cited
      /\ (store.kind # "none" => w.kind = store.kind)
  BY <1>1 DEF Copied, SameRows
<1>4. /\ store'.brand = "ours" /\ store'.version = n /\ store'.kind = w.kind
      /\ store'.rows = store.rows /\ store'.cited = store.cited
  BY <1>2, <1>3 DEF Stamp, Files
<1>5. w.kind = IF store.kind # "none" THEN store.kind ELSE IF n < 3 THEN "none" ELSE path
  <2>1. w.kind = "none" <=> n < 3
    BY <1>1 DEF IsSchema
  <2> QED
    BY <2>1, <1>1, <1>3
<1>6. Raw(store') = Raw(store) /\ DerivedRows(store') = DerivedRows(store)
  BY <1>4 DEF Raw, DerivedRows
<1>7. View!Upgrade(n)
  BY <1>1, <1>2, <1>4, <1>5, <1>6 DEF View!Upgrade, Upgradable, DerivedRows
<1> QED
  BY <1>1, <1>7 DEF Versions, n

LEMMA ViewStep == IInv /\ [Next]_vars => [View!Next]_(View!file)
<1> SUFFICES ASSUME IInv, [Next]_vars PROVE [View!Next]_(View!file)
  OBVIOUS
<1>1. ASSUME store' = store, path' = path PROVE UNCHANGED View!file
  BY <1>1 DEF View!file, Raw
<1>2. ASSUME NEW p \in Procs, SwitchJournal(p) PROVE UNCHANGED View!file
  <2>1. /\ store'.brand = store.brand /\ store'.version = store.version
        /\ store'.kind = store.kind /\ store'.rows = store.rows /\ store'.cited = store.cited
        /\ path' = path
    BY <1>2 DEF SwitchJournal, IInv, TypeOK, Files
  <2> QED
    BY <2>1 DEF View!file, Raw
<1>3. ASSUME NEW p \in Procs, Commit(p) PROVE View!Next
  BY <1>3, CommitUpgrades DEF View!Next
<1>4. ASSUME NEW p \in Procs, NEW r \in Rows, Write(p, r) PROVE View!Next
  BY <1>4, WriteRemembers DEF View!Next
<1> QED
  BY <1>1, <1>2, <1>3, <1>4
     DEF Next, Advance, Open, LoseRace, BeginImmediate, MigrateStep, VerifyKind, NoteSource,
         Dispose, Crash, vars

(* Whoever opens a store, migrates it, dies or writes to it: its readers    *)
(* see whole upgrades of files of ours and memories with their evidence,    *)
(* and nothing else.                                                        *)
THEOREM FileImplemented == Spec => FileSpec
<1>1. IInv /\ Init => View!Init
  <2> SUFFICES ASSUME IInv, Init PROVE View!Init
    OBVIOUS
  <2>1. store \in Files /\ path \in Kinds
    BY DEF IInv, TypeOK
  <2>2. store.brand \in {"none", "ours", "foreign"} /\ store.version \in Nat
        /\ store.kind \in Kinds \cup {"none"} /\ store.cited \in SUBSET Rows
    BY <2>1 DEF Files
  <2> QED
    BY <2>1, <2>2 DEF View!Init, View!Kinds, Kinds, Raw
<1> QED
  BY <1>1, InitHolds, ViewStep, Invariance, PTL DEF Spec, FileSpec, View!Spec

-----------------------------------------------------------------------------
(* How much of an open is left.                                            *)

OpenLeft(q) ==
  CASE q.phase = "journal" -> 5 + 2 * Retries + TargetVersion + (Retries - q.attempt)
    [] q.phase = "begin"   -> 4 + Retries + TargetVersion + (Retries - q.attempt)
    [] q.phase = "steps"   -> 3 + Retries + (TargetVersion - q.at)
    [] q.phase = "verify"  -> 2 + Retries
    [] q.phase = "note"    -> 1 + (Retries - q.attempt)
    [] OTHER               -> 0

LEMMA LeftBounds ==
  ASSUME NEW q \in States
  PROVE  /\ q.phase = "journal" =>
              OpenLeft(q) = 5 + 2 * Retries + TargetVersion + (Retries - q.attempt)
         /\ q.phase = "begin" => OpenLeft(q) = 4 + Retries + TargetVersion + (Retries - q.attempt)
         /\ q.phase = "steps" => OpenLeft(q) = 3 + Retries + (TargetVersion - q.at)
         /\ q.phase = "verify" => OpenLeft(q) = 2 + Retries
         /\ q.phase = "note" => OpenLeft(q) = 1 + (Retries - q.attempt)
         /\ q.phase \in {"closed", "open", "disposed"} => OpenLeft(q) = 0
         /\ q.attempt \in 0..Retries /\ q.at \in 0..TargetVersion
         /\ OpenLeft(q) \in Nat
<1>1. /\ q.phase \in Phases /\ q.attempt \in 0..Retries /\ q.at \in 0..TargetVersion
      /\ Retries \in Nat /\ TargetVersion \in Nat
  BY RetriesAssumption DEF States, TargetVersion
<1>2. /\ q.phase = "journal" =>
            OpenLeft(q) = 5 + 2 * Retries + TargetVersion + (Retries - q.attempt)
      /\ q.phase = "begin" => OpenLeft(q) = 4 + Retries + TargetVersion + (Retries - q.attempt)
      /\ q.phase = "steps" => OpenLeft(q) = 3 + Retries + (TargetVersion - q.at)
      /\ q.phase = "verify" => OpenLeft(q) = 2 + Retries
      /\ q.phase = "note" => OpenLeft(q) = 1 + (Retries - q.attempt)
      /\ q.phase \in {"closed", "open", "disposed"} => OpenLeft(q) = 0
  BY <1>1 DEF OpenLeft
<1>3. OpenLeft(q) \in Nat
  <2>1. Retries - q.attempt \in Nat /\ TargetVersion - q.at \in Nat
    BY <1>1
  <2> HIDE DEF TargetVersion
  <2> QED
    BY <1>1, <1>2, <2>1 DEF Phases
<1> QED
  BY <1>1, <1>2, <1>3

(* Where a step of the open leads to.                                      *)
LEMMA LeftAfter ==
  ASSUME IInv, IInv', NEW p \in Procs, Advance(p)
  PROVE  OpenLeft(proc'[p]) < OpenLeft(proc[p])
<1>1. /\ proc[p] \in States /\ proc'[p] \in States /\ proc \in [Procs -> States]
      /\ Retries \in Nat /\ TargetVersion \in Nat
  BY RetriesAssumption DEF IInv, TypeOK, States, TargetVersion
<1> DEFINE q == proc[p]
           r == proc'[p]
<1>2. /\ q.attempt \in 0..Retries /\ q.at \in 0..TargetVersion
      /\ r.attempt \in 0..Retries /\ r.at \in 0..TargetVersion
  BY <1>1, LeftBounds
<1>3. ASSUME NEW why, Refuse(p, why), q.phase \in {"journal", "begin", "steps", "verify", "note"}
      PROVE  OpenLeft(r) < OpenLeft(q)
  <2>1. OpenLeft(r) = 0
    BY <1>1, <1>3, ClosedIs, LeftBounds DEF Refuse
  <2>2. OpenLeft(q) > 0
    <3> HIDE DEF TargetVersion
    <3> QED
      BY <1>1, <1>2, <1>3, LeftBounds
  <2> QED
    BY <2>1, <2>2
<1>4. CASE SwitchJournal(p)
  <2>1. r.phase = "begin" /\ q.phase = "journal"
    BY <1>1, <1>4 DEF SwitchJournal, Enter
  <2> HIDE DEF TargetVersion
  <2> QED
    BY <1>1, <1>2, <2>1, LeftBounds
<1>5. CASE LoseRace(p)
  <2>1. q.phase \in {"journal", "begin", "note"}
    BY <1>5 DEF LoseRace
  <2>2. ASSUME q.attempt < Retries, proc' = [proc EXCEPT ![p].attempt = NextTry(@)]
        PROVE  OpenLeft(r) < OpenLeft(q)
    <3>1. r.phase = q.phase /\ r.attempt = q.attempt + 1
      BY <1>1, <2>2 DEF NextTry, States
    <3> HIDE DEF TargetVersion
    <3> QED
      BY <1>1, <1>2, <2>1, <3>1, LeftBounds
  <2> QED
    BY <1>3, <1>5, <2>1, <2>2 DEF LoseRace
<1>6. CASE BeginImmediate(p)
  <2>1. q.phase = "begin"
    BY <1>6 DEF BeginImmediate
  <2>2. (\E why : Refuse(p, why)) \/ r.phase \in {"verify", "steps"}
    BY <1>1, <1>6 DEF BeginImmediate, Enter
  <2>3. CASE r.phase \in {"verify", "steps"}
    <3> HIDE DEF TargetVersion
    <3> QED
      BY <1>1, <1>2, <2>1, <2>3, LeftBounds
  <2> QED
    BY <1>3, <2>1, <2>2, <2>3
<1>7. CASE MigrateStep(p)
  <2>1. q.phase = "steps"
    BY <1>7 DEF MigrateStep
  <2>2. (\E why : Refuse(p, why)) \/ (r.phase = "steps" /\ r.at = q.at + 1)
    BY <1>1, <1>7 DEF MigrateStep, Enter, RollBack
  <2>3. CASE r.phase = "steps" /\ r.at = q.at + 1
    <3> HIDE DEF TargetVersion
    <3> QED
      BY <1>1, <1>2, <2>1, <2>3, LeftBounds
  <2> QED
    BY <1>3, <2>1, <2>2, <2>3
<1>8. CASE Commit(p)
  <2>1. q.phase = "steps"
    BY <1>8 DEF Commit
  <2>2. (\E why : Refuse(p, why)) \/ r.phase = "verify"
    BY <1>1, <1>8 DEF Commit, Enter, RollBack
  <2>3. CASE r.phase = "verify"
    <3> HIDE DEF TargetVersion
    <3> QED
      BY <1>1, <1>2, <2>1, <2>3, LeftBounds
  <2> QED
    BY <1>3, <2>1, <2>2, <2>3
<1>9. CASE VerifyKind(p)
  <2>1. q.phase = "verify"
    BY <1>9 DEF VerifyKind
  <2>2. (\E why : Refuse(p, why)) \/ r.phase \in {"note", "open"}
    BY <1>1, <1>9 DEF VerifyKind, Enter
  <2>3. CASE r.phase \in {"note", "open"}
    BY <1>1, <1>2, <2>1, <2>3, LeftBounds
  <2> QED
    BY <1>3, <2>1, <2>2, <2>3
<1>10. CASE NoteSource(p)
  <2>1. q.phase = "note" /\ r.phase = "open"
    BY <1>1, <1>10 DEF NoteSource, Enter
  <2> QED
    BY <1>1, <1>2, <2>1, LeftBounds
<1> QED
  BY <1>4, <1>5, <1>6, <1>7, <1>8, <1>9, <1>10 DEF Advance

(* The measure behind EveryOpenEnds: every step of an open uses it up, the  *)
(* ones that lose the lock included, and nothing another process does adds  *)
(* to it: from the call to the store or a refusal there are at most         *)
(* 3 * Retries + 17 steps.                                                 *)
THEOREM OpenRunsDown ==
  Spec => [][\A p \in Procs :
               /\ OpenLeft(proc[p]) \in 0 .. 3 * Retries + 17
               /\ Advance(p) => OpenLeft(proc'[p]) < OpenLeft(proc[p])
               /\ OpenLeft(proc'[p]) > OpenLeft(proc[p]) => Open(p)]_vars
<1>1. IInv /\ IInv' /\ [Next]_vars =>
        [\A p \in Procs :
           /\ OpenLeft(proc[p]) \in 0 .. 3 * Retries + 17
           /\ Advance(p) => OpenLeft(proc'[p]) < OpenLeft(proc[p])
           /\ OpenLeft(proc'[p]) > OpenLeft(proc[p]) => Open(p)]_vars
  <2> SUFFICES ASSUME IInv, IInv', Next, NEW p \in Procs
               PROVE  /\ OpenLeft(proc[p]) \in 0 .. 3 * Retries + 17
                      /\ Advance(p) => OpenLeft(proc'[p]) < OpenLeft(proc[p])
                      /\ OpenLeft(proc'[p]) > OpenLeft(proc[p]) => Open(p)
    OBVIOUS
  <2>1. /\ proc[p] \in States /\ proc'[p] \in States /\ proc \in [Procs -> States]
        /\ Retries \in Nat
    BY RetriesAssumption DEF IInv, TypeOK, States
  <2>2. OpenLeft(proc[p]) \in 0 .. 3 * Retries + 17
    BY <2>1, LeftBounds DEF States, Phases, TargetVersion
  <2>3. Advance(p) => OpenLeft(proc'[p]) < OpenLeft(proc[p])
    BY LeftAfter
  <2>4. ASSUME proc'[p].phase \in {"closed", "disposed"}
        PROVE  ~(OpenLeft(proc'[p]) > OpenLeft(proc[p]))
    <3>1. OpenLeft(proc'[p]) = 0
      BY <2>1, <2>4, LeftBounds
    <3> QED
      BY <2>2, <3>1
  <2>5. ASSUME proc'[p] = proc[p] PROVE ~(OpenLeft(proc'[p]) > OpenLeft(proc[p]))
    BY <2>2, <2>5
  <2>6. ASSUME NEW o \in Procs, Advance(o), o # p PROVE proc'[p] = proc[p]
    BY <2>1, <2>6 DEF Advance, SwitchJournal, LoseRace, BeginImmediate, MigrateStep, Commit,
                      VerifyKind, NoteSource, Refuse, RollBack
  <2>7. ASSUME NEW o \in Procs, Open(o), o # p PROVE proc'[p] = proc[p]
    BY <2>1, <2>7 DEF Open
  <2>8. ASSUME NEW o \in Procs, Dispose(o) \/ Crash(o)
        PROVE  proc'[p] = proc[p] \/ proc'[p].phase \in {"closed", "disposed"}
    BY <2>1, <2>8 DEF Dispose, Crash, Closed
  <2>9. ASSUME NEW o \in Procs, NEW r \in Rows, Write(o, r) PROVE proc'[p] = proc[p]
    BY <2>9 DEF Write
  <2>10. OpenLeft(proc'[p]) > OpenLeft(proc[p]) => Open(p)
    <3>1. Advance(p) => ~(OpenLeft(proc'[p]) > OpenLeft(proc[p]))
      <4>1. OpenLeft(proc'[p]) \in Nat /\ OpenLeft(proc[p]) \in Nat
        BY <2>1, LeftBounds
      <4> QED
        BY <2>3, <4>1
    <3> QED
      BY <2>4, <2>5, <2>6, <2>7, <2>8, <2>9, <3>1 DEF Next
  <2> QED
    BY <2>2, <2>3, <2>10
<1> QED
  BY <1>1, Invariance, PTL DEF Spec
=============================================================================
