-------------------------- MODULE ProvenanceProofs --------------------------
(***************************************************************************)
(* Theorems about Provenance, for any turns, content, replies, budgets and  *)
(* names of subagent tools.                                                *)
(***************************************************************************)
EXTENDS Provenance, FiniteSetTheorems, WellFoundedInduction, TLAPS

(* Induction, told of sets: what some natural lacks, a first one lacks. *)
LEMMA LeastNatural ==
  ASSUME NEW T \in SUBSET Nat, T # {}
  PROVE  \E x \in T : \A y \in T : x <= y
<1>1. PICK x \in T : \A y \in T : ~(<<y, x>> \in OpToRel(<, Nat))
  BY NatLessThanWellFounded, WFMin
<1>2. \A y \in T : ~(y < x)
  BY <1>1 DEF OpToRel
<1> QED
  BY <1>2

(* What is defined by recursion over the naturals exists: the provers know a *)
(* recursive function only as a CHOOSE. *)
LEMMA Recursion ==
  ASSUME NEW S, NEW c \in S, NEW F \in [S \X Nat -> S]
  PROVE  \E g \in [Nat -> S] : g[0] = c /\ \A n \in Nat : g[n + 1] = F[<<g[n], n + 1>>]
<1> DEFINE Upto(n) == {a \in [0..n -> S] : a[0] = c /\ \A i \in 1..n : a[i] = F[<<a[i - 1], i>>]}
<1>1. \A n \in Nat : Upto(n) # {}
  <2> SUFFICES ASSUME {n \in Nat : Upto(n) = {}} # {} PROVE FALSE
    OBVIOUS
  <2>1. PICK m \in {n \in Nat : Upto(n) = {}} : \A k \in {n \in Nat : Upto(n) = {}} : m <= k
    <3> HIDE DEF Upto
    <3> QED
      BY LeastNatural
  <2>2. CASE m = 0
    <3>1. [i \in 0..0 |-> c] \in Upto(0)
      OBVIOUS
    <3> QED
      BY <2>1, <2>2, <3>1
  <2>3. CASE m # 0
    <3>1. m - 1 \in Nat /\ Upto(m - 1) # {}
      <4> HIDE DEF Upto
      <4> QED
        BY <2>1, <2>3
    <3>2. PICK a \in Upto(m - 1) : TRUE
      BY <3>1
    <3> DEFINE b == [i \in 0..m |-> IF i = m THEN F[<<a[m - 1], m>>] ELSE a[i]]
    <3>3. a[m - 1] \in S /\ F[<<a[m - 1], m>>] \in S
      BY <3>1, <3>2
    <3>4. b \in [0..m -> S] /\ b[0] = c
      BY <2>3, <3>1, <3>2, <3>3
    <3>5. ASSUME NEW i \in 1..m PROVE b[i] = F[<<b[i - 1], i>>]
      <4>0. b[m] = F[<<a[m - 1], m>>] /\ b[m - 1] = a[m - 1]
        BY <3>1
      <4>1. CASE i = m
        <5> HIDE DEF b
        <5> QED
          BY <4>0, <4>1
      <4>2. CASE i # m
        BY <4>2, <3>1, <3>2
      <4> HIDE DEF b
      <4> QED
        BY <4>1, <4>2
    <3> QED
      BY <2>1, <3>4, <3>5
  <2> QED
    BY <2>2, <2>3
<1>2. ASSUME NEW n \in Nat, NEW a \in Upto(n), NEW b \in Upto(n + 1) PROVE a[n] = b[n]
  <2> DEFINE T == {i \in 0..n : a[i] # b[i]}
  <2> SUFFICES ASSUME T # {} PROVE FALSE
    OBVIOUS
  <2>1. PICK m \in T : \A k \in T : m <= k
    <3>1. T \in SUBSET Nat
      OBVIOUS
    <3> QED
      BY <3>1, LeastNatural
  <2>2. m # 0 /\ m \in 1..n /\ m \in 1..(n + 1) /\ m - 1 \in 0..n
    BY <2>1
  <2>3. a[m - 1] = b[m - 1]
    BY <2>1, <2>2
  <2> QED
    BY <2>1, <2>2, <2>3
<1> DEFINE A(n) == CHOOSE a \in Upto(n) : TRUE
           g == [n \in Nat |-> A(n)[n]]
<1>3. \A n \in Nat : A(n) \in Upto(n)
  <2> HIDE DEF Upto
  <2> QED
    BY <1>1
<1>4. \A n \in Nat : A(n)[n] \in S /\ A(0)[0] = c
  <2> HIDE DEF A
  <2> QED
    BY <1>3
<1>5. ASSUME NEW n \in Nat PROVE A(n + 1)[n + 1] = F[<<A(n)[n], n + 1>>]
  <2>1. A(n)[n] = A(n + 1)[n]
    <3> HIDE DEF A, Upto
    <3> QED
      BY <1>2, <1>3
  <2>2. A(n + 1) \in Upto(n + 1)
    <3> HIDE DEF A, Upto
    <3>1. n + 1 \in Nat
      OBVIOUS
    <3> QED
      BY <1>3, <3>1
  <2> HIDE DEF A
  <2>3. A(n + 1)[n + 1] = F[<<A(n + 1)[(n + 1) - 1], n + 1>>]
    BY <2>2
  <2> QED
    BY <2>1, <2>3
<1>6. g \in [Nat -> S] /\ g[0] = c
  <2> HIDE DEF A
  <2> QED
    BY <1>4
<1>7. ASSUME NEW n \in Nat PROVE g[n + 1] = F[<<g[n], n + 1>>]
  <2> HIDE DEF A
  <2>1. g[n] = A(n)[n] /\ g[n + 1] = A(n + 1)[n + 1]
    OBVIOUS
  <2> QED
    BY <1>5, <2>1
<1> HIDE DEF g
<1> QED
  BY <1>6, <1>7

At(rows, n) == {r \in rows : r.seq = n}

(* What is kept and what is left after the rows up to a seq. *)
SpentUpTo(rows, f) ==
  /\ f \in [Nat -> [kept : SUBSET rows, budget : Int]]
  /\ f[0] = [kept |-> {}, budget |-> EXTRACT_TRANSCRIPT_CHARS - Wrapper]
  /\ \A n \in Nat : f[n + 1] = IF At(rows, n + 1) = {} THEN f[n]
                               ELSE Spend(f[n], CHOOSE r \in At(rows, n + 1) : TRUE)

(* The records of a transcript. *)
LEMMA SpendType ==
  ASSUME NEW rows, NEW acc \in [kept : SUBSET rows, budget : Int], NEW r \in rows, r.chars \in Nat
  PROVE  Spend(acc, r) \in [kept : SUBSET rows, budget : Int] /\ RecordChars(r) \in Nat
<1>1. RecordChars(r) \in Nat
  BY CharsAssumption DEF RecordChars
<1> QED
  BY <1>1 DEF Spend

(* The transcript is what has been kept when the last row is done. *)
LEMMA Spending ==
  ASSUME NEW rows, \A r \in rows : r.chars \in Nat
  PROVE  \E f : SpentUpTo(rows, f) /\ RenderTranscript(rows) = f[Len(log)].kept
<1> DEFINE S == [kept : SUBSET rows, budget : Int]
           base == [kept |-> {}, budget |-> EXTRACT_TRANSCRIPT_CHARS - Wrapper]
           Then(acc, n) == IF {r \in rows : r.seq = n} = {} THEN acc
                           ELSE Spend(acc, CHOOSE r \in {r \in rows : r.seq = n} : TRUE)
           D(h) == [n \in Nat |-> IF n = 0 THEN base
                                   ELSE IF {r \in rows : r.seq = n} = {} THEN h[n - 1]
                                   ELSE Spend(h[n - 1], CHOOSE r \in {r \in rows : r.seq = n} : TRUE)]
           F == [x \in S \X Nat |-> Then(x[1], x[2])]
           h == CHOOSE f : f = D(f)
<1>1. RenderTranscript(rows) = h[Len(log)].kept
  BY DEF RenderTranscript, OverRows
<1>2. base \in S /\ \A acc \in S, n \in Nat : Then(acc, n) \in S
  <2>1. base \in S
    BY CharsAssumption
  <2>2. ASSUME NEW acc \in S, NEW n \in Nat PROVE Then(acc, n) \in S
    <3>1. CASE {r \in rows : r.seq = n} = {}
      BY <3>1
    <3>2. CASE {r \in rows : r.seq = n} # {}
      <4>1. (CHOOSE r \in {r \in rows : r.seq = n} : TRUE) \in rows
        BY <3>2
      <4> QED
        BY <3>2, <4>1, SpendType
    <3> QED
      BY <3>1, <3>2
  <2> QED
    BY <2>1, <2>2
<1>3. \E f \in [Nat -> S] : f = D(f)
  <2> HIDE DEF Then, S, base
  <2>1. F \in [S \X Nat -> S]
    BY <1>2
  <2>2. PICK f \in [Nat -> S] : f[0] = base /\ \A n \in Nat : f[n + 1] = F[<<f[n], n + 1>>]
    <3>1. base \in S
      BY <1>2
    <3> HIDE DEF F
    <3>2. \A c \in S, G \in [S \X Nat -> S] :
            \E g \in [Nat -> S] : g[0] = c /\ \A n \in Nat : g[n + 1] = G[<<g[n], n + 1>>]
      BY Recursion
    <3> QED
      BY <2>1, <3>1, <3>2
  <2>3. ASSUME NEW n \in Nat PROVE f[n + 1] = Then(f[n], n + 1)
    <3>1. f[n] \in S /\ n + 1 \in Nat
      BY <2>2
    <3> QED
      BY <2>2, <3>1
  <2>4. ASSUME NEW n \in Nat, n # 0 PROVE f[n] = Then(f[n - 1], n)
    <3>1. n - 1 \in Nat /\ (n - 1) + 1 = n
      BY <2>4
    <3> HIDE DEF F, D
    <3> QED
      BY <2>3, <3>1
  <2>5. f = [n \in Nat |-> IF n = 0 THEN base ELSE Then(f[n - 1], n)]
    BY <2>2, <2>4
  <2> QED
    BY <2>5 DEF Then
<1>4. h = D(h)
  <2>1. \E f : f = D(f)
    BY <1>3
  <2> HIDE DEF D
  <2> QED
    BY <2>1, Zenon
<1>5. h = [n \in Nat |-> IF n = 0 THEN base ELSE Then(h[n - 1], n)]
  BY <1>4
<1> HIDE DEF h, Then, base, S
<1>6. h[0] = base /\ \A n \in Nat : h[n + 1] = Then(h[n], n + 1)
  <2>1. ASSUME NEW n \in Nat PROVE h[n + 1] = Then(h[n], n + 1)
    <3>1. n + 1 \in Nat /\ n + 1 # 0 /\ (n + 1) - 1 = n
      OBVIOUS
    <3> QED
      BY <1>5, <3>1
  <2> QED
    BY <1>5, <2>1
<1>7. \A n \in Nat : h[n] \in S
  <2> DEFINE T == {n \in Nat : h[n] \notin S}
  <2> SUFFICES ASSUME T # {} PROVE FALSE
    OBVIOUS
  <2>1. PICK m \in T : \A k \in T : m <= k
    BY LeastNatural
  <2>2. m # 0
    BY <1>2, <1>6, <2>1
  <2>3. m - 1 \in Nat /\ h[m - 1] \in S /\ (m - 1) + 1 = m
    BY <2>1, <2>2
  <2> QED
    BY <1>2, <1>6, <2>1, <2>3
<1>8. h \in [Nat -> S]
  BY <1>5, <1>7
<1> QED
  BY <1>1, <1>6, <1>8 DEF SpentUpTo, Then, base, S, At

(* The price of the rows up to a seq, each behind a comma. *)
PricedUpTo(rows, f) ==
  /\ f \in [Nat -> Nat]
  /\ f[0] = 0
  /\ \A n \in Nat : f[n + 1] = IF At(rows, n + 1) = {} THEN f[n]
                               ELSE f[n] + RecordChars(CHOOSE r \in At(rows, n + 1) : TRUE) + 1

LEMMA RecordType == ASSUME NEW r, r.chars \in Nat PROVE RecordChars(r) \in Nat
BY CharsAssumption DEF RecordChars

(* The payload is as long as its records, its commas and its wrapper. *)
LEMMA Pricing ==
  ASSUME NEW rows, \A r \in rows : r.chars \in Nat
  PROVE  \E f : PricedUpTo(rows, f) /\ PayloadChars(rows) = Wrapper + f[Len(log)] - IF rows = {} THEN 0 ELSE 1
<1> DEFINE S == Nat
           base == 0
           Then(acc, n) == IF {r \in rows : r.seq = n} = {} THEN acc
                           ELSE acc + RecordChars(CHOOSE r \in {r \in rows : r.seq = n} : TRUE) + 1
           D(h) == [n \in Nat |-> IF n = 0 THEN base
                                   ELSE IF {r \in rows : r.seq = n} = {} THEN h[n - 1]
                                   ELSE h[n - 1] + RecordChars(CHOOSE r \in {r \in rows : r.seq = n} : TRUE) + 1]
           F == [x \in S \X Nat |-> Then(x[1], x[2])]
           h == CHOOSE f : f = D(f)
<1>1. PayloadChars(rows) = Wrapper + h[Len(log)] - IF rows = {} THEN 0 ELSE 1
  BY DEF PayloadChars, OverRows
<1>2. base \in S /\ \A acc \in S, n \in Nat : Then(acc, n) \in S
  <2>1. base \in S
    OBVIOUS
  <2>2. ASSUME NEW acc \in S, NEW n \in Nat PROVE Then(acc, n) \in S
    <3>1. CASE {r \in rows : r.seq = n} = {}
      BY <3>1
    <3>2. CASE {r \in rows : r.seq = n} # {}
      <4>1. (CHOOSE r \in {r \in rows : r.seq = n} : TRUE) \in rows
        BY <3>2
      <4> QED
        BY <3>2, <4>1, RecordType
    <3> QED
      BY <3>1, <3>2
  <2> QED
    BY <2>1, <2>2
<1>3. \E f \in [Nat -> S] : f = D(f)
  <2> HIDE DEF Then, S, base
  <2>1. F \in [S \X Nat -> S]
    BY <1>2
  <2>2. PICK f \in [Nat -> S] : f[0] = base /\ \A n \in Nat : f[n + 1] = F[<<f[n], n + 1>>]
    <3>1. base \in S
      BY <1>2
    <3> HIDE DEF F
    <3>2. \A c \in S, G \in [S \X Nat -> S] :
            \E g \in [Nat -> S] : g[0] = c /\ \A n \in Nat : g[n + 1] = G[<<g[n], n + 1>>]
      BY Recursion
    <3> QED
      BY <2>1, <3>1, <3>2
  <2>3. ASSUME NEW n \in Nat PROVE f[n + 1] = Then(f[n], n + 1)
    <3>1. f[n] \in S /\ n + 1 \in Nat
      BY <2>2
    <3> QED
      BY <2>2, <3>1
  <2>4. ASSUME NEW n \in Nat, n # 0 PROVE f[n] = Then(f[n - 1], n)
    <3>1. n - 1 \in Nat /\ (n - 1) + 1 = n
      BY <2>4
    <3> HIDE DEF F, D
    <3> QED
      BY <2>3, <3>1
  <2>5. f = [n \in Nat |-> IF n = 0 THEN base ELSE Then(f[n - 1], n)]
    BY <2>2, <2>4
  <2> QED
    BY <2>5 DEF Then
<1>4. h = D(h)
  <2>1. \E f : f = D(f)
    BY <1>3
  <2> HIDE DEF D
  <2> QED
    BY <2>1, Zenon
<1>5. h = [n \in Nat |-> IF n = 0 THEN base ELSE Then(h[n - 1], n)]
  BY <1>4
<1> HIDE DEF h, Then, base, S
<1>6. h[0] = base /\ \A n \in Nat : h[n + 1] = Then(h[n], n + 1)
  <2>1. ASSUME NEW n \in Nat PROVE h[n + 1] = Then(h[n], n + 1)
    <3>1. n + 1 \in Nat /\ n + 1 # 0 /\ (n + 1) - 1 = n
      OBVIOUS
    <3> QED
      BY <1>5, <3>1
  <2> QED
    BY <1>5, <2>1
<1>7. \A n \in Nat : h[n] \in S
  <2> DEFINE T == {n \in Nat : h[n] \notin S}
  <2> SUFFICES ASSUME T # {} PROVE FALSE
    OBVIOUS
  <2>1. PICK m \in T : \A k \in T : m <= k
    BY LeastNatural
  <2>2. m # 0
    BY <1>2, <1>6, <2>1
  <2>3. m - 1 \in Nat /\ h[m - 1] \in S /\ (m - 1) + 1 = m
    BY <2>1, <2>2
  <2> QED
    BY <1>2, <1>6, <2>1, <2>3
<1>8. h \in [Nat -> S]
  BY <1>5, <1>7
<1> QED
  BY <1>1, <1>6, <1>8 DEF PricedUpTo, Then, base, S, At

(* For every turn: the budget left after each row is what the payload leaves *)
(* of it, so the payload fits and a row that was skipped still does not. *)
LEMMA Transcript ==
  ASSUME NEW rows, Len(log) \in Nat,
         \A r \in rows : r.chars \in Nat /\ r.seq \in 1..Len(log),
         \A r, s \in rows : r.seq = s.seq => r = s
  PROVE  LET kept == RenderTranscript(rows) IN
         /\ kept \subseteq rows
         /\ PayloadChars(kept) <= EXTRACT_TRANSCRIPT_CHARS
         /\ \A r \in rows \ kept : PayloadChars(kept) + 1 + RecordChars(r) > EXTRACT_TRANSCRIPT_CHARS
<1> DEFINE N == Len(log)
           K == RenderTranscript(rows)
<1> HIDE DEF K
<1>1. PICK f : SpentUpTo(rows, f) /\ K = f[N].kept
  BY Spending DEF K
<1>f. /\ \A n \in Nat : f[n] \in [kept : SUBSET rows, budget : Int]
      /\ f[0] = [kept |-> {}, budget |-> EXTRACT_TRANSCRIPT_CHARS - Wrapper]
  BY <1>1 DEF SpentUpTo
<1>k. K \in SUBSET rows
  BY <1>1, <1>f
<1>2. ASSUME NEW n \in Nat, At(rows, n + 1) = {}
      PROVE  f[n + 1] = f[n] /\ At(K, n + 1) = {}
  <2>1. f[n + 1] = f[n]
    BY <1>1, <1>2 DEF SpentUpTo
  <2> QED
    BY <2>1, <1>2, <1>k DEF At
<1>3. ASSUME NEW n \in Nat, NEW r \in rows, r.seq = n + 1
      PROVE  /\ f[n + 1] = Spend(f[n], r)
             /\ f[n + 1] = IF RecordChars(r) + (IF f[n].kept = {} THEN 0 ELSE 1) > f[n].budget THEN f[n]
                           ELSE [kept |-> f[n].kept \cup {r},
                                 budget |-> f[n].budget - (RecordChars(r) + IF f[n].kept = {} THEN 0 ELSE 1)]
             /\ At(rows, n + 1) = {r}
             /\ RecordChars(r) \in Nat
  <2>1. At(rows, n + 1) = {r}
    BY <1>3 DEF At
  <2>2. (CHOOSE x \in At(rows, n + 1) : TRUE) = r
    BY <2>1
  <2>3. f[n + 1] = Spend(f[n], r)
    BY <1>1, <2>1, <2>2 DEF SpentUpTo
  <2> QED
    BY <2>1, <2>3, RecordType DEF Spend
<1>4. ASSUME NEW n \in Nat
      PROVE  /\ f[n + 1].budget <= f[n].budget
             /\ f[n].kept \subseteq f[n + 1].kept
             /\ \A r \in f[n + 1].kept \ f[n].kept : r.seq = n + 1
  <2>1. CASE At(rows, n + 1) = {}
    BY <2>1, <1>2, <1>f
  <2>2. CASE At(rows, n + 1) # {}
    <3>1. PICK r \in rows : r.seq = n + 1
      BY <2>2 DEF At
    <3> DEFINE comma == IF f[n].kept = {} THEN 0 ELSE 1
    <3>2. /\ f[n].budget \in Int /\ RecordChars(r) \in Nat /\ comma \in Nat
          /\ f[n + 1] = IF RecordChars(r) + comma > f[n].budget THEN f[n]
                        ELSE [kept |-> f[n].kept \cup {r}, budget |-> f[n].budget - (RecordChars(r) + comma)]
      BY <1>3, <3>1, <1>f
    <3> HIDE DEF comma
    <3>3. CASE RecordChars(r) + comma > f[n].budget
      BY <3>2, <3>3
    <3>4. CASE ~ (RecordChars(r) + comma > f[n].budget)
      <4>1. f[n + 1].kept = f[n].kept \cup {r} /\ f[n + 1].budget = f[n].budget - (RecordChars(r) + comma)
        BY <3>2, <3>4
      <4> QED
        BY <3>1, <3>2, <4>1
    <3> QED
      BY <3>3, <3>4
  <2> QED
    BY <2>1, <2>2
<1>5. \A n \in Nat : \A r \in f[n].kept : r.seq <= n
  <2> DEFINE T == {n \in Nat : ~ \A r \in f[n].kept : r.seq <= n}
  <2> SUFFICES ASSUME T # {} PROVE FALSE
    OBVIOUS
  <2>1. PICK m \in T : \A k \in T : m <= k
    BY LeastNatural
  <2>2. m # 0
    BY <1>f, <2>1
  <2>3. m - 1 \in Nat /\ m - 1 \notin T /\ (m - 1) + 1 = m
    BY <2>1, <2>2
  <2>4. PICK r \in f[m].kept : ~ (r.seq <= m)
    BY <2>1
  <2>5. m \in Nat /\ r \in rows /\ r.seq \in Nat
    BY <2>1, <2>4, <1>f
  <2>6. CASE r \in f[m - 1].kept
    BY <2>3, <2>4, <2>5, <2>6
  <2>7. CASE r \notin f[m - 1].kept
    <3>1. r \in f[(m - 1) + 1].kept \ f[m - 1].kept
      BY <2>3, <2>4, <2>7
    <3>2. r.seq = (m - 1) + 1
      BY <2>3, <3>1, <1>4
    <3> QED
      BY <2>3, <2>4, <2>5, <3>2
  <2> QED
    BY <2>6, <2>7
<1>6. \A m \in Nat : \A r \in rows : r.seq <= m => (r \in f[m].kept <=> r \in f[r.seq].kept)
  <2> DEFINE Q(m) == \A r \in rows : r.seq <= m => (r \in f[m].kept <=> r \in f[r.seq].kept)
             T == {m \in Nat : ~ Q(m)}
  <2> SUFFICES ASSUME T # {} PROVE FALSE
    OBVIOUS
  <2>1. PICK m \in T : \A k \in T : m <= k
    <3> HIDE DEF Q
    <3> QED
      BY LeastNatural
  <2>2. PICK r \in rows : r.seq <= m /\ ~ (r \in f[m].kept <=> r \in f[r.seq].kept)
    BY <2>1
  <2>3. m \in Nat /\ m # 0 /\ r.seq \in Nat /\ r.seq # m
    BY <2>1, <2>2
  <2>4. m - 1 \in Nat /\ m - 1 \notin T /\ (m - 1) + 1 = m /\ r.seq <= m - 1
    <3> HIDE DEF Q
    <3> QED
      BY <2>1, <2>2, <2>3
  <2>5. r \in f[m - 1].kept <=> r \in f[r.seq].kept
    BY <2>4
  <2>6. r \in f[m].kept <=> r \in f[m - 1].kept
    BY <2>3, <2>4, <1>4
  <2> QED
    BY <2>2, <2>5, <2>6
<1>7. \A r \in rows : r \in K <=> r \in f[r.seq].kept
  BY <1>1, <1>6
<1>8. \A r \in K : r.chars \in Nat
  BY <1>k
<1>9. PICK g : PricedUpTo(K, g) /\ PayloadChars(K) = Wrapper + g[N] - IF K = {} THEN 0 ELSE 1
  BY <1>8, Pricing
<1>g. g[0] = 0 /\ \A n \in Nat : g[n] \in Nat
  BY <1>9 DEF PricedUpTo
<1> DEFINE Square(n) == /\ f[n].budget = EXTRACT_TRANSCRIPT_CHARS - Wrapper - g[n] + (IF f[n].kept = {} THEN 0 ELSE 1)
                        /\ f[n].budget >= 0
                        /\ f[n].kept = {} => g[n] = 0
<1>10. ASSUME NEW n \in Nat, Square(n) PROVE Square(n + 1)
  <2>t. /\ f[n] \in [kept : SUBSET rows, budget : Int] /\ g[n] \in Nat
        /\ EXTRACT_TRANSCRIPT_CHARS \in Nat /\ Wrapper \in Nat
    BY <1>f, <1>g, CharsAssumption
  <2>1. CASE At(rows, n + 1) = {}
    <3>1. g[n + 1] = g[n] /\ f[n + 1] = f[n]
      BY <2>1, <1>2, <1>9 DEF PricedUpTo
    <3> QED
      BY <1>10, <3>1
  <2>2. CASE At(rows, n + 1) # {}
    <3>1. PICK r \in rows : r.seq = n + 1
      BY <2>2 DEF At
    <3> DEFINE comma == IF f[n].kept = {} THEN 0 ELSE 1
    <3>2. r \notin f[n].kept
      BY <3>1, <1>5
    <3>3. r \in K <=> r \in f[n + 1].kept
      BY <3>1, <1>7
    <3>4. CASE RecordChars(r) + comma > f[n].budget
      <4>1. f[n + 1] = f[n]
        BY <3>1, <3>4, <1>3
      <4>2. At(K, n + 1) = {}
        BY <3>1, <3>2, <3>3, <4>1, <1>3, <1>k DEF At
      <4>3. g[n + 1] = g[n]
        BY <4>2, <1>9 DEF PricedUpTo
      <4> QED
        BY <1>10, <4>1, <4>3
    <3>5. CASE ~ (RecordChars(r) + comma > f[n].budget)
      <4>1. f[n + 1] = [kept |-> f[n].kept \cup {r}, budget |-> f[n].budget - (RecordChars(r) + comma)]
        BY <3>1, <3>5, <1>3
      <4>2. At(K, n + 1) = {r}
        BY <3>1, <3>3, <4>1, <1>3, <1>k DEF At
      <4>3. (CHOOSE x \in At(K, n + 1) : TRUE) = r /\ At(K, n + 1) # {}
        BY <4>2
      <4>4. g[n + 1] = g[n] + RecordChars(r) + 1
        BY <4>3, <1>9 DEF PricedUpTo
      <4>5. RecordChars(r) \in Nat
        BY <3>1, <1>3
      <4>6. f[n + 1].kept # {} /\ f[n + 1].budget = f[n].budget - (RecordChars(r) + comma)
        BY <4>1
      <4>7. /\ f[n].budget = EXTRACT_TRANSCRIPT_CHARS - Wrapper - g[n] + comma
            /\ f[n].budget \in Int /\ comma \in Nat
        BY <1>10, <2>t
      <4> HIDE DEF comma
      <4>8. f[n + 1].budget = EXTRACT_TRANSCRIPT_CHARS - Wrapper - g[n + 1] + 1 /\ f[n + 1].budget >= 0
        BY <2>t, <3>5, <4>4, <4>5, <4>6, <4>7
      <4> QED
        BY <4>6, <4>8
    <3> QED
      BY <3>4, <3>5
  <2> QED
    BY <2>1, <2>2
<1>11. Square(0)
  BY <1>f, <1>g, CharsAssumption
<1>12. \A n \in Nat : Square(n)
  <2> DEFINE T == {n \in Nat : ~ Square(n)}
  <2> HIDE DEF Square
  <2> SUFFICES ASSUME T # {} PROVE FALSE
    OBVIOUS
  <2>1. PICK m \in T : \A k \in T : m <= k
    BY LeastNatural
  <2>2. m - 1 \in Nat /\ m - 1 \notin T /\ (m - 1) + 1 = m
    BY <1>11, <2>1
  <2> QED
    BY <1>10, <2>1, <2>2
<1>13. \A n \in Nat : n <= N => f[N].budget <= f[n].budget
  <2> DEFINE T == {d \in Nat : d <= N /\ ~ (f[N].budget <= f[N - d].budget)}
  <2>1. T = {}
    <3> SUFFICES ASSUME T # {} PROVE FALSE
      OBVIOUS
    <3>1. PICK m \in T : \A k \in T : m <= k
      BY LeastNatural
    <3>2. m \in Nat /\ m <= N /\ m # 0
      BY <1>f, <3>1
    <3>3. m - 1 \in Nat /\ m - 1 \notin T /\ N - m \in Nat /\ (N - m) + 1 = N - (m - 1)
      BY <3>1, <3>2
    <3>4. f[N].budget <= f[N - (m - 1)].budget
      BY <3>2, <3>3
    <3>5. f[N - (m - 1)].budget <= f[N - m].budget
      BY <3>3, <1>4
    <3>6. f[N].budget \in Int /\ f[N - m].budget \in Int /\ f[N - (m - 1)].budget \in Int
      BY <3>2, <3>3, <1>f
    <3> QED
      BY <3>1, <3>4, <3>5, <3>6
  <2>2. ASSUME NEW n \in Nat, n <= N PROVE f[N].budget <= f[n].budget
    <3>1. N - n \in Nat /\ N - n <= N /\ N - (N - n) = n
      BY <2>2
    <3> QED
      BY <2>1, <3>1
  <2> QED
    BY <2>2
<1>14. PayloadChars(K) = EXTRACT_TRANSCRIPT_CHARS - f[N].budget /\ f[N].budget \in Nat
  <2>1. Square(N) /\ f[N].budget \in Int /\ g[N] \in Nat
    <3> HIDE DEF Square
    <3> QED
      BY <1>12, <1>f, <1>g
  <2>2. K = f[N].kept /\ PayloadChars(K) = Wrapper + g[N] - IF K = {} THEN 0 ELSE 1
    BY <1>1, <1>9
  <2>3. EXTRACT_TRANSCRIPT_CHARS \in Nat /\ Wrapper \in Nat
    BY CharsAssumption
  <2>4. CASE K = {}
    BY <2>1, <2>2, <2>3, <2>4
  <2>5. CASE K # {}
    BY <2>1, <2>2, <2>3, <2>5
  <2> QED
    BY <2>4, <2>5
<1>15. ASSUME NEW r \in rows \ K PROVE RecordChars(r) + 1 > f[N].budget /\ RecordChars(r) \in Nat
  <2> DEFINE n == r.seq - 1
  <2>1. n \in Nat /\ n + 1 = r.seq /\ n <= N
    OBVIOUS
  <2>2. r \notin f[n + 1].kept
    BY <1>7, <2>1
  <2> HIDE DEF n
  <2>3. RecordChars(r) + (IF f[n].kept = {} THEN 0 ELSE 1) > f[n].budget /\ RecordChars(r) \in Nat
    <3>1. f[n + 1] = IF RecordChars(r) + (IF f[n].kept = {} THEN 0 ELSE 1) > f[n].budget THEN f[n]
                     ELSE [kept |-> f[n].kept \cup {r},
                           budget |-> f[n].budget - (RecordChars(r) + IF f[n].kept = {} THEN 0 ELSE 1)]
      BY <1>3, <2>1
    <3>2. RecordChars(r) \in Nat
      BY <1>3, <2>1
    <3> QED
      BY <2>2, <3>1, <3>2
  <2>4. f[N].budget <= f[n].budget /\ f[n].budget \in Int /\ f[N].budget \in Int
    BY <1>13, <1>f, <2>1
  <2> QED
    BY <2>3, <2>4
<1>16. PayloadChars(K) <= EXTRACT_TRANSCRIPT_CHARS
  BY <1>14, CharsAssumption
<1>17. \A r \in rows \ K : PayloadChars(K) + 1 + RecordChars(r) > EXTRACT_TRANSCRIPT_CHARS
  BY <1>14, <1>15, CharsAssumption
<1> QED
  BY <1>16, <1>17, <1>k DEF K

(* The choices of the module are what their names say. *)
LEMMA LatestIsLast ==
  ASSUME NEW S \in SUBSET Nat, S # {}, NEW n \in Nat, \A k \in S : k <= n
  PROVE  Latest(S) \in S /\ \A j \in S : j <= Latest(S)
<1> DEFINE T == {d \in Nat : n - d \in S}
<1>1. T # {}
  <2>1. PICK k \in S : TRUE
    OBVIOUS
  <2>2. n - k \in Nat /\ n - (n - k) = k
    OBVIOUS
  <2> QED
    BY <2>2
<1>2. PICK d \in T : \A e \in T : d <= e
  BY <1>1, LeastNatural
<1>3. \A j \in S : j <= n - d
  <2> TAKE j \in S
  <2>1. n - j \in Nat /\ n - (n - j) = j
    OBVIOUS
  <2>2. d <= n - j
    BY <1>2, <2>1
  <2> QED
    BY <2>2, <1>2
<1> QED
  BY <1>2, <1>3 DEF Latest

LEMMA LeastIsLeast ==
  ASSUME NEW S \in SUBSET Provenances, S # {}
  PROVE  Least(S) \in S /\ \A q \in S : PROVENANCE_PRIORITY[Least(S)] <= PROVENANCE_PRIORITY[q]
<1> DEFINE T == {PROVENANCE_PRIORITY[p] : p \in S}
<1>1. \A p \in Provenances : PROVENANCE_PRIORITY[p] \in Nat
  BY DEF Provenances, PROVENANCE_PRIORITY
<1> HIDE DEF Provenances, PROVENANCE_PRIORITY
<1>2. T \in SUBSET Nat /\ T # {}
  BY <1>1
<1>3. PICK x \in T : \A y \in T : x <= y
  BY <1>2, LeastNatural
<1> QED
  BY <1>3 DEF Least

LEMMA BeginningIsFinite ==
  ASSUME NEW seqs \in Seq(Nat), NEW i \in 0..Len(seqs)
  PROVE  IsFiniteSet({seqs[j] : j \in 1..i})
<1> DEFINE T == {seqs[j] : j \in 1..i}
           f == [j \in 1..i |-> seqs[j]]
<1>1. IsFiniteSet(1..i)
  BY FS_Interval
<1>2. f \in Surjection(1..i, T)
  BY DEF Surjection
<1> QED
  BY <1>1, <1>2, FS_Surjection

(* A long list is cut to its first numbers, a short one is cited whole. *)
LEMMA CitedIsCut ==
  ASSUME NEW seqs \in Seq(Nat)
  PROVE  /\ Cited(seqs) \subseteq Range(seqs) /\ Range(seqs) \subseteq Nat
         /\ IsFiniteSet(Cited(seqs)) /\ Cardinality(Cited(seqs)) <= WORST_SOURCE_SEQS
         /\ Cardinality(Range(seqs)) <= WORST_SOURCE_SEQS => Cited(seqs) = Range(seqs)
<1> DEFINE N == Len(seqs)
           upTo(i) == {seqs[j] : j \in 1..i}
           I == {j \in DOMAIN seqs : Cardinality(upTo(j)) <= WORST_SOURCE_SEQS}
<1>0. DOMAIN seqs = 1..N /\ N \in Nat /\ \A j \in 1..N : seqs[j] \in Nat
  OBVIOUS
<1>1. Cited(seqs) = {seqs[i] : i \in I}
  BY DEF Cited
<1>2. Range(seqs) = upTo(N)
  BY <1>0 DEF Range
<1>3. \A i \in 0..N : IsFiniteSet(upTo(i))
  BY BeginningIsFinite
<1> HIDE DEF I
<1>4. I \subseteq 1..N /\ \A i \in I : Cardinality(upTo(i)) <= WORST_SOURCE_SEQS
  BY <1>0 DEF I
<1>5. Cited(seqs) \subseteq Range(seqs) /\ Range(seqs) \subseteq Nat
  BY <1>0, <1>1, <1>2, <1>4
<1>6. IsFiniteSet(Cited(seqs)) /\ Cardinality(Cited(seqs)) <= WORST_SOURCE_SEQS
  <2>1. CASE I = {}
    <3>1. Cited(seqs) = {}
      BY <1>1, <2>1
    <3> QED
      BY <3>1, FS_EmptySet, CharsAssumption
  <2>2. CASE I # {}
    <3>1. PICK m \in I : \A i \in I : i <= m
      <4>1. I \in SUBSET Nat /\ \A i \in I : i <= N
        BY <1>0, <1>4
      <4> QED
        BY <1>0, <2>2, <4>1, LatestIsLast
    <3>2. m \in 0..N /\ I \subseteq 1..m
      BY <1>0, <1>4, <3>1
    <3>3. Cited(seqs) \subseteq upTo(m)
      BY <1>1, <3>2
    <3>4. IsFiniteSet(upTo(m)) /\ Cardinality(upTo(m)) <= WORST_SOURCE_SEQS
      BY <1>3, <1>4, <3>2
    <3> HIDE DEF upTo
    <3>5. /\ IsFiniteSet(Cited(seqs)) /\ Cardinality(Cited(seqs)) <= Cardinality(upTo(m))
          /\ Cardinality(Cited(seqs)) \in Nat /\ Cardinality(upTo(m)) \in Nat
      BY <3>3, <3>4, FS_Subset, FS_CardinalityType
    <3> QED
      BY <3>4, <3>5, CharsAssumption
  <2> QED
    BY <2>1, <2>2
<1>7. ASSUME Cardinality(Range(seqs)) <= WORST_SOURCE_SEQS PROVE Cited(seqs) = Range(seqs)
  <2>1. ASSUME NEW i \in 1..N PROVE i \in I
    <3>1. upTo(i) \in SUBSET Range(seqs)
      BY <1>2
    <3>2. IsFiniteSet(Range(seqs)) /\ IsFiniteSet(upTo(i))
      <4> HIDE DEF upTo
      <4> QED
        BY <1>0, <1>2, <1>3
    <3>3. Cardinality(upTo(i)) <= WORST_SOURCE_SEQS
      <4> HIDE DEF upTo
      <4>1. /\ Cardinality(upTo(i)) <= Cardinality(Range(seqs))
            /\ Cardinality(upTo(i)) \in Nat /\ Cardinality(Range(seqs)) \in Nat
        BY <3>1, <3>2, FS_Subset, FS_CardinalityType
      <4> QED
        BY <4>1, <1>7, CharsAssumption
    <3> QED
      BY <1>0, <3>3 DEF I
  <2> QED
    BY <1>1, <1>2, <1>4, <2>1
<1> QED
  BY <1>5, <1>6, <1>7

Events == Content \cup {Start(t) : t \in Turns} \cup {End(t) : t \in Turns}

(* The log is the platform's, and a turn starts once. *)
LogOK ==
  /\ log \in Seq(Events)
  /\ \A i, j \in DOMAIN log : \A t \in Turns : log[i] = Start(t) /\ log[j] = Start(t) => i = j

(* The log grows at its end. *)
LogGrows == log' = log \/ \E e \in Events : log' = Append(log, e)

LEMMA Prefix ==
  ASSUME LogOK, LogGrows
  PROVE  /\ log' \in Seq(Events) /\ Len(log) \in Nat /\ DOMAIN log = 1..Len(log)
         /\ DOMAIN log' = 1..Len(log') /\ Len(log') \in Nat
         /\ Len(log) <= Len(log') /\ \A i \in 1..Len(log) : log'[i] = log[i]
BY DEF LogOK, LogGrows

(* What is known of an event is known when it is logged: its turn, the calls *)
(* before it, its row and who spoke do not change as the log grows. *)
LEMMA InTurnStays ==
  ASSUME LogOK, LogGrows, NEW t, NEW i \in DOMAIN log
  PROVE  InTurn(t, i)' <=> InTurn(t, i)
<1>1. \A j \in 1..i : log'[j] = log[j]
  BY Prefix
<1>2. i \in Nat /\ \A j \in 1..i - 1 : j \in 1..i /\ \A k \in j+1..i : k \in 1..i
  BY Prefix
<1> QED
  BY <1>1, <1>2 DEF InTurn, Start, End, Marker

LEMMA CallsStay ==
  ASSUME LogOK, LogGrows, NEW i \in DOMAIN log
  PROVE  Calls(i)' = Calls(i) /\ Calls(i) \in SUBSET (1..i - 1) /\ \A k \in Calls(i) : k \in DOMAIN log /\ k <= i
<1>1. i \in 1..Len(log) /\ Len(log) \in Nat /\ DOMAIN log = 1..Len(log)
  BY Prefix
<1>2. log'[i] = log[i] /\ \A j \in 1..i-1 : log'[j] = log[j] /\ j \in DOMAIN log /\ j <= i
  BY <1>1, Prefix
<1> QED
  BY <1>2 DEF Calls

LEMMA RowStays ==
  ASSUME LogOK, LogGrows, NEW t, NEW i \in DOMAIN log
  PROVE  /\ i \in DOMAIN log' /\ log'[i] = log[i]
         /\ Row(t, i)' = Row(t, i) /\ (Recorded(t, i)' <=> Recorded(t, i))
         /\ Origin(i)' = Origin(i) /\ (Speaks(i)' <=> Speaks(i))
<1>1. i \in DOMAIN log' /\ log'[i] = log[i] /\ i \in Nat
  BY Prefix
<1>2. InTurn(t, i)' <=> InTurn(t, i)
  BY InTurnStays
<1>3. ToolNameOf(t, i)' = ToolNameOf(t, i)
  <2> DEFINE C == {k \in Calls(i) : InTurn(t, k)}
  <2>1. {k \in Calls(i) : InTurn(t, k)}' = C
    BY CallsStay, InTurnStays
  <2>2. CASE C = {}
    BY <2>1, <2>2 DEF ToolNameOf
  <2>3. CASE C # {}
    <3>1. C \in SUBSET Nat /\ \A k \in C : k <= i /\ k \in DOMAIN log
      BY CallsStay
    <3>2. Latest(C) \in C
      BY <1>1, <2>3, <3>1, LatestIsLast
    <3>3. log'[Latest(C)] = log[Latest(C)]
      BY <3>1, <3>2, Prefix
    <3> HIDE DEF C
    <3> QED
      BY <2>1, <2>3, <3>3 DEF ToolNameOf, C
  <2> QED
    BY <2>2, <2>3
<1>4. Row(t, i)' = Row(t, i)
  BY <1>1, <1>3 DEF Row
<1>5. Recorded(t, i)' <=> Recorded(t, i)
  BY <1>1, <1>2 DEF Recorded
<1>6. Origin(i)' = Origin(i)
  <2>1. CASE Calls(i) = {}
    BY <2>1, <1>1, CallsStay DEF Origin
  <2>2. CASE Calls(i) # {}
    <3>1. Calls(i) \in SUBSET Nat /\ \A k \in Calls(i) : k <= i
      BY CallsStay
    <3>2. Latest(Calls(i)) \in Calls(i)
      BY <1>1, <2>2, <3>1, LatestIsLast
    <3>3. log'[Latest(Calls(i))] = log[Latest(Calls(i))]
      BY <3>2, CallsStay, Prefix
    <3> QED
      BY <1>1, <3>3, CallsStay DEF Origin
  <2> QED
    BY <2>1, <2>2
<1>7. Speaks(i)' <=> Speaks(i)
  BY <1>1 DEF Speaks
<1> QED
  BY <1>1, <1>4, <1>5, <1>6, <1>7

LEMMA EventsAre ==
  ASSUME NEW e \in Events
  PROVE  /\ e.chars \in Nat
         /\ e.type = "turn/start" => \E t \in Turns : e = Start(t)
         /\ e.type \in Types <=> e \in Content
<1>0. \A x \in Content : x.type \in Types /\ x.chars \in Nat
  BY ContentAssumption
<1>1. CASE e \in Content
  BY <1>0, <1>1 DEF Types
<1>2. CASE \E t \in Turns : e = Start(t)
  <2>1. e.type = "turn/start" /\ e.chars = 0
    <3>1. PICK t \in Turns : e = Start(t)
      BY <1>2
    <3>2. Start(t).type = "turn/start" /\ Start(t).chars = 0
      BY DEF Start, Marker
    <3> QED
      BY <3>1, <3>2
  <2> QED
    BY <1>0, <1>2, <2>1 DEF Types
<1>3. CASE \E t \in Turns : e = End(t)
  <2>1. e.type = "turn/end" /\ e.chars = 0
    <3>1. PICK t \in Turns : e = End(t)
      BY <1>3
    <3>2. End(t).type = "turn/end" /\ End(t).chars = 0
      BY DEF End, Marker
    <3> QED
      BY <3>1, <3>2
  <2> QED
    BY <1>0, <2>1 DEF Types
<1> QED
  BY <1>1, <1>2, <1>3 DEF Events

(* What an event is recorded in is the turn under way. *)
LEMMA OneTurn ==
  ASSUME NEW t, NEW u, NEW i \in Nat, InTurn(t, i), InTurn(u, i)
  PROVE  t = u
<1>1. PICK j \in 1..i-1 : log[j] = Start(t) /\ \A k \in j+1..i : log[k].type # "turn/start"
  BY DEF InTurn
<1>2. PICK m \in 1..i-1 : log[m] = Start(u) /\ \A k \in m+1..i : log[k].type # "turn/start"
  BY DEF InTurn
<1>3. log[j].type = "turn/start" /\ log[m].type = "turn/start" /\ log[j].id = t /\ log[m].id = u
  <2>1. \A x : Start(x).type = "turn/start" /\ Start(x).id = x
    BY DEF Start, Marker
  <2> QED
    BY <1>1, <1>2, <2>1
<1>4. j = m
  <2>1. ~(j < m)
    BY <1>1, <1>3
  <2>2. ~(m < j)
    BY <1>2, <1>3
  <2> QED
    BY <2>1, <2>2
<1> QED
  BY <1>3, <1>4

(* A call made after another of the turn, and before the result, is one of the turn. *)
LEMMA CallsOfTheTurn ==
  ASSUME LogOK, NEW t \in Turns, NEW i \in DOMAIN log, InTurn(t, i),
         NEW k \in DOMAIN log, InTurn(t, k), NEW m \in DOMAIN log, k <= m, m < i
  PROVE  InTurn(t, m)
<1>0. /\ i \in Nat /\ k \in Nat /\ m \in Nat /\ k >= 1 /\ Len(log) \in Nat
      /\ DOMAIN log = 1..Len(log)
  BY DEF LogOK
<1>1. PICK j \in 1..i-1 : log[j] = Start(t) /\ \A n \in j+1..i : log[n].type # "turn/start"
  BY DEF InTurn
<1>2. PICK h \in 1..k-1 : log[h] = Start(t) /\ \A n \in h+1..k : log[n].type # "turn/start"
  BY DEF InTurn
<1>3. h = j
  <2>1. h \in DOMAIN log /\ j \in DOMAIN log
    BY <1>0
  <2> QED
    BY <1>1, <1>2, <2>1 DEF LogOK
<1>4. j \in 1..m-1 /\ \A n \in j+1..m : log[n].type # "turn/start"
  BY <1>0, <1>1, <1>2, <1>3
<1>5. \A n \in 1..m-1 : log[n] # End(t)
  BY <1>0 DEF InTurn
<1> QED
  BY <1>1, <1>4, <1>5 DEF InTurn

LEMMA Priorities ==
  /\ Provenances = {"human", "parent-agent", "subagent", "tool-output"}
  /\ PROVENANCE_PRIORITY["human"] = 5 /\ PROVENANCE_PRIORITY["parent-agent"] = 3
  /\ PROVENANCE_PRIORITY["subagent"] = 2 /\ PROVENANCE_PRIORITY["tool-output"] = 1
BY DEF Provenances, PROVENANCE_PRIORITY

LEMMA Classes ==
  ASSUME NEW e, e.type \in {"user/message", "assistant/message", "tool/call", "tool/result"},
         NEW x
  PROVE  /\ Classify(e, x) \in {"human", "parent-agent", "subagent", "tool-output"}
         /\ e.type # "tool/result" => \A y : Classify(e, x) = Classify(e, y)
         /\ e.type = "tool/result" => Classify(e, x) = IF x \in SUBAGENT_TOOL_NAMES THEN "subagent" ELSE "tool-output"
<1>1. CASE e.type = "user/message"
  BY <1>1 DEF Classify
<1>2. CASE e.type = "assistant/message"
  BY <1>2 DEF Classify
<1>3. CASE e.type = "tool/call"
  BY <1>3 DEF Classify
<1>4. CASE e.type = "tool/result"
  BY <1>4 DEF Classify
<1> QED
  BY <1>1, <1>2, <1>3, <1>4

(* A row is trusted no more than whoever spoke. *)
LEMMA RowIsEarned ==
  ASSUME LogOK, NEW t \in Turns, NEW i \in DOMAIN log, Recorded(t, i)
  PROVE  /\ Row(t, i).provenance \in Provenances /\ Origin(i) \in Provenances
         /\ NoMoreThan(Row(t, i).provenance, i)
<1> DEFINE C == {k \in Calls(i) : InTurn(t, k)}
<1>0. log[i].type \in {"user/message", "assistant/message", "tool/call", "tool/result"} /\ InTurn(t, i)
  BY DEF Recorded, Types
<1> DEFINE spoken == Row(t, i).provenance
           name == IF Calls(i) = {} THEN "" ELSE log[Latest(Calls(i))].name
<1>p. /\ spoken = Classify(log[i], ToolNameOf(t, i)) /\ Origin(i) = Classify(log[i], name)
      /\ spoken \in Provenances /\ Origin(i) \in Provenances
  <2>1. spoken = Classify(log[i], ToolNameOf(t, i))
    BY DEF Row
  <2>2. Origin(i) = Classify(log[i], name)
    BY DEF Origin
  <2> HIDE DEF spoken, name
  <2>3. /\ Classify(log[i], ToolNameOf(t, i)) \in Provenances
        /\ Classify(log[i], name) \in Provenances
    BY <1>0, Classes, Priorities
  <2> QED
    BY <2>1, <2>2, <2>3
<1> HIDE DEF spoken, name
<1>1. CASE log[i].type # "tool/result"
  <2>1. spoken = Origin(i)
    BY <1>0, <1>1, <1>p, Classes
  <2> QED
    BY <1>p, <2>1, Priorities DEF NoMoreThan, spoken
<1>2. CASE log[i].type = "tool/result" /\ C = {}
  <2>1. ToolNameOf(t, i) = ""
    BY <1>2 DEF ToolNameOf
  <2>2. spoken = "tool-output"
    <3>1. Classify(log[i], "") = IF "" \in SUBAGENT_TOOL_NAMES THEN "subagent" ELSE "tool-output"
      <4>1. log[i].type = "tool/result"
        BY <1>2
      <4> HIDE DEF C
      <4> QED
        BY ONLY <4>1 DEF Classify
    <3> QED
      BY <1>p, <2>1, <3>1, NamesAssumption
  <2> QED
    BY <1>p, <2>2, Priorities DEF NoMoreThan, spoken
<1>3. CASE log[i].type = "tool/result" /\ C # {}
  <2>1. i \in Nat /\ Calls(i) \in SUBSET Nat /\ \A k \in Calls(i) : k \in DOMAIN log /\ k < i /\ k <= i
    BY DEF Calls, LogOK
  <2>2. Latest(C) \in C /\ \A k \in C : k <= Latest(C)
    <3>1. C \in SUBSET Nat /\ \A k \in C : k <= i
      BY <2>1
    <3> HIDE DEF C
    <3> QED
      BY <1>3, <2>1, <3>1, LatestIsLast
  <2>3. /\ Latest(Calls(i)) \in Calls(i) /\ Calls(i) # {}
        /\ \A k \in Calls(i) : k <= Latest(Calls(i))
    BY <1>3, <2>1, LatestIsLast
  <2>4. Latest(Calls(i)) \in C
    BY <1>0, <2>1, <2>2, <2>3, CallsOfTheTurn
  <2>5. Latest(Calls(i)) = Latest(C)
    BY <2>1, <2>2, <2>3, <2>4
  <2>6. ToolNameOf(t, i) = log[Latest(Calls(i))].name
    BY <1>3, <2>5 DEF ToolNameOf
  <2>7. spoken = Origin(i)
    BY <1>p, <2>3, <2>6 DEF name
  <2> QED
    BY <1>p, <2>7, Priorities DEF NoMoreThan, spoken
<1> QED
  BY <1>1, <1>2, <1>3

(* What is stored of an event is what the turn it belongs to says of it. *)
StoredOK ==
  \A r \in stored : /\ r.turn \in Turns /\ r.seq \in DOMAIN log
                    /\ Recorded(r.turn, r.seq) /\ r = Row(r.turn, r.seq)

WorkOK == /\ job \in [Turns -> {"none", "open", "asking", "done", "dead"}]
          /\ read \in [Turns -> SUBSET stored]

Memories == [provenance : Provenances, excerpt : SUBSET Nat, reply : Seq(Nat)]

(* A memory has the least trust, or no more than any event it cites. *)
Earned(m) ==
  /\ m.excerpt \subseteq Cited(m.reply) /\ \A s \in m.excerpt : Speaks(s)
  /\ \/ m.provenance = "tool-output"
     \/ \A s \in Cited(m.reply) : s \in DOMAIN log /\ NoMoreThan(m.provenance, s)

LearnedOK == /\ learned \in [Turns -> Memories \cup {NULL}]
             /\ \A t \in Turns : learned[t] # NULL => Earned(learned[t])

IInv == LogOK /\ StoredOK /\ WorkOK /\ LearnedOK

LEMMA SpeaksInTypes ==
  ASSUME NEW s, Speaks(s)
  PROVE  Origin(s) \in Provenances /\ s \in DOMAIN log
<1>1. /\ log[s].type \in {"user/message", "assistant/message", "tool/call", "tool/result"}
      /\ s \in DOMAIN log
  BY DEF Speaks, Types
<1>2. \A x : Classify(log[s], x) \in Provenances
  BY <1>1, Classes, Priorities
<1> QED
  BY <1>1, <1>2 DEF Origin

LEMMA StoredIsEarned ==
  ASSUME LogOK, StoredOK, NEW r \in stored
  PROVE  /\ r.provenance \in Provenances /\ NoMoreThan(r.provenance, r.seq)
         /\ Speaks(r.seq) /\ r.seq \in DOMAIN log /\ r.chars \in Nat /\ r.turn \in Turns
<1>1. r.turn \in Turns /\ r.seq \in DOMAIN log /\ Recorded(r.turn, r.seq) /\ r = Row(r.turn, r.seq)
  BY DEF StoredOK
<1>2. Row(r.turn, r.seq).provenance \in Provenances /\ NoMoreThan(Row(r.turn, r.seq).provenance, r.seq)
  BY <1>1, RowIsEarned
<1>3. Speaks(r.seq)
  BY <1>1 DEF Speaks, Recorded
<1>4. r.chars \in Nat
  <2>1. log[r.seq] \in Events
    BY <1>1 DEF LogOK
  <2>2. log[r.seq].chars \in Nat
    BY <2>1, EventsAre
  <2>3. \A t, i : Row(t, i).chars = log[i].chars
    BY DEF Row
  <2> QED
    BY <1>1, <2>2, <2>3
<1> QED
  BY <1>1, <1>2, <1>3, <1>4

(* A seq is stored once. *)
LEMMA StoredOnce ==
  ASSUME LogOK, StoredOK, NEW r \in stored, NEW s \in stored, r.seq = s.seq
  PROVE  r = s
<1>1. /\ r.seq \in Nat /\ InTurn(r.turn, r.seq) /\ InTurn(s.turn, r.seq)
      /\ r = Row(r.turn, r.seq) /\ s = Row(s.turn, r.seq)
  BY DEF StoredOK, LogOK, Recorded
<1>2. r.turn = s.turn
  BY <1>1, OneTurn
<1> QED
  BY <1>1, <1>2

LEMMA CandidateIsEarned ==
  ASSUME LogOK, StoredOK, NEW reply \in Replies, NEW rows \in SUBSET stored
  PROVE  Candidate(reply, rows) \in Memories /\ Earned(Candidate(reply, rows))
<1> DEFINE seqs == Cited(reply)
           m == Candidate(reply, rows)
           S == {r.provenance : r \in Known(seqs, rows)}
<1>0. reply \in Seq(Nat) /\ seqs \subseteq Nat
  BY RepliesAssumption, CitedIsCut
<1> HIDE DEF seqs
<1>1. \A r \in Known(seqs, rows) : /\ r \in stored /\ r.seq \in seqs /\ r.provenance \in Provenances
                                   /\ NoMoreThan(r.provenance, r.seq)
                                   /\ Speaks(r.seq) /\ r.seq \in DOMAIN log
  BY StoredIsEarned DEF Known
<1>2. /\ m = [provenance |-> ProvenanceFor(seqs, rows), excerpt |-> {r.seq : r \in Known(seqs, rows)},
              reply |-> reply]
  BY DEF Candidate, seqs
<1>3. /\ ProvenanceFor(seqs, rows) \in Provenances
      /\ \/ ProvenanceFor(seqs, rows) = "tool-output"
         \/ \A s \in seqs : s \in DOMAIN log /\ NoMoreThan(ProvenanceFor(seqs, rows), s)
  <2>1. CASE (\A s \in seqs : \E r \in rows : r.seq = s) /\ seqs # {}
    <3>1. \A s \in seqs : \E r \in Known(seqs, rows) : r.seq = s
      BY <2>1 DEF Known
    <3>2. S \in SUBSET Provenances /\ S # {}
      BY <1>1, <2>1, <3>1
    <3>3. Least(S) \in S /\ \A q \in S : PROVENANCE_PRIORITY[Least(S)] <= PROVENANCE_PRIORITY[q]
      BY <3>2, LeastIsLeast
    <3>4. ProvenanceFor(seqs, rows) = Least(S)
      BY <2>1 DEF ProvenanceFor
    <3>5. ASSUME NEW s \in seqs PROVE s \in DOMAIN log /\ NoMoreThan(Least(S), s)
      <4>1. PICK r \in Known(seqs, rows) : r.seq = s
        BY <3>1
      <4>2. /\ s \in DOMAIN log /\ NoMoreThan(r.provenance, s) /\ Origin(s) \in Provenances
            /\ r.provenance \in S
        BY <1>1, <4>1, SpeaksInTypes
      <4> HIDE DEF S
      <4>3. \A p \in Provenances : PROVENANCE_PRIORITY[p] \in Nat
        BY Priorities
      <4> QED
        BY <3>2, <3>3, <4>2, <4>3 DEF NoMoreThan
    <3> QED
      BY <3>2, <3>3, <3>4, <3>5
  <2>2. CASE ~ ((\A s \in seqs : \E r \in rows : r.seq = s) /\ seqs # {})
    <3>1. ProvenanceFor(seqs, rows) = "tool-output"
      BY <2>2 DEF ProvenanceFor
    <3> QED
      BY <3>1, Priorities
  <2> QED
    BY <2>1, <2>2
<1>4. {r.seq : r \in Known(seqs, rows)} \subseteq seqs /\ \A s \in {r.seq : r \in Known(seqs, rows)} : Speaks(s)
  BY <1>1
<1>5. m \in Memories
  <2>1. {r.seq : r \in Known(seqs, rows)} \in SUBSET Nat
    BY <1>0, <1>4
  <2> HIDE DEF m
  <2> QED
    BY <1>0, <1>2, <1>3, <2>1 DEF Memories
<1>6. m.provenance = ProvenanceFor(seqs, rows) /\ m.excerpt = {r.seq : r \in Known(seqs, rows)} /\ m.reply = reply
  BY <1>2
<1> HIDE DEF m
<1>7. Earned(m)
  BY <1>3, <1>4, <1>6 DEF Earned, seqs
<1> QED
  BY <1>5, <1>7 DEF m

LEMMA InitIInv == Init => IInv
BY DEF Init, IInv, LogOK, StoredOK, WorkOK, LearnedOK

LEMMA EarnedStays ==
  ASSUME LogOK, LogGrows, NEW m, Earned(m)
  PROVE  /\ m.excerpt \subseteq Cited(m.reply) /\ \A s \in m.excerpt : Speaks(s)'
         /\ \/ m.provenance = "tool-output"
            \/ \A s \in Cited(m.reply) :
                  s \in DOMAIN log' /\ PROVENANCE_PRIORITY[m.provenance] <= PROVENANCE_PRIORITY[Origin(s)']
<1>1. \A s \in DOMAIN log : s \in DOMAIN log' /\ Origin(s)' = Origin(s) /\ (Speaks(s)' <=> Speaks(s))
  BY RowStays
<1>2. \A s : Speaks(s) => s \in DOMAIN log
  BY DEF Speaks
<1> QED
  BY <1>1, <1>2 DEF Earned, NoMoreThan

(* What a step leaves in learned is as earned as it was. *)
LEMMA EarnedNext ==
  ASSUME LogOK, LogGrows, NEW t \in Turns, NEW m, learned'[t] = m, Earned(m)
  PROVE  Earned(learned[t])'
<1>1. /\ m.excerpt \subseteq Cited(m.reply) /\ \A s \in m.excerpt : Speaks(s)'
      /\ \/ m.provenance = "tool-output"
         \/ \A s \in Cited(m.reply) :
               s \in DOMAIN log' /\ PROVENANCE_PRIORITY[m.provenance] <= PROVENANCE_PRIORITY[Origin(s)']
  BY EarnedStays
<1> QED
  BY <1>1 DEF Earned, NoMoreThan

(* Whatever the log goes on to hold, what was stored stays as true as it was. *)
LEMMA StoredStays ==
  ASSUME LogOK, StoredOK, LogGrows, NEW r \in stored
  PROVE  /\ r.turn \in Turns /\ r.seq \in DOMAIN log'
         /\ Recorded(r.turn, r.seq)' /\ r = Row(r.turn, r.seq)'
<1>1. r.turn \in Turns /\ r.seq \in DOMAIN log /\ Recorded(r.turn, r.seq) /\ r = Row(r.turn, r.seq)
  BY DEF StoredOK
<1> QED
  BY <1>1, RowStays

LEMMA EarnedUnlessLearned ==
  ASSUME LogOK, LogGrows, LearnedOK, NEW t \in Turns, learned'[t] = learned[t], learned[t] # NULL
  PROVE  Earned(learned[t])'
<1>1. PICK m : m = learned[t]
  OBVIOUS
<1>2. Earned(m) /\ learned'[t] = m
  BY <1>1 DEF LearnedOK
<1> QED
  BY <1>2, EarnedNext

(* Whatever is appended to the log leaves what is known of it as it was. *)
LEMMA Growing ==
  ASSUME IInv, LogGrows, LogOK', UNCHANGED <<stored, job, read, learned>>
  PROVE  IInv'
<1> USE DEF IInv
<1>1. StoredOK'
  BY StoredStays DEF StoredOK
<1>2. WorkOK'
  BY DEF WorkOK
<1>3. LearnedOK'
  BY EarnedUnlessLearned DEF LearnedOK
<1> QED
  BY <1>1, <1>2, <1>3

LEMMA AppendLog ==
  ASSUME LogOK, NEW e \in Events, log' = Append(log, e),
         \A t \in Turns : e = Start(t) => ~Started(t)
  PROVE  LogOK' /\ LogGrows
<1>1. /\ log' \in Seq(Events) /\ DOMAIN log' = 1..Len(log) + 1 /\ Len(log) \in Nat
      /\ log'[Len(log) + 1] = e /\ \A i \in 1..Len(log) : log'[i] = log[i]
      /\ DOMAIN log = 1..Len(log)
  BY DEF LogOK
<1>2. ASSUME NEW i \in DOMAIN log', NEW j \in DOMAIN log', NEW t \in Turns,
             log'[i] = Start(t), log'[j] = Start(t)
      PROVE  i = j
  <2>1. CASE i \in DOMAIN log /\ j \in DOMAIN log
    BY <1>1, <1>2, <2>1 DEF LogOK
  <2>2. CASE i \notin DOMAIN log /\ j \notin DOMAIN log
    BY <1>1, <1>2, <2>2
  <2>3. CASE i \in DOMAIN log /\ j \notin DOMAIN log
    <3>1. e = Start(t) /\ log[i] = Start(t)
      BY <1>1, <1>2, <2>3
    <3> QED
      BY <2>3, <3>1 DEF Started, Range
  <2>4. CASE i \notin DOMAIN log /\ j \in DOMAIN log
    <3>1. e = Start(t) /\ log[j] = Start(t)
      BY <1>1, <1>2, <2>4
    <3> QED
      BY <2>4, <3>1 DEF Started, Range
  <2> QED
    BY <2>1, <2>2, <2>3, <2>4
<1>3. LogOK'
  BY <1>1, <1>2 DEF LogOK, Start, Marker
<1> QED
  BY <1>3 DEF LogGrows

LEMMA Rows ==
  ASSUME NEW t, NEW r \in CollectTurnEvents(t)
  PROVE  r.turn = t /\ r.seq \in DOMAIN log /\ Recorded(t, r.seq) /\ r = Row(t, r.seq)
<1>1. PICK i \in DOMAIN log : Recorded(t, i) /\ r = Row(t, i)
  BY DEF CollectTurnEvents
<1>2. Row(t, i).turn = t /\ Row(t, i).seq = i
  BY DEF Row
<1> QED
  BY <1>1, <1>2

LEMMA StepIInv == IInv /\ [Next]_vars => IInv'
<1> SUFFICES ASSUME IInv, [Next]_vars PROVE IInv'
  OBVIOUS
<1> USE DEF IInv
<1>0. \A t, u \in Turns : Start(t) \in Events /\ End(t) \in Events /\ End(t) # Start(u)
  <2>1. \A t : Start(t).type = "turn/start" /\ End(t).type = "turn/end"
    BY DEF Start, End, Marker
  <2>2. \A t, u \in Turns : End(t) # Start(u)
    BY <2>1
  <2> QED
    BY <2>2 DEF Events
<1>s. \A t, u \in Turns : Start(t) = Start(u) => t = u
  <2>1. \A t : Start(t).id = t
    BY DEF Start, Marker
  <2> QED
    BY <2>1
<1>1. ASSUME NEW t \in Turns, StartTurn(t) PROVE IInv'
  <2>1. /\ log' = Append(log, Start(t)) /\ ~Started(t)
        /\ UNCHANGED <<stored, job, read, learned>>
    BY <1>1 DEF StartTurn, Logged
  <2>2. LogOK' /\ LogGrows
    BY <1>0, <1>s, <2>1, AppendLog
  <2> QED
    BY <2>1, <2>2, Growing
<1>2. ASSUME NEW t \in Turns, EndTurn(t) PROVE IInv'
  <2>1. log' = Append(log, End(t)) /\ UNCHANGED <<stored, job, read, learned>>
    BY <1>2 DEF EndTurn, Logged
  <2>2. LogOK' /\ LogGrows
    BY <1>0, <2>1, AppendLog
  <2> QED
    BY <2>1, <2>2, Growing
<1>3. ASSUME NEW e \in Content, Log(e) PROVE IInv'
  <2>1. log' = Append(log, e) /\ UNCHANGED <<stored, job, read, learned>>
    BY <1>3 DEF Log, Logged
  <2>2. e \in Events /\ \A t \in Turns : e # Start(t)
    <3>1. e.type \in Types /\ \A t : Start(t).type = "turn/start"
      BY ContentAssumption DEF Start, Marker
    <3> QED
      BY <3>1 DEF Events, Types
  <2>3. LogOK' /\ LogGrows
    BY <2>1, <2>2, AppendLog
  <2> QED
    BY <2>1, <2>3, Growing
<1>4. ASSUME NEW t \in Turns, NEW llm \in BOOLEAN, TurnStopping(t, llm) PROVE IInv'
  <2>1. /\ stored' = Inserted(CollectTurnEvents(t)) /\ UNCHANGED <<log, read, learned>>
        /\ job' \in {job, [job EXCEPT ![t] = "open"]}
    BY <1>4 DEF TurnStopping
  <2>2. LogGrows /\ LogOK' /\ stored \subseteq stored' /\ stored' \subseteq stored \cup CollectTurnEvents(t)
    BY <2>1 DEF LogGrows, LogOK, Inserted
  <2>3. StoredOK'
    <3>1. ASSUME NEW r \in stored'
          PROVE  /\ r.turn \in Turns /\ r.seq \in DOMAIN log'
                 /\ Recorded(r.turn, r.seq)' /\ r = Row(r.turn, r.seq)'
      <4>1. CASE r \in stored
        BY <2>2, <4>1, StoredStays
      <4>2. CASE r \in CollectTurnEvents(t)
        <5>1. r.turn = t /\ r.seq \in DOMAIN log /\ Recorded(t, r.seq) /\ r = Row(t, r.seq)
          BY <4>2, Rows
        <5> QED
          BY <2>2, <5>1, RowStays
      <4> QED
        BY <2>2, <4>1, <4>2
    <3> QED
      BY <3>1 DEF StoredOK
  <2>4. WorkOK'
    BY <2>1, <2>2 DEF WorkOK
  <2>5. LearnedOK'
    BY <2>1, <2>2, EarnedUnlessLearned DEF LearnedOK
  <2> QED
    BY <2>2, <2>3, <2>4, <2>5
<1>5. ASSUME UNCHANGED <<log, stored>>, WorkOK',
             \A t \in Turns : \/ learned'[t] = learned[t]
                              \/ \E m \in Memories : learned'[t] = m /\ Earned(m),
             learned' \in [Turns -> Memories \cup {NULL}]
      PROVE  IInv'
  <2>1. LogGrows /\ LogOK'
    BY <1>5 DEF LogGrows, LogOK
  <2>2. StoredOK'
    BY <1>5, <2>1, StoredStays DEF StoredOK
  <2>3. ASSUME NEW t \in Turns, learned'[t] # NULL PROVE Earned(learned[t])'
    <3>1. CASE learned'[t] = learned[t]
      BY <2>1, <2>3, <3>1, EarnedUnlessLearned
    <3>2. CASE \E m \in Memories : learned'[t] = m /\ Earned(m)
      BY <2>1, <3>2, EarnedNext
    <3> QED
      BY <1>5, <3>1, <3>2
  <2>4. LearnedOK'
    BY <1>5, <2>3 DEF LearnedOK
  <2> QED
    BY <1>5, <2>1, <2>2, <2>4
<1>6. ASSUME NEW t \in Turns, Claim(t) PROVE IInv'
  <2>1. /\ UNCHANGED <<log, stored, learned>>
        /\ job' \in {[job EXCEPT ![t] = "done"], [job EXCEPT ![t] = "asking"]}
        /\ read' \in {read, [read EXCEPT ![t] = ReadTurn(t)]}
    BY <1>6 DEF Claim
  <2>2. WorkOK'
    BY <2>1 DEF WorkOK, ReadTurn
  <2> QED
    BY <1>5, <2>1, <2>2 DEF LearnedOK
<1>7. ASSUME NEW t \in Turns, Commit(t) PROVE IInv'
  <2>1. /\ UNCHANGED <<log, stored>> /\ job' = [job EXCEPT ![t] = "done"]
        /\ read' = [read EXCEPT ![t] = {}]
        /\ \/ learned' = learned
           \/ \E reply \in Replies : learned' = [learned EXCEPT ![t] = Candidate(reply, read[t])]
    BY <1>7 DEF Commit
  <2>2. WorkOK'
    BY <2>1 DEF WorkOK
  <2>3. CASE learned' = learned
    BY <1>5, <2>1, <2>2, <2>3 DEF LearnedOK
  <2>4. CASE \E reply \in Replies : learned' = [learned EXCEPT ![t] = Candidate(reply, read[t])]
    <3>1. PICK reply \in Replies : learned' = [learned EXCEPT ![t] = Candidate(reply, read[t])]
      BY <2>4
    <3>2. PICK m : m = Candidate(reply, read[t])
      OBVIOUS
    <3>3. m \in Memories /\ Earned(m)
      BY <3>2, CandidateIsEarned DEF WorkOK
    <3>4. learned' = [learned EXCEPT ![t] = m] /\ learned \in [Turns -> Memories \cup {NULL}]
      BY <3>1, <3>2 DEF LearnedOK
    <3>5. learned' \in [Turns -> Memories \cup {NULL}]
      BY <3>3, <3>4
    <3>6. \A u \in Turns : \/ learned'[u] = learned[u]
                           \/ \E n \in Memories : learned'[u] = n /\ Earned(n)
      BY <3>3, <3>4
    <3> QED
      BY <1>5, <2>1, <2>2, <3>5, <3>6
  <2> QED
    BY <2>1, <2>3, <2>4
<1>8. ASSUME NEW t \in Turns, Fail(t) PROVE IInv'
  <2>1. /\ UNCHANGED <<log, stored, learned>> /\ read' = [read EXCEPT ![t] = {}]
        /\ \E st \in {"open", "dead"} : job' = [job EXCEPT ![t] = st]
    BY <1>8 DEF Fail
  <2>2. WorkOK'
    BY <2>1 DEF WorkOK
  <2> QED
    BY <1>5, <2>1, <2>2 DEF LearnedOK
<1>9. CASE UNCHANGED vars
  BY <1>5, <1>9 DEF vars, WorkOK, LearnedOK
<1> QED
  BY <1>1, <1>2, <1>3, <1>4, <1>6, <1>7, <1>8, <1>9 DEF Next

(* The inductive invariant: a turn starts once, what is stored of an event is *)
(* what its own turn says of it, and a memory is trusted no more than what its *)
(* reply cites (auto-extract.ts, store/conversations.ts, extract.ts). *)
THEOREM Invariance == Spec => []IInv
<1> QED
  BY InitIInv, StepIInv, PTL DEF Spec

(* A seq is stored once, for the one turn it belongs to, and the evidence of *)
(* a memory is bounded whatever its reply repeats. *)
THEOREM TypeCorrect == Spec => []TypeOK
<1>1. IInv => TypeOK
  <2> SUFFICES ASSUME IInv PROVE TypeOK
    OBVIOUS
  <2> USE DEF IInv
  <2>1. \A r \in stored : r.seq \in DOMAIN log /\ r.turn \in Turns /\ r.provenance \in Provenances
    BY StoredIsEarned
  <2>2. \A r, s \in stored : r.seq = s.seq => r = s
    BY StoredOnce
  <2>3. ASSUME NEW t \in Turns, learned[t] # NULL
        PROVE  learned[t].provenance \in Provenances /\ Cardinality(learned[t].excerpt) <= WORST_SOURCE_SEQS
    <3>1. PICK m : m = learned[t]
      OBVIOUS
    <3>2. m \in Memories /\ Earned(m)
      BY <2>3, <3>1 DEF LearnedOK
    <3>3. m.provenance \in Provenances /\ m.reply \in Seq(Nat) /\ m.excerpt \subseteq Cited(m.reply)
      BY <3>2 DEF Memories, Earned
    <3>4. IsFiniteSet(Cited(m.reply)) /\ Cardinality(Cited(m.reply)) <= WORST_SOURCE_SEQS
      BY <3>3, CitedIsCut
    <3>5. /\ Cardinality(m.excerpt) <= Cardinality(Cited(m.reply))
          /\ Cardinality(m.excerpt) \in Nat /\ Cardinality(Cited(m.reply)) \in Nat
      BY <3>3, <3>4, FS_Subset, FS_CardinalityType
    <3> QED
      BY <3>1, <3>3, <3>4, <3>5, CharsAssumption
  <2> QED
    BY <2>1, <2>2, <2>3 DEF TypeOK, WorkOK
<1> QED
  BY <1>1, Invariance, PTL

(* No row is trusted above its speaker and no memory above what it comes from, *)
(* however ids come back, turns crash and replies cite (provenanceFor, classify). *)
THEOREM Earning == Spec => []TrustIsEarned
<1>1. IInv => TrustIsEarned
  <2> SUFFICES ASSUME IInv PROVE TrustIsEarned
    OBVIOUS
  <2> USE DEF IInv
  <2>1. \A r \in stored : NoMoreThan(r.provenance, r.seq)
    BY StoredIsEarned
  <2>2. ASSUME NEW t \in Turns, learned[t] # NULL, NEW s, Speaks(s),
               \/ s \in learned[t].excerpt
               \/ s \in Range(learned[t].reply) /\ Cardinality(Range(learned[t].reply)) <= WORST_SOURCE_SEQS
        PROVE  NoMoreThan(learned[t].provenance, s)
    <3>1. PICK m : m = learned[t]
      OBVIOUS
    <3>2. m \in Memories /\ Earned(m)
      BY <2>2, <3>1 DEF LearnedOK
    <3>3. s \in Cited(m.reply)
      <4>1. m.reply \in Seq(Nat) /\ m.excerpt \subseteq Cited(m.reply)
        BY <3>2 DEF Memories, Earned
      <4> QED
        BY <2>2, <3>1, <4>1, CitedIsCut
    <3>4. CASE m.provenance = "tool-output"
      <4>1. Origin(s) \in Provenances
        BY <2>2, SpeaksInTypes
      <4> QED
        BY <3>1, <3>4, <4>1, Priorities DEF NoMoreThan
    <3>5. CASE m.provenance # "tool-output"
      BY <3>1, <3>2, <3>3, <3>5 DEF Earned
    <3> QED
      BY <3>4, <3>5
  <2>3. \A t \in Turns : learned[t] # NULL => \A s \in learned[t].excerpt : Speaks(s)
    BY DEF LearnedOK, Earned
  <2> QED
    BY <2>1, <2>2, <2>3 DEF TrustIsEarned
<1> QED
  BY <1>1, Invariance, PTL

(* For every turn and budget: the payload fits, and no row that would still *)
(* fit was kept from the model (renderTranscript). *)
THEOREM Shown == Spec => []OversizedHidesNothing
<1>1. IInv => OversizedHidesNothing
  <2> SUFFICES ASSUME IInv, NEW t \in Turns
               PROVE  LET kept == RenderTranscript(read[t])
                      IN  /\ PayloadChars(kept) <= EXTRACT_TRANSCRIPT_CHARS
                          /\ \A r \in read[t] \ kept :
                               PayloadChars(kept) + 1 + RecordChars(r) > EXTRACT_TRANSCRIPT_CHARS
    BY DEF OversizedHidesNothing
  <2> USE DEF IInv
  <2>1. read[t] \in SUBSET stored /\ Len(log) \in Nat /\ DOMAIN log = 1..Len(log)
    BY DEF WorkOK, LogOK
  <2>2. \A r \in read[t] : r.chars \in Nat /\ r.seq \in 1..Len(log)
    BY <2>1, StoredIsEarned
  <2>3. \A r, s \in read[t] : r.seq = s.seq => r = s
    BY <2>1, StoredOnce
  <2> QED
    BY <2>1, <2>2, <2>3, Transcript
<1> QED
  BY <1>1, Invariance, PTL

(* However often a turn stops and whatever was logged in between, what is *)
(* stored of it is what the gate has just measured (auto-extract.ts). *)
THEOREM Measured == Spec => StoredIsMeasured
<1>1. IInv /\ [Next]_vars =>
        [\A t \in Turns : (\E llm \in BOOLEAN : TurnStopping(t, llm))
           => {r \in stored' : r.turn = t} = CollectTurnEvents(t)]_vars
  <2> SUFFICES ASSUME IInv, NEW t \in Turns, NEW llm \in BOOLEAN, TurnStopping(t, llm)
               PROVE  {r \in stored' : r.turn = t} = CollectTurnEvents(t)
    OBVIOUS
  <2> USE DEF IInv
  <2>1. stored' = Inserted(CollectTurnEvents(t))
    BY DEF TurnStopping
  <2>2. ASSUME NEW r \in stored, r.turn = t PROVE r \in CollectTurnEvents(t)
    BY <2>2 DEF StoredOK, CollectTurnEvents
  <2>3. ASSUME NEW r \in CollectTurnEvents(t), NEW s \in stored, s.seq = r.seq PROVE r = s
    <3>1. r.turn = t /\ r.seq \in DOMAIN log /\ Recorded(t, r.seq) /\ r = Row(t, r.seq)
      BY Rows
    <3>2. s.turn \in Turns /\ Recorded(s.turn, r.seq) /\ s = Row(s.turn, r.seq)
      BY <2>3 DEF StoredOK
    <3>3. s.turn = t
      BY <3>1, <3>2, OneTurn DEF Recorded, LogOK
    <3> QED
      BY <3>1, <3>2, <3>3
  <2>4. \A r \in CollectTurnEvents(t) : r.turn = t
    BY Rows
  <2> QED
    BY <2>1, <2>2, <2>3, <2>4 DEF Inserted
<1> QED
  BY <1>1, Invariance, PTL DEF Spec, StoredIsMeasured
=============================================================================
