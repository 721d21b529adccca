---------------------------- MODULE PacketProofs ----------------------------
(***************************************************************************)
(* Theorems about Packet, for every choice of the constants that passes    *)
(* the guards, every length of a row and every body.                       *)
(***************************************************************************)
EXTENDS Packet, SequenceTheorems, TLAPS

Calls == [exit : {"none", "inject", "recall", "source", "rebuild"},
          phase : {"idle", "price", "search", "select", "render", "done"},
          side : Sides, found : Seq(Seq(Row)), todo : Seq(Row), budget : Nat,
          rest : Seq(Section), after : Seq(Row), offered : Seq(Row)]
Outs == [kept : Seq(Row), chars : Nat, tokens : Nat]
Cuts == [bodies : Seq(Bodies), limit : Nat, low : Nat, high : Nat]

LEMMA NatConstants ==
  /\ INJECT_BODY_BUDGET_TOKENS \in Nat /\ INJECT_PACKET_BUDGET_TOKENS \in Nat
  /\ INJECT_TOP_N \in Nat /\ PERSONA_MAX_TOKENS \in Nat /\ SCENARIO_MAX_TOKENS \in Nat
  /\ ROLLUP_MAX_SCENARIOS \in Nat /\ RECALL_RESULT_BUDGET_TOKENS \in Nat
  /\ RECALL_FOREIGN_BUDGET_TOKENS \in Nat /\ GROUP_MAX_MEMBERS \in Nat
  /\ FramingHeader \in Nat /\ SourceLabel \in Nat /\ TruncationMark \in Nat /\ Shell \in Nat
  /\ MaxFound \in Nat /\ Lengths \subseteq Nat
BY ConstantsAssumption

(***************************************************************************)
(* Prices.                                                                 *)
(***************************************************************************)

LEMMA TokensCoverChars ==
  ASSUME NEW n \in Nat
  PROVE  EstimateTokens(n) \in Nat /\ n <= 4 * EstimateTokens(n)
BY DEF EstimateTokens

LEMMA TokensMonotone ==
  ASSUME NEW m \in Nat, NEW n \in Nat, m <= n
  PROVE  EstimateTokens(m) <= EstimateTokens(n)
BY DEF EstimateTokens

LEMMA CostCoversChars ==
  ASSUME NEW row \in Row
  PROVE  RenderEntry(row) \in Nat /\ Cost(row) \in Nat /\ RenderEntry(row) <= 4 * Cost(row)
<1>1. RenderEntry(row) \in Nat
  BY NatConstants DEF Row, RenderEntry
<1> QED
  BY <1>1, TokensCoverChars DEF Cost

LEMMA PacketGrows ==
  ASSUME NEW m \in Nat, NEW n \in Nat, m <= n, NEW a \in Nat, NEW b \in Nat, a <= b
  PROVE  PacketChars(m, a) \in Nat /\ PacketChars(m, a) <= PacketChars(n, b)
BY NatConstants DEF PacketChars

LEMMA BodyGrows ==
  ASSUME NEW b \in Bodies, NEW k \in 0..Len(b)
  PROVE  /\ Len(b) \in Nat /\ BodyChars(b, k) \in Nat
         /\ \A j \in 0..Len(b) : k <= j => BodyChars(b, k) <= BodyChars(b, j)
<1>1. b \in Seq(Nat) /\ Len(b) \in Nat
  BY BodiesAssumption
<1>2. \A j \in 0..Len(b) : BodyChars(b, j) \in Nat
  BY <1>1 DEF BodyChars
<1>3. \A j \in 0..Len(b) : k < j => BodyChars(b, k) < BodyChars(b, j)
  BY BodiesAssumption
<1> QED
  BY <1>1, <1>2, <1>3

(* The guard counts INJECT_TOP_N entries on either side: so many of the       *)
(* cheapest can be paid for.                                               *)
LEMMA SideCounts ==
  ASSUME NEW budget \in Nat, INJECT_TOP_N * CheapestEntry <= budget
  PROVE  SideCount(budget) = INJECT_TOP_N
<1>1. CheapestEntry \in Nat /\ CheapestEntry > 0
  BY NatConstants DEF CheapestEntry, EstimateTokens
<1>2. budget \div CheapestEntry >= INJECT_TOP_N
  <2> DEFINE c == CheapestEntry
             q == budget \div c
  <2>1. c \in Nat /\ c > 0 /\ INJECT_TOP_N * c <= budget
    BY <1>1
  <2> HIDE DEF c
  <2>2. q \in Nat /\ budget < c * (q + 1)
    BY <2>1
  <2> HIDE DEF q
  <2>3. ASSUME q < INJECT_TOP_N PROVE FALSE
    <3>1. q + 1 <= INJECT_TOP_N
      BY <2>2, <2>3, NatConstants
    <3>2. c * (q + 1) <= c * INJECT_TOP_N
      BY <3>1, <2>1, <2>2, NatConstants
    <3>3. c * INJECT_TOP_N = INJECT_TOP_N * c
      BY <2>1, NatConstants
    <3> QED
      BY <3>2, <3>3, <2>1, <2>2, NatConstants
  <2> QED
    BY <2>2, <2>3, NatConstants DEF q, c
<1> QED
  BY <1>1, <1>2, NatConstants DEF SideCount, Min2

(* Every packet of so many entries and characters is one the guard priced.  *)
LEMMA GuardPricesEveryPacket ==
  ASSUME NEW n \in Nat, NEW chars \in Nat,
         n <= 2 * INJECT_TOP_N, chars <= 4 * INJECT_BODY_BUDGET_TOKENS
  PROVE  EstimateTokens(PacketChars(n, chars)) <= INJECT_PACKET_BUDGET_TOKENS
<1> DEFINE rest == INJECT_BODY_BUDGET_TOKENS - PERSONA_MAX_TOKENS
           full == PacketChars(2 * INJECT_TOP_N, 4 * INJECT_BODY_BUDGET_TOKENS)
           derivedChars == PacketChars(ROLLUP_MAX_SCENARIOS + 1, 4 * WorstDerived)
<1>1. WorstDerived \in Nat /\ WorstDerived <= INJECT_BODY_BUDGET_TOKENS
      /\ PERSONA_MAX_TOKENS <= WorstDerived
  <2>1. ROLLUP_MAX_SCENARIOS * SCENARIO_MAX_TOKENS \in Nat
    BY NatConstants
  <2> QED
    BY <2>1, NatConstants, DerivedFitsGuard DEF WorstDerived
<1>2. rest \in Nat
  BY <1>1, NatConstants
<1>3. SideCount(PERSONA_MAX_TOKENS) = INJECT_TOP_N /\ SideCount(rest) = INJECT_TOP_N
  BY <1>2, NatConstants, WindowIsAffordable, SideCounts
<1>4. full \in Nat /\ derivedChars \in Nat
  BY <1>1, NatConstants, PacketGrows
<1>5. PacketChars(n, chars) \in Nat /\ PacketChars(n, chars) <= full
  BY NatConstants, PacketGrows
<1>6. SideCount(PERSONA_MAX_TOKENS) + SideCount(rest) = 2 * INJECT_TOP_N
  BY <1>3, NatConstants
<1>7. WorstPacketTokens = EstimateTokens(IF full < derivedChars THEN derivedChars ELSE full)
  BY <1>6 DEF WorstPacketTokens
<1> HIDE DEF full, derivedChars
<1>8. EstimateTokens(full) <= WorstPacketTokens
  <2>1. CASE full < derivedChars
    BY <2>1, <1>4, <1>7, TokensMonotone
  <2>2. CASE ~(full < derivedChars)
    BY <2>2, <1>4, <1>7, TokensCoverChars
  <2> QED
    BY <2>1, <2>2
<1>9. EstimateTokens(PacketChars(n, chars)) <= EstimateTokens(full)
  BY <1>4, <1>5, TokensMonotone
<1>10. EstimateTokens(full) \in Nat /\ EstimateTokens(PacketChars(n, chars)) \in Nat
       /\ WorstPacketTokens \in Nat
  BY <1>4, <1>5, <1>7, TokensCoverChars
<1> QED
  BY <1>8, <1>9, <1>10, InjectGuard, NatConstants

(***************************************************************************)
(* The inductive invariant.                                                *)
(***************************************************************************)

(* A search has the largest prefix that fits between its ends.              *)
Narrowed ==
  call.phase = "search" =>
    /\ cut.bodies # <<>> /\ cut.low <= cut.high /\ cut.high <= Len(Whole)
    /\ \A k \in 0..Len(Whole) : Fits(k) => k <= cut.high
    /\ cut.low = 0 \/ Fits(cut.low)

(* A cut is a rebuild's or a quotation's, and makes no more rows than bodies. *)
Cutting ==
  call.phase \in {"price", "search"} =>
    /\ call.exit \in {"rebuild", "source"}
    /\ call.exit = "rebuild" => Len(out.kept) + Len(cut.bodies) <= MostBlocks(call.side)

(* An injection has paid for every character it holds.                      *)
Paid ==
  call.exit = "inject" =>
    /\ call.phase = "select" =>
         /\ call.rest = <<>>
         /\ Len(out.kept) + Len(call.todo) <= INJECT_TOP_N /\ Len(call.after) <= INJECT_TOP_N
    /\ call.phase \in {"render", "done"} =>
         /\ Len(out.kept) + Len(call.todo) <= 2 * INJECT_TOP_N
         /\ out.chars <= 4 * out.tokens
         /\ out.tokens + call.budget <= INJECT_BODY_BUDGET_TOKENS

IInv == /\ TypeOK /\ Narrowed /\ Cutting /\ Paid
        /\ call.phase = "idle" => out = Nothing

LEMMA Types == TypeOK <=> /\ derived \in [Sides -> Seq(Row)]
                          /\ \A side \in Sides : Len(derived[side]) <= MostBlocks(side)
                          /\ call \in Calls /\ out \in Outs /\ cut \in Cuts
BY DEF TypeOK, Calls, Outs, Cuts

LEMMA MostIs == \A side \in Sides : MostBlocks(side) \in Nat /\ MostBlocks(side) <= INJECT_TOP_N
BY NatConstants, WindowGuard DEF MostBlocks

LEMMA EmptyIs ==
  /\ NoCall \in Calls /\ Nothing \in Outs /\ NoCut \in Cuts
  /\ NoCall.phase = "idle" /\ NoCall.exit = "none"
BY DEF NoCall, Nothing, NoCut, Calls, Outs, Cuts, Sides

(* Back to idle, with nothing kept.                                         *)
LEMMA IdleHolds ==
  ASSUME derived' \in [Sides -> Seq(Row)], \A side \in Sides : Len(derived'[side]) <= MostBlocks(side),
         call' = NoCall, out' = Nothing, cut' = NoCut
  PROVE  IInv'
<1>1. TypeOK'
  BY EmptyIs DEF TypeOK, Calls, Outs, Cuts
<1> QED
  BY <1>1, EmptyIs DEF IInv, Narrowed, Cutting, Paid

LEMMA InitHolds == Init => IInv
<1> SUFFICES ASSUME Init PROVE IInv
  OBVIOUS
<1>1. TypeOK
  BY EmptyIs, MostIs DEF Init, TypeOK, Calls, Outs, Cuts
<1> QED
  BY <1>1, EmptyIs DEF Init, IInv, Narrowed, Cutting, Paid

LEMMA RawWriteKeeps ==
  ASSUME IInv, NEW side \in Sides, RawWrite(side)
  PROVE  IInv'
<1>1. derived' = [derived EXCEPT ![side] = <<>>] /\ UNCHANGED <<call, out, cut>>
  BY DEF RawWrite
<1>2. derived \in [Sides -> Seq(Row)] /\ \A s \in Sides : Len(derived[s]) <= MostBlocks(s)
  BY Types DEF IInv
<1>3. derived' \in [Sides -> Seq(Row)] /\ \A s \in Sides : Len(derived'[s]) <= MostBlocks(s)
  BY <1>1, <1>2, MostIs
<1>4. TypeOK'
  BY <1>1, <1>3 DEF IInv, TypeOK
<1> QED
  BY <1>1, <1>4 DEF IInv, Narrowed, Cutting, Paid, Whole, Fits

LEMMA StartCuttingKeeps ==
  ASSUME IInv, NEW exit \in {"rebuild", "source"}, NEW side \in Sides, NEW bodies \in Seq(Bodies),
         NEW limit \in Nat, StartCutting(exit, side, bodies, limit),
         exit = "rebuild" => Len(bodies) <= MostBlocks(side)
  PROVE  IInv'
<1> DEFINE a == [NoCall EXCEPT !.exit = exit]
           b == [a EXCEPT !.side = side]
           c == [b EXCEPT !.phase = "price"]
<1>1. /\ call' = c /\ cut' = [bodies |-> bodies, limit |-> limit, low |-> 0, high |-> 0]
      /\ UNCHANGED <<derived, out>> /\ out = Nothing
  <2>1. call' = [NoCall EXCEPT !.exit = exit, !.side = side, !.phase = "price"]
    BY DEF StartCutting
  <2>2. call' = c
    BY <2>1, EmptyIs DEF Calls, a, b, c
  <2> QED
    BY <2>2 DEF StartCutting, IInv, At
<1>2. a \in Calls /\ a.exit = exit
  BY EmptyIs DEF Calls
<1> HIDE DEF a
<1>3. b \in Calls /\ b.exit = exit /\ b.side = side
  BY <1>2 DEF Calls
<1> HIDE DEF b
<1>4. c \in Calls /\ c.exit = exit /\ c.side = side /\ c.phase = "price"
  BY <1>3 DEF Calls
<1> HIDE DEF c
<1>5. TypeOK'
  BY <1>1, <1>4, EmptyIs, Types DEF IInv, TypeOK, Calls, Outs, Cuts
<1>6. Cutting'
  BY <1>1, <1>4, MostIs DEF Cutting, Nothing
<1> QED
  BY <1>1, <1>4, <1>5, <1>6 DEF IInv, Narrowed, Paid

LEMMA AtMostIs ==
  ASSUME NEW S, NEW n \in Nat, NEW f \in AtMost(S, n)
  PROVE  f \in Seq(S) /\ Len(f) \in Nat /\ Len(f) <= n
<1>1. PICK k \in 0..n : f \in [1..k -> S]
  BY DEF AtMost
<1>2. f \in Seq(S) /\ Len(f) = k
  BY <1>1
<1> QED
  BY <1>2

LEMMA RebuildKeeps ==
  ASSUME IInv, NEW side \in Sides, Rebuild(side)
  PROVE  IInv'
<1> PICK replies \in AtMost(Bodies, ROLLUP_MAX_SCENARIOS + 1) :
      StartCutting("rebuild", side, Blocks(side, replies), Ceiling(side))
  BY DEF Rebuild
<1>1. replies \in Seq(Bodies) /\ Len(replies) \in Nat
  BY NatConstants, AtMostIs
<1> DEFINE m == Min2(Len(replies), MostBlocks(side))
<1>2. m \in Nat /\ m <= Len(replies) /\ m <= MostBlocks(side)
  BY <1>1, MostIs DEF Min2
<1> HIDE DEF m
<1>3. Blocks(side, replies) = SubSeq(replies, 1, m)
  BY DEF Blocks, m
<1>4. SubSeq(replies, 1, m) \in Seq(Bodies) /\ Len(SubSeq(replies, 1, m)) = m
  BY <1>1, <1>2
<1>5. Ceiling(side) \in Nat
  BY NatConstants DEF Ceiling
<1> QED
  BY <1>2, <1>3, <1>4, <1>5, StartCuttingKeeps

LEMMA AskSourceKeeps ==
  ASSUME IInv, AskSource
  PROVE  IInv'
<1> PICK turns \in AtMost(Bodies, 2) : StartCutting("source", "repo", turns, RecallPacketBudget)
  BY DEF AskSource
<1>1. turns \in Seq(Bodies)
  BY AtMostIs
<1>2. RecallPacketBudget \in Nat /\ "repo" \in Sides
  BY NatConstants DEF RecallPacketBudget, Sides
<1> QED
  BY <1>1, <1>2, StartCuttingKeeps

(* What is known of the body being cut.                                     *)
LEMMA WholeIs ==
  ASSUME IInv, cut.bodies # <<>>
  PROVE  /\ Whole \in Bodies /\ Len(Whole) \in Nat
         /\ Tail(cut.bodies) \in Seq(Bodies) /\ Len(Tail(cut.bodies)) = Len(cut.bodies) - 1
         /\ Len(cut.bodies) \in Nat /\ Len(cut.bodies) > 0
<1>1. cut.bodies \in Seq(Bodies)
  BY Types DEF IInv, Cuts
<1>2. Head(cut.bodies) \in Bodies /\ Tail(cut.bodies) \in Seq(Bodies)
      /\ Len(Tail(cut.bodies)) = Len(cut.bodies) - 1
  BY <1>1, HeadTailProperties
<1>3. Len(cut.bodies) \in Nat /\ Len(cut.bodies) > 0
  BY <1>1, EmptySeq
<1>4. 0 \in 0..Len(Whole) /\ Whole \in Bodies
  BY <1>2, BodiesAssumption DEF Whole
<1> QED
  BY <1>2, <1>3, <1>4, BodyGrows DEF Whole

LEMMA NextBodyKeeps ==
  ASSUME IInv, NEW n \in Nat, NextBody, cut.bodies # <<>>, call.phase \in {"price", "search"},
         UNCHANGED derived, Make(n) \/ UNCHANGED out
  PROVE  IInv'
<1> DEFINE a == [cut EXCEPT !.bodies = Tail(@)]
           b == [a EXCEPT !.low = 0]
           c == [b EXCEPT !.high = 0]
           d == [call EXCEPT !.phase = "price"]
<1>0. cut \in Cuts /\ call \in Calls /\ out \in Outs
  BY Types DEF IInv
<1>1. /\ Tail(cut.bodies) \in Seq(Bodies) /\ Len(Tail(cut.bodies)) = Len(cut.bodies) - 1
      /\ Len(cut.bodies) \in Nat /\ Len(cut.bodies) > 0
  BY WholeIs
<1>2. cut' = c /\ call' = d
  <2>1. cut' = [cut EXCEPT !.bodies = Tail(@), !.low = 0, !.high = 0]
    BY DEF NextBody
  <2> QED
    BY <2>1, <1>0 DEF NextBody, Cuts, a, b, c
<1>3. c \in Cuts /\ c.bodies = Tail(cut.bodies)
  <2>1. a \in Cuts /\ a.bodies = Tail(cut.bodies)
    BY <1>0, <1>1 DEF Cuts
  <2> HIDE DEF a
  <2>2. b \in Cuts /\ b.bodies = Tail(cut.bodies)
    BY <2>1 DEF Cuts
  <2> HIDE DEF b
  <2> QED
    BY <2>2 DEF Cuts
<1>4. d \in Calls /\ d.phase = "price" /\ d.exit = call.exit /\ d.side = call.side
  BY <1>0 DEF Calls
<1> HIDE DEF c, d
<1>5. /\ out' \in Outs /\ Len(out.kept) \in Nat /\ Len(out'.kept) \in Nat
      /\ Len(out'.kept) <= Len(out.kept) + 1
  <2>1. out.kept \in Seq(Row) /\ Len(out.kept) \in Nat
    BY <1>0 DEF Outs
  <2>2. CASE UNCHANGED out
    BY <2>1, <2>2, <1>0
  <2>3. CASE Make(n)
    <3> DEFINE row == [len |-> n, from |-> 0]
    <3>1. row \in Row
      BY NatConstants DEF Row
    <3>2. out' = [out EXCEPT !.kept = Append(out.kept, row)]
      BY <2>3 DEF Make
    <3> HIDE DEF row
    <3>3. Append(out.kept, row) \in Seq(Row) /\ Len(Append(out.kept, row)) = Len(out.kept) + 1
      BY <2>1, <3>1
    <3>4. out' \in Outs /\ out'.kept = Append(out.kept, row)
      BY <3>2, <3>3, <1>0 DEF Outs
    <3> QED
      BY <2>1, <3>3, <3>4
  <2> QED
    BY <2>2, <2>3
<1>6. call.exit \in {"rebuild", "source"}
      /\ (call.exit = "rebuild" => Len(out.kept) + Len(cut.bodies) <= MostBlocks(call.side))
  BY DEF IInv, Cutting
<1>7. Cutting'
  <2>1. MostBlocks(call.side) \in Nat /\ call'.side = call.side /\ call'.exit = call.exit
    BY <1>0, <1>2, <1>4, MostIs DEF Calls
  <2>2. cut'.bodies = Tail(cut.bodies)
    BY <1>2, <1>3
  <2>3. Len(cut'.bodies) = Len(cut.bodies) - 1
    BY <2>2, <1>1
  <2>4. call.exit = "rebuild" => Len(out'.kept) + Len(cut'.bodies) <= MostBlocks(call.side)
    <3> DEFINE x == Len(out'.kept)
               y == Len(cut'.bodies)
               u == Len(out.kept)
               w == Len(cut.bodies)
               most == MostBlocks(call.side)
    <3>1. x \in Nat /\ u \in Nat /\ w \in Nat /\ most \in Nat /\ y = w - 1 /\ x <= u + 1
      BY <2>1, <2>3, <1>1, <1>5
    <3>2. call.exit = "rebuild" => u + w <= most
      BY <1>6
    <3> HIDE DEF x, y, u, w, most
    <3>3. call.exit = "rebuild" => x + y <= most
      BY <3>1, <3>2
    <3> QED
      BY <3>3 DEF x, y, most
  <2> QED
    BY <2>1, <2>4, <1>6 DEF Cutting
<1>8. TypeOK'
  BY <1>2, <1>3, <1>4, <1>5 DEF IInv, TypeOK, Calls, Outs, Cuts
<1> QED
  BY <1>2, <1>4, <1>6, <1>7, <1>8 DEF IInv, Narrowed, Paid

LEMMA UncutKeeps ==
  ASSUME IInv, Uncut
  PROVE  IInv'
<1>1. cut.bodies # <<>> /\ call.phase = "price" /\ NextBody /\ UNCHANGED derived
      /\ Make(Shell + BodyChars(Whole, Len(Whole)))
  BY DEF Uncut, At
<1>2. Whole \in Bodies /\ Len(Whole) \in Nat
  BY <1>1, WholeIs
<1>3. Shell + BodyChars(Whole, Len(Whole)) \in Nat
  BY <1>2, BodyGrows, NatConstants
<1> QED
  BY <1>1, <1>3, NextBodyKeeps

LEMMA EndSearchKeeps ==
  ASSUME IInv, EndSearch
  PROVE  IInv'
<1>1. /\ call.phase = "search" /\ NextBody /\ UNCHANGED derived /\ cut.low = cut.high
      /\ Make(Shell + BodyChars(Whole, cut.low) + TruncationMark) \/ UNCHANGED out
  BY DEF EndSearch, At
<1>2. cut.bodies # <<>> /\ cut.high <= Len(Whole) /\ cut.low \in Nat
  BY <1>1, Types DEF IInv, Narrowed, Cuts
<1>3. Whole \in Bodies /\ cut.low \in 0..Len(Whole)
  BY <1>1, <1>2, WholeIs
<1>4. Shell + BodyChars(Whole, cut.low) + TruncationMark \in Nat
  BY <1>3, BodyGrows, NatConstants
<1> QED
  BY <1>1, <1>2, <1>4, NextBodyKeeps

LEMMA StartSearchKeeps ==
  ASSUME IInv, StartSearch
  PROVE  IInv'
<1> DEFINE a == [cut EXCEPT !.low = 0]
           b == [a EXCEPT !.high = Len(Whole)]
           d == [call EXCEPT !.phase = "search"]
<1>0. cut \in Cuts /\ call \in Calls
  BY Types DEF IInv
<1>1. cut.bodies # <<>> /\ call.phase = "price" /\ UNCHANGED <<derived, out>>
  BY DEF StartSearch, At
<1>2. Whole \in Bodies /\ Len(Whole) \in Nat
  BY <1>1, WholeIs
<1>3. cut' = b /\ call' = d
  <2>1. cut' = [cut EXCEPT !.low = 0, !.high = Len(Whole)]
    BY DEF StartSearch
  <2> QED
    BY <2>1, <1>0 DEF StartSearch, Cuts, a, b
<1>4. b \in Cuts /\ b.bodies = cut.bodies /\ b.limit = cut.limit /\ b.low = 0 /\ b.high = Len(Whole)
  <2>1. a \in Cuts /\ a.bodies = cut.bodies /\ a.limit = cut.limit /\ a.low = 0
    BY <1>0 DEF Cuts
  <2> HIDE DEF a
  <2> QED
    BY <2>1, <1>2 DEF Cuts
<1>5. d \in Calls /\ d.phase = "search" /\ d.exit = call.exit /\ d.side = call.side
  BY <1>0 DEF Calls
<1> HIDE DEF b, d
<1>6. Whole' = Whole
  BY <1>3, <1>4 DEF Whole
<1>7. Narrowed'
  BY <1>1, <1>2, <1>3, <1>4, <1>6 DEF Narrowed
<1>8. Cutting'
  BY <1>1, <1>3, <1>4, <1>5 DEF IInv, Cutting
<1>9. TypeOK'
  BY <1>1, <1>3, <1>4, <1>5 DEF IInv, TypeOK, Calls, Cuts
<1> QED
  BY <1>1, <1>3, <1>5, <1>7, <1>8, <1>9 DEF IInv, Paid, Cutting

LEMMA FitsShrinks ==
  ASSUME IInv, cut.bodies # <<>>, NEW k \in 0..Len(Whole), NEW j \in 0..Len(Whole), j <= k, Fits(k)
  PROVE  Fits(j)
<1>1. Whole \in Bodies
  BY WholeIs
<1>2. BodyChars(Whole, j) \in Nat /\ BodyChars(Whole, k) \in Nat
      /\ BodyChars(Whole, j) <= BodyChars(Whole, k)
  BY <1>1, BodyGrows
<1> DEFINE x == Shell + BodyChars(Whole, j) + TruncationMark
           y == Shell + BodyChars(Whole, k) + TruncationMark
<1>3. x \in Nat /\ y \in Nat /\ x <= y
  BY <1>2, NatConstants
<1>4. EstimateTokens(y) <= cut.limit /\ cut.limit \in Nat
  BY Types DEF Fits, IInv, Cuts
<1> HIDE DEF x, y
<1>5. EstimateTokens(x) <= EstimateTokens(y) /\ EstimateTokens(x) \in Nat /\ EstimateTokens(y) \in Nat
  BY <1>3, TokensMonotone, TokensCoverChars
<1>6. EstimateTokens(x) <= cut.limit
  BY <1>4, <1>5
<1> QED
  BY <1>6 DEF Fits, x

LEMMA SearchKeeps ==
  ASSUME IInv, Search
  PROVE  IInv'
<1> DEFINE mid == (cut.low + cut.high + 1) \div 2
           a == [cut EXCEPT !.low = Halve(mid)[1]]
           b == [a EXCEPT !.high = Halve(mid)[2]]
<1>0. cut \in Cuts /\ cut.low \in Nat /\ cut.high \in Nat
  BY Types DEF IInv, Cuts
<1>1. call.phase = "search" /\ cut.low < cut.high /\ UNCHANGED <<derived, call, out>>
  BY DEF Search, At
<1>2. /\ cut.bodies # <<>> /\ cut.high <= Len(Whole)
      /\ \A k \in 0..Len(Whole) : Fits(k) => k <= cut.high
      /\ cut.low = 0 \/ Fits(cut.low)
  BY <1>1 DEF IInv, Narrowed
<1>3. Whole \in Bodies /\ Len(Whole) \in Nat
  BY <1>2, WholeIs
<1>4. mid \in Nat /\ cut.low < mid /\ mid <= cut.high /\ mid \in 0..Len(Whole)
  BY <1>0, <1>1, <1>2, <1>3
<1>5. cut' = b
  <2>1. cut' = [cut EXCEPT !.low = Halve(mid)[1], !.high = Halve(mid)[2]]
    BY DEF Search
  <2> QED
    BY <2>1, <1>0 DEF Cuts, a, b
<1> HIDE DEF mid
<1>6. /\ Halve(mid)[1] \in Nat /\ Halve(mid)[2] \in Nat
      /\ Fits(mid) => Halve(mid)[1] = mid /\ Halve(mid)[2] = cut.high
      /\ ~Fits(mid) => Halve(mid)[1] = cut.low /\ Halve(mid)[2] = mid - 1
  BY <1>0, <1>4 DEF Halve
<1>7. /\ b \in Cuts /\ b.bodies = cut.bodies /\ b.limit = cut.limit
      /\ b.low = Halve(mid)[1] /\ b.high = Halve(mid)[2]
  <2>1. a \in Cuts /\ a.bodies = cut.bodies /\ a.limit = cut.limit /\ a.low = Halve(mid)[1]
        /\ a.high = cut.high
    BY <1>0, <1>6 DEF Cuts
  <2> HIDE DEF a
  <2> QED
    BY <2>1, <1>6 DEF Cuts
<1> HIDE DEF b
<1>8. Whole' = Whole /\ cut'.limit = cut.limit /\ \A k : Fits(k)' <=> Fits(k)
  BY <1>5, <1>7 DEF Whole, Fits
<1>9. Narrowed'
  <2>1. CASE Fits(mid)
    <3>1. cut'.low = mid /\ cut'.high = cut.high /\ cut'.bodies = cut.bodies
      BY <2>1, <1>5, <1>6, <1>7
    <3>2. Fits(cut.low)'
      BY <2>1, <3>1, <1>8 DEF Fits
    <3>3. \A k \in 0..Len(Whole') : Fits(k)' => k <= cut'.high
      BY <3>1, <1>2, <1>8
    <3> QED
      BY <3>1, <3>2, <3>3, <1>2, <1>4, <1>8 DEF Narrowed
  <2>2. CASE ~Fits(mid)
    <3>1. cut'.low = cut.low /\ cut'.high = mid - 1 /\ cut'.bodies = cut.bodies
      BY <2>2, <1>5, <1>6, <1>7
    <3>2. \A k \in 0..Len(Whole) : Fits(k) => k <= mid - 1
      BY <2>2, <1>2, <1>3, <1>4, FitsShrinks
    <3>3. cut'.low = 0 \/ Fits(cut.low)'
      BY <3>1, <1>2, <1>8 DEF Fits
    <3>4. \A k \in 0..Len(Whole') : Fits(k)' => k <= cut'.high
      BY <3>1, <3>2, <1>8
    <3> QED
      BY <3>1, <3>3, <3>4, <1>0, <1>2, <1>3, <1>4, <1>8 DEF Narrowed
  <2> QED
    BY <2>1, <2>2
<1>10. Cutting'
  BY <1>1, <1>5, <1>7 DEF IInv, Cutting
<1>11. TypeOK'
  BY <1>1, <1>5, <1>7 DEF IInv, TypeOK, Cuts
<1> QED
  BY <1>1, <1>9, <1>10, <1>11 DEF IInv, Paid

LEMMA StoreLayerKeeps ==
  ASSUME IInv, StoreLayer
  PROVE  IInv'
<1>1. /\ call.phase = "price" /\ call.exit = "rebuild" /\ cut.bodies = <<>>
      /\ derived' = [derived EXCEPT ![call.side] = IF out.kept = <<>> THEN @ ELSE out.kept]
      /\ call' = NoCall /\ out' = Nothing /\ cut' = NoCut
  BY DEF StoreLayer, At
<1>2. /\ derived \in [Sides -> Seq(Row)] /\ \A s \in Sides : Len(derived[s]) <= MostBlocks(s)
      /\ out.kept \in Seq(Row) /\ call.side \in Sides
  BY Types DEF IInv, Calls, Outs
<1>3. Len(out.kept) <= MostBlocks(call.side)
  <2>1. Len(out.kept) + Len(cut.bodies) <= MostBlocks(call.side)
    BY <1>1 DEF IInv, Cutting
  <2>2. Len(cut.bodies) = 0 /\ Len(out.kept) \in Nat
    BY <1>1, <1>2
  <2> QED
    BY <2>1, <2>2
<1> QED
  BY <1>1, <1>2, <1>3, IdleHolds

LEMMA ConcatIs ==
  ASSUME NEW S, NEW f \in Seq(S), NEW g \in Seq(S)
  PROVE  f \o g \in Seq(S) /\ Len(f \o g) = Len(f) + Len(g)
         /\ Len(f) \in Nat /\ Len(g) \in Nat
BY ConcatProperties

LEMMA InjectionRowsAre ==
  ASSUME IInv, NEW side \in Sides, NEW raw \in AtMost(Here, INJECT_TOP_N)
  PROVE  InjectionRows(side, raw) \in Seq(Row) /\ Len(InjectionRows(side, raw)) \in Nat
         /\ Len(InjectionRows(side, raw)) <= INJECT_TOP_N
<1>1. raw \in Seq(Row) /\ Len(raw) \in Nat /\ Len(raw) <= INJECT_TOP_N
  <2>1. Here \subseteq Row
    BY NatConstants DEF Here, Row
  <2>2. raw \in Seq(Here) /\ Len(raw) \in Nat /\ Len(raw) <= INJECT_TOP_N
    BY NatConstants, AtMostIs
  <2> QED
    BY <2>1, <2>2
<1> DEFINE m == Min2(Len(derived[side]), INJECT_TOP_N)
<1>2. derived[side] \in Seq(Row) /\ Len(derived[side]) \in Nat
  BY Types DEF IInv
<1>3. m \in Nat /\ m <= Len(derived[side]) /\ m <= INJECT_TOP_N
  BY <1>2, NatConstants DEF Min2
<1> HIDE DEF m
<1>4. SubSeq(derived[side], 1, m) \in Seq(Row) /\ Len(SubSeq(derived[side], 1, m)) = m
  BY <1>2, <1>3
<1>5. InjectionRows(side, raw) = IF derived[side] # <<>> THEN SubSeq(derived[side], 1, m) ELSE raw
  BY DEF InjectionRows, m
<1> QED
  BY <1>1, <1>3, <1>4, <1>5

LEMMA RawIsShort ==
  ASSUME NEW side \in Sides
  PROVE  Raw(side) \subseteq AtMost(Here, INJECT_TOP_N)
<1>1. <<>> \in AtMost(Here, INJECT_TOP_N)
  <2>1. <<>> \in [1..0 -> Here] /\ 0 \in 0..INJECT_TOP_N
    BY NatConstants
  <2> QED
    BY <2>1 DEF AtMost
<1> QED
  BY <1>1 DEF Raw

LEMMA InjectKeeps ==
  ASSUME IInv, Inject
  PROVE  IInv'
<1> PICK mine \in Raw("personal"), ours \in Raw("repo") :
      call' = [NoCall EXCEPT !.exit = "inject", !.phase = "select",
                 !.todo = InjectionRows("personal", mine), !.budget = PersonalCap,
                 !.after = InjectionRows("repo", ours)]
  BY DEF Inject
<1> DEFINE first == InjectionRows("personal", mine)
           second == InjectionRows("repo", ours)
<1>1. UNCHANGED <<derived, out, cut>> /\ out = Nothing
  BY DEF Inject, IInv, At
<1>2. /\ first \in Seq(Row) /\ Len(first) \in Nat /\ Len(first) <= INJECT_TOP_N
      /\ second \in Seq(Row) /\ Len(second) \in Nat /\ Len(second) <= INJECT_TOP_N
  <2>1. "personal" \in Sides /\ "repo" \in Sides
    BY DEF Sides
  <2>2. mine \in AtMost(Here, INJECT_TOP_N) /\ ours \in AtMost(Here, INJECT_TOP_N)
    BY <2>1, RawIsShort
  <2> QED
    BY <2>1, <2>2, InjectionRowsAre
<1> HIDE DEF first, second
<1> DEFINE a == [NoCall EXCEPT !.exit = "inject"]
           b == [a EXCEPT !.phase = "select"]
           c == [b EXCEPT !.todo = first]
           d == [c EXCEPT !.budget = PersonalCap]
           e == [d EXCEPT !.after = second]
<1>3. call' = e
  <2>1. call' = [NoCall EXCEPT !.exit = "inject", !.phase = "select", !.todo = first,
                               !.budget = PersonalCap, !.after = second]
    BY DEF first, second
  <2> QED
    BY <2>1, EmptyIs DEF Calls
<1>4. b \in Calls /\ b.exit = "inject" /\ b.phase = "select" /\ b.rest = <<>>
  <2>1. NoCall.rest = <<>>
    BY DEF NoCall
  <2>2. a \in Calls /\ a.exit = "inject" /\ a.rest = <<>>
    BY <2>1, EmptyIs DEF Calls
  <2> HIDE DEF a
  <2> QED
    BY <2>2 DEF Calls
<1> HIDE DEF b
<1>5. c \in Calls /\ c.exit = "inject" /\ c.phase = "select" /\ c.rest = <<>> /\ c.todo = first
  BY <1>2, <1>4 DEF Calls
<1> HIDE DEF c
<1>6. d \in Calls /\ d.exit = "inject" /\ d.phase = "select" /\ d.rest = <<>> /\ d.todo = first
  BY <1>5, NatConstants DEF Calls, PersonalCap
<1> HIDE DEF d
<1>7. e \in Calls /\ e.exit = "inject" /\ e.phase = "select" /\ e.rest = <<>> /\ e.todo = first
      /\ e.after = second
  BY <1>2, <1>6 DEF Calls
<1> HIDE DEF e
<1>8. Len(out.kept) = 0
  BY <1>1 DEF Nothing
<1>9. Paid'
  <2>1. call'.phase = "select" /\ call'.rest = <<>> /\ call'.todo = first /\ call'.after = second
    BY <1>3, <1>7
  <2>2. Len(out'.kept) = 0
    BY <1>1, <1>8
  <2>3. Len(out'.kept) + Len(call'.todo) <= INJECT_TOP_N /\ Len(call'.after) <= INJECT_TOP_N
    BY <2>1, <2>2, <1>2
  <2> QED
    BY <2>1, <2>3 DEF Paid
<1>10. TypeOK'
  BY <1>1, <1>3, <1>7 DEF IInv, TypeOK, Calls
<1> QED
  BY <1>1, <1>3, <1>7, <1>9, <1>10 DEF IInv, Narrowed, Cutting

LEMMA FoundIs ==
  ASSUME NEW m \in 0..GROUP_MAX_MEMBERS, NEW f \in AtMost(From(m), MaxFound)
  PROVE  f \in Seq(Row)
<1>1. From(m) \subseteq Row
  BY NatConstants DEF From, Row
<1>2. f \in Seq(From(m))
  BY NatConstants, AtMostIs
<1> QED
  BY <1>1, <1>2

LEMMA RecallKeeps ==
  ASSUME IInv, Recall
  PROVE  IInv'
<1>a. PICK home \in AtMost(Here, MaxFound), k \in 0..GROUP_MAX_MEMBERS :
      \E others \in [1..k -> UNION {AtMost(From(m), MaxFound) : m \in 1..k}] :
        /\ \A m \in 1..k : others[m] \in AtMost(From(m), MaxFound)
        /\ call' = [NoCall EXCEPT !.exit = "recall", !.phase = "select", !.todo = home,
                      !.budget = RECALL_RESULT_BUDGET_TOKENS,
                      !.rest = [m \in 1..k |-> [rows |-> others[m],
                                                budget |-> RECALL_FOREIGN_BUDGET_TOKENS]],
                      !.found = others]
  BY DEF Recall
<1>b. PICK others \in [1..k -> UNION {AtMost(From(m), MaxFound) : m \in 1..k}] :
        /\ \A m \in 1..k : others[m] \in AtMost(From(m), MaxFound)
        /\ call' = [NoCall EXCEPT !.exit = "recall", !.phase = "select", !.todo = home,
                      !.budget = RECALL_RESULT_BUDGET_TOKENS,
                      !.rest = [m \in 1..k |-> [rows |-> others[m],
                                                budget |-> RECALL_FOREIGN_BUDGET_TOKENS]],
                      !.found = others]
  BY <1>a
<1>1. UNCHANGED <<derived, out, cut>> /\ out = Nothing
  BY DEF Recall, IInv, At
<1>2. home \in Seq(Row)
  <2>1. Here \subseteq Row
    BY NatConstants DEF Here, Row
  <2>2. home \in Seq(Here)
    BY <1>a, NatConstants, AtMostIs
  <2> QED
    BY <2>1, <2>2
<1>3. k \in Nat /\ \A m \in 1..k : m \in 0..GROUP_MAX_MEMBERS
  <2>1. k \in 0..GROUP_MAX_MEMBERS /\ GROUP_MAX_MEMBERS \in Nat
    BY <1>a, NatConstants
  <2> QED
    BY <2>1
<1>4. \A m \in 1..k : others[m] \in Seq(Row)
  BY <1>b, <1>3, FoundIs
<1>5. others \in Seq(Seq(Row))
  <2>1. others \in [1..k -> Seq(Row)]
    BY <1>b, <1>4
  <2> QED
    BY <2>1, <1>3
<1> DEFINE sections == [m \in 1..k |-> [rows |-> others[m], budget |-> RECALL_FOREIGN_BUDGET_TOKENS]]
<1>6. sections \in Seq(Section)
  <2>1. \A m \in 1..k : [rows |-> others[m], budget |-> RECALL_FOREIGN_BUDGET_TOKENS] \in Section
    BY <1>4, NatConstants DEF Section
  <2>2. sections \in [1..k -> Section]
    BY <2>1
  <2> HIDE DEF sections
  <2> QED
    BY <2>2, <1>3
<1> HIDE DEF sections
<1> DEFINE a == [NoCall EXCEPT !.exit = "recall"]
           b == [a EXCEPT !.phase = "select"]
           c == [b EXCEPT !.todo = home]
           d == [c EXCEPT !.budget = RECALL_RESULT_BUDGET_TOKENS]
           e == [d EXCEPT !.rest = sections]
           f == [e EXCEPT !.found = others]
<1>7. call' = f
  <2>1. call' = [NoCall EXCEPT !.exit = "recall", !.phase = "select", !.todo = home,
                   !.budget = RECALL_RESULT_BUDGET_TOKENS, !.rest = sections, !.found = others]
    BY <1>b DEF sections
  <2> QED
    BY <2>1, EmptyIs DEF Calls
<1>8. b \in Calls /\ b.exit = "recall" /\ b.phase = "select"
  <2>1. a \in Calls /\ a.exit = "recall"
    BY EmptyIs DEF Calls
  <2> HIDE DEF a
  <2> QED
    BY <2>1 DEF Calls
<1> HIDE DEF b
<1>9. c \in Calls /\ c.exit = "recall" /\ c.phase = "select"
  BY <1>2, <1>8 DEF Calls
<1> HIDE DEF c
<1>10. d \in Calls /\ d.exit = "recall" /\ d.phase = "select"
  BY <1>9, NatConstants DEF Calls
<1> HIDE DEF d
<1>11. e \in Calls /\ e.exit = "recall" /\ e.phase = "select"
  BY <1>6, <1>10 DEF Calls
<1> HIDE DEF e
<1>12. f \in Calls /\ f.exit = "recall" /\ f.phase = "select"
  BY <1>5, <1>11 DEF Calls
<1> HIDE DEF f
<1>13. TypeOK'
  BY <1>1, <1>7, <1>12 DEF IInv, TypeOK, Calls
<1> QED
  BY <1>1, <1>7, <1>12, <1>13 DEF IInv, Narrowed, Cutting, Paid

(* What is known of the rows under selection.                               *)
LEMMA SelectionIs ==
  ASSUME IInv
  PROVE  /\ call \in Calls /\ call.todo \in Seq(Row) /\ Len(call.todo) \in Nat /\ call.budget \in Nat
         /\ out \in Outs /\ out.kept \in Seq(Row) /\ Len(out.kept) \in Nat
         /\ out.chars \in Nat /\ out.tokens \in Nat
         /\ call.todo # <<>> => /\ Head(call.todo) \in Row /\ Tail(call.todo) \in Seq(Row)
                                /\ Len(Tail(call.todo)) = Len(call.todo) - 1
                                /\ Len(call.todo) > 0
<1>1. call \in Calls /\ out \in Outs
  BY Types DEF IInv
<1>2. call.todo \in Seq(Row) /\ out.kept \in Seq(Row) /\ call.budget \in Nat
      /\ out.chars \in Nat /\ out.tokens \in Nat
  BY <1>1 DEF Calls, Outs
<1>3. call.todo # <<>> => /\ Head(call.todo) \in Row /\ Tail(call.todo) \in Seq(Row)
                          /\ Len(Tail(call.todo)) = Len(call.todo) - 1
                          /\ Len(call.todo) > 0
  BY <1>2, HeadTailProperties, EmptySeq
<1> QED
  BY <1>1, <1>2, <1>3

LEMMA KeepKeeps ==
  ASSUME IInv, Keep
  PROVE  IInv'
<1> DEFINE row == Head(call.todo)
           a == [call EXCEPT !.todo = Tail(@)]
           b == [a EXCEPT !.budget = @ - Cost(row)]
           o == [kept |-> Append(out.kept, row), chars |-> out.chars + RenderEntry(row),
                 tokens |-> out.tokens + Cost(row)]
<1>1. /\ call.phase \in {"select", "render"} /\ call.todo # <<>> /\ Cost(row) <= call.budget
      /\ out' = o /\ UNCHANGED <<derived, cut>>
      /\ call' = [call EXCEPT !.todo = Tail(@), !.budget = @ - Cost(row)]
  BY DEF Keep, Selecting, At
<1>2. /\ call \in Calls /\ out \in Outs /\ row \in Row /\ Tail(call.todo) \in Seq(Row)
      /\ Len(Tail(call.todo)) = Len(call.todo) - 1 /\ Len(call.todo) \in Nat /\ Len(call.todo) > 0
      /\ call.budget \in Nat /\ out.kept \in Seq(Row) /\ Len(out.kept) \in Nat
      /\ out.chars \in Nat /\ out.tokens \in Nat
  BY <1>1, SelectionIs
<1>3. RenderEntry(row) \in Nat /\ Cost(row) \in Nat /\ RenderEntry(row) <= 4 * Cost(row)
  BY <1>2, CostCoversChars
<1>4. call' = b
  BY <1>1, <1>2 DEF Calls
<1> HIDE DEF row
<1>5. /\ a \in Calls /\ a.todo = Tail(call.todo) /\ a.budget = call.budget
      /\ a.phase = call.phase /\ a.exit = call.exit /\ a.rest = call.rest /\ a.after = call.after
  BY <1>2 DEF Calls
<1> HIDE DEF a
<1>6. /\ b \in Calls /\ b.todo = Tail(call.todo) /\ b.budget = call.budget - Cost(row)
      /\ b.phase = call.phase /\ b.exit = call.exit /\ b.rest = call.rest /\ b.after = call.after
  <2>1. call.budget - Cost(row) \in Nat
    BY <1>1, <1>2, <1>3
  <2> QED
    BY <2>1, <1>5 DEF Calls
<1> HIDE DEF b
<1>7. Append(out.kept, row) \in Seq(Row) /\ Len(Append(out.kept, row)) = Len(out.kept) + 1
  BY <1>2
<1>8. /\ o \in Outs /\ Len(o.kept) = Len(out.kept) + 1
      /\ o.chars = out.chars + RenderEntry(row) /\ o.tokens = out.tokens + Cost(row)
  BY <1>2, <1>3, <1>7 DEF Outs
<1> HIDE DEF o
<1>9. Len(out'.kept) + Len(call'.todo) = Len(out.kept) + Len(call.todo)
  <2> DEFINE u == Len(out.kept)
             w == Len(call.todo)
             x == Len(out'.kept)
             y == Len(call'.todo)
  <2>1. out'.kept = o.kept /\ call'.todo = Tail(call.todo)
    BY <1>1, <1>4, <1>6
  <2>2. x = u + 1 /\ y = w - 1 /\ u \in Nat /\ w \in Nat
    BY <2>1, <1>2, <1>8
  <2> HIDE DEF u, w, x, y
  <2>3. x + y = u + w
    BY <2>2
  <2> QED
    BY <2>3 DEF u, w, x, y
<1>10. out'.chars = out.chars + RenderEntry(row) /\ out'.tokens = out.tokens + Cost(row)
       /\ call'.budget = call.budget - Cost(row)
  BY <1>1, <1>4, <1>6, <1>8
<1>11. out.chars <= 4 * out.tokens => out'.chars <= 4 * out'.tokens
  BY <1>2, <1>3, <1>10
<1>12. out'.tokens + call'.budget = out.tokens + call.budget
  BY <1>2, <1>3, <1>10
<1>13. call'.phase = call.phase /\ call'.exit = call.exit /\ call'.rest = call.rest
       /\ call'.after = call.after
  BY <1>4, <1>6
<1>14. Paid'
  <2> SUFFICES ASSUME call.exit = "inject" PROVE Paid'
    BY <1>13 DEF Paid
  <2>1. ASSUME call.phase = "select"
        PROVE  call.rest = <<>> /\ Len(call.after) <= INJECT_TOP_N
               /\ Len(out'.kept) + Len(call'.todo) <= INJECT_TOP_N
    BY <2>1, <1>9 DEF IInv, Paid
  <2>2. ASSUME call.phase \in {"render", "done"}
        PROVE  /\ Len(out'.kept) + Len(call'.todo) <= 2 * INJECT_TOP_N
               /\ out'.chars <= 4 * out'.tokens
               /\ out'.tokens + call'.budget <= INJECT_BODY_BUDGET_TOKENS
    BY <2>2, <1>9, <1>11, <1>12 DEF IInv, Paid
  <2> QED
    BY <2>1, <2>2, <1>13 DEF Paid
<1>15. TypeOK'
  BY <1>1, <1>4, <1>6, <1>8 DEF IInv, TypeOK, Calls, Outs
<1> QED
  BY <1>1, <1>13, <1>14, <1>15 DEF IInv, Narrowed, Cutting

LEMMA SkipKeeps ==
  ASSUME IInv, Skip
  PROVE  IInv'
<1> DEFINE a == [call EXCEPT !.todo = Tail(@)]
<1>1. /\ call.phase \in {"select", "render"} /\ call.todo # <<>> /\ call' = a
      /\ UNCHANGED <<derived, out, cut>>
  BY DEF Skip, Selecting, At
<1>2. /\ call \in Calls /\ Tail(call.todo) \in Seq(Row) /\ Len(out.kept) \in Nat
      /\ Len(Tail(call.todo)) = Len(call.todo) - 1 /\ Len(call.todo) \in Nat /\ Len(call.todo) > 0
  BY <1>1, SelectionIs
<1>3. /\ a \in Calls /\ a.todo = Tail(call.todo) /\ a.budget = call.budget
      /\ a.phase = call.phase /\ a.exit = call.exit /\ a.rest = call.rest /\ a.after = call.after
  BY <1>2 DEF Calls
<1> HIDE DEF a
<1>4. Len(out.kept) + Len(call'.todo) <= Len(out.kept) + Len(call.todo)
      /\ Len(out.kept) + Len(call.todo) \in Nat /\ Len(out.kept) + Len(call'.todo) \in Nat
  <2>1. call'.todo = Tail(call.todo)
    BY <1>1, <1>3
  <2> DEFINE u == Len(out.kept)
             w == Len(call.todo)
             y == Len(call'.todo)
  <2>2. y = w - 1 /\ u \in Nat /\ w \in Nat /\ w > 0
    BY <2>1, <1>2
  <2> HIDE DEF u, w, y
  <2>3. u + y <= u + w /\ u + w \in Nat /\ u + y \in Nat
    BY <2>2
  <2> QED
    BY <2>3 DEF u, w, y
<1>5. Paid'
  <2> DEFINE x == Len(out.kept) + Len(call'.todo)
             y == Len(out.kept) + Len(call.todo)
  <2>1. x \in Nat /\ y \in Nat /\ x <= y
    BY <1>4
  <2> HIDE DEF x, y
  <2>2. \A n \in Nat : y <= n => x <= n
    BY <2>1
  <2>3. INJECT_TOP_N \in Nat /\ 2 * INJECT_TOP_N \in Nat
    BY NatConstants
  <2> QED
    BY <2>2, <2>3, <1>1, <1>3 DEF IInv, Paid, x, y
<1>6. TypeOK'
  BY <1>1, <1>3 DEF IInv, TypeOK, Calls
<1> QED
  BY <1>1, <1>3, <1>5, <1>6 DEF IInv, Narrowed, Cutting

LEMMA NextSectionKeeps ==
  ASSUME IInv, NextSection
  PROVE  IInv'
<1> DEFINE s == Head(call.rest)
           a == [call EXCEPT !.todo = s.rows]
           b == [a EXCEPT !.budget = s.budget]
           c == [b EXCEPT !.rest = Tail(@)]
<1>1. /\ call.phase = "select" /\ call.rest # <<>> /\ UNCHANGED <<derived, out, cut>>
      /\ call' = [call EXCEPT !.todo = Head(call.rest).rows,
                    !.budget = Head(call.rest).budget, !.rest = Tail(@)]
  BY DEF NextSection, At
<1>2. call \in Calls /\ call.rest \in Seq(Section)
  BY Types DEF IInv, Calls
<1>3. s \in Section /\ Tail(call.rest) \in Seq(Section)
  BY <1>1, <1>2, HeadTailProperties
<1>4. s.rows \in Seq(Row) /\ s.budget \in Nat
  BY <1>3 DEF Section
<1>5. call' = c
  BY <1>1, <1>2 DEF Calls
<1> HIDE DEF s
<1>6. a \in Calls /\ a.phase = "select" /\ a.exit = call.exit /\ a.rest = call.rest
  BY <1>1, <1>2, <1>4 DEF Calls
<1> HIDE DEF a
<1>7. b \in Calls /\ b.phase = "select" /\ b.exit = call.exit /\ b.rest = call.rest
  BY <1>4, <1>6 DEF Calls
<1> HIDE DEF b
<1>8. c \in Calls /\ c.phase = "select" /\ c.exit = call.exit
  BY <1>3, <1>7 DEF Calls
<1> HIDE DEF c
<1>9. call.exit # "inject"
  BY <1>1 DEF IInv, Paid
<1>10. TypeOK'
  BY <1>1, <1>5, <1>8 DEF IInv, TypeOK, Calls
<1> QED
  BY <1>1, <1>5, <1>8, <1>9, <1>10 DEF IInv, Narrowed, Cutting, Paid

LEMMA StartRenderKeeps ==
  ASSUME IInv, StartRender
  PROVE  IInv'
<1> DEFINE rows == out.kept \o call.after
           a == [call EXCEPT !.phase = "render"]
           b == [a EXCEPT !.todo = rows]
           c == [b EXCEPT !.offered = rows]
           d == [c EXCEPT !.budget = RenderBudget(call.exit)]
<1>1. /\ out' = Nothing /\ UNCHANGED <<derived, cut>>
      /\ call' = [call EXCEPT !.phase = "render", !.todo = rows, !.offered = rows,
                    !.budget = RenderBudget(call.exit)]
  BY DEF StartRender
<1>2. call \in Calls /\ call.after \in Seq(Row) /\ out.kept \in Seq(Row) /\ call.todo \in Seq(Row)
  BY Types DEF IInv, Calls, Outs
<1>3. /\ rows \in Seq(Row) /\ Len(rows) = Len(out.kept) + Len(call.after)
      /\ Len(out.kept) \in Nat /\ Len(call.after) \in Nat
  BY <1>2, ConcatIs
<1>4. RenderBudget(call.exit) \in Nat
      /\ (call.exit = "inject" => RenderBudget(call.exit) = INJECT_BODY_BUDGET_TOKENS)
  BY NatConstants DEF RenderBudget, RecallPacketBudget
<1>5. call' = d
  BY <1>1, <1>2 DEF Calls
<1>6. call.exit = "inject" => Len(rows) <= 2 * INJECT_TOP_N
  <2> SUFFICES ASSUME call.exit = "inject" PROVE Len(rows) <= 2 * INJECT_TOP_N
    OBVIOUS
  <2>1. call.phase = "select" /\ call.todo = <<>>
    BY DEF StartRender, At
  <2>2. Len(out.kept) + Len(call.todo) <= INJECT_TOP_N /\ Len(call.after) <= INJECT_TOP_N
    BY <2>1 DEF IInv, Paid
  <2>3. Len(call.todo) = 0
    BY <2>1
  <2> DEFINE u == Len(out.kept)
             w == Len(call.after)
  <2>4. u \in Nat /\ w \in Nat /\ u <= INJECT_TOP_N /\ w <= INJECT_TOP_N /\ Len(rows) = u + w
    BY <2>2, <2>3, <1>3, NatConstants
  <2> HIDE DEF u, w
  <2> QED
    BY <2>4, NatConstants
<1> HIDE DEF rows
<1>6a. rows \in Seq(Row)
  BY <1>3
<1>6b. Len(rows) \in Nat
  BY <1>6a
<1>7. a \in Calls /\ a.phase = "render" /\ a.exit = call.exit
  BY <1>2 DEF Calls
<1> HIDE DEF a
<1>8. b \in Calls /\ b.phase = "render" /\ b.exit = call.exit /\ b.todo = rows
  BY <1>3, <1>7 DEF Calls
<1> HIDE DEF b
<1>9. c \in Calls /\ c.phase = "render" /\ c.exit = call.exit /\ c.todo = rows
  BY <1>3, <1>8 DEF Calls
<1> HIDE DEF c
<1>10. d \in Calls /\ d.phase = "render" /\ d.exit = call.exit /\ d.todo = rows
       /\ d.budget = RenderBudget(call.exit)
  BY <1>4, <1>9 DEF Calls
<1> HIDE DEF d
<1>11. Nothing.chars = 0 /\ Nothing.tokens = 0 /\ Len(Nothing.kept) = 0
  BY DEF Nothing
<1>12. Paid'
  <2> SUFFICES ASSUME call'.exit = "inject" PROVE Paid'
    BY DEF Paid
  <2>1. call.exit = "inject" /\ call'.phase = "render" /\ call'.todo = rows
        /\ call'.budget = INJECT_BODY_BUDGET_TOKENS
    BY <1>4, <1>5, <1>10
  <2>2. out'.chars = 0 /\ out'.tokens = 0 /\ Len(out'.kept) = 0
    BY <1>1, <1>11
  <2>3. Len(rows) \in Nat
    BY <1>6b
  <2>5. Len(rows) <= 2 * INJECT_TOP_N
    BY <2>1, <1>6
  <2>4. /\ Len(out'.kept) + Len(call'.todo) <= 2 * INJECT_TOP_N
        /\ out'.chars <= 4 * out'.tokens
        /\ out'.tokens + call'.budget <= INJECT_BODY_BUDGET_TOKENS
    <3> DEFINE n == Len(rows)
               u == Len(out'.kept)
               w == Len(call'.todo)
    <3>1. u = 0
      BY <2>2
    <3>2. w = n
      BY <2>1
    <3>3. n \in Nat /\ n <= 2 * INJECT_TOP_N
      BY <2>3, <2>5
    <3> HIDE DEF n, u, w
    <3>4. u + w <= 2 * INJECT_TOP_N
      BY <3>1, <3>2, <3>3, NatConstants
    <3>5. out'.tokens + call'.budget <= INJECT_BODY_BUDGET_TOKENS /\ out'.chars <= 4 * out'.tokens
      BY <2>1, <2>2, NatConstants
    <3> QED
      BY <3>4, <3>5 DEF u, w
  <2> QED
    BY <2>1, <2>4 DEF Paid
<1>13. TypeOK'
  BY <1>1, <1>5, <1>10, EmptyIs DEF IInv, TypeOK, Calls, Outs
<1> QED
  BY <1>1, <1>5, <1>10, <1>12, <1>13 DEF IInv, Narrowed, Cutting

LEMMA RenderedKeeps ==
  ASSUME IInv, Rendered
  PROVE  IInv'
<1> DEFINE a == [call EXCEPT !.phase = "done"]
<1>1. call.phase = "render" /\ call' = a /\ UNCHANGED <<derived, out, cut>>
  BY DEF Rendered, At
<1>2. call \in Calls
  BY Types DEF IInv
<1>3. a \in Calls /\ a.phase = "done" /\ a.exit = call.exit /\ a.todo = call.todo
      /\ a.budget = call.budget
  BY <1>2 DEF Calls
<1> HIDE DEF a
<1>4. Paid'
  BY <1>1, <1>3 DEF IInv, Paid
<1>5. TypeOK'
  BY <1>1, <1>3 DEF IInv, TypeOK, Calls
<1> QED
  BY <1>1, <1>3, <1>4, <1>5 DEF IInv, Narrowed, Cutting

LEMMA DeliverKeeps ==
  ASSUME IInv, Deliver
  PROVE  IInv'
BY Types, IdleHolds DEF Deliver, IInv

LEMMA NextKeeps == IInv /\ [Next]_vars => IInv'
<1> SUFFICES ASSUME IInv, [Next]_vars PROVE IInv'
  OBVIOUS
<1>1. ASSUME UNCHANGED vars PROVE IInv'
  BY <1>1 DEF vars, IInv, TypeOK, Narrowed, Cutting, Paid, Whole, Fits
<1>2. ASSUME NEW side \in Sides, RawWrite(side) \/ Rebuild(side) PROVE IInv'
  BY <1>2, RawWriteKeeps, RebuildKeeps
<1>3. ASSUME AskSource \/ Inject \/ Recall PROVE IInv'
  BY <1>3, AskSourceKeeps, InjectKeeps, RecallKeeps
<1>4. ASSUME Uncut \/ StartSearch \/ Search \/ EndSearch \/ StoreLayer PROVE IInv'
  BY <1>4, UncutKeeps, StartSearchKeeps, SearchKeeps, EndSearchKeeps, StoreLayerKeeps
<1>5. ASSUME Keep \/ Skip \/ NextSection \/ StartRender \/ Rendered \/ Deliver PROVE IInv'
  BY <1>5, KeepKeeps, SkipKeeps, NextSectionKeeps, StartRenderKeeps, RenderedKeeps, DeliverKeeps
<1> QED
  BY <1>1, <1>2, <1>3, <1>4, <1>5 DEF Next

(* What has been kept is paid for, and a search narrows around the answer.  *)
THEOREM Invariance == Spec => []IInv
<1> QED
  BY InitHolds, NextKeeps, PTL DEF Spec

(* The layers, the call, the rows and the cut keep their types.             *)
THEOREM TypeCorrect == Spec => []TypeOK
<1>1. IInv => TypeOK
  BY DEF IInv
<1> QED
  BY <1>1, Invariance, PTL

(* No packet outgrows its container, whatever the constants, once they pass  *)
(* the guards that run when the plugin loads.                              *)
THEOREM ContainerHolds == Spec => []InjectFits
<1>1. ASSUME IInv, call.phase = "done", call.exit = "inject"
      PROVE  EstimateTokens(PacketChars(Len(out.kept), out.chars)) <= INJECT_PACKET_BUDGET_TOKENS
  <2>1. /\ Len(out.kept) + Len(call.todo) <= 2 * INJECT_TOP_N /\ out.chars <= 4 * out.tokens
        /\ out.tokens + call.budget <= INJECT_BODY_BUDGET_TOKENS
    BY <1>1 DEF IInv, Paid
  <2>2. Len(out.kept) \in Nat /\ Len(call.todo) \in Nat /\ out.chars \in Nat /\ out.tokens \in Nat
        /\ call.budget \in Nat
    BY <1>1, SelectionIs
  <2>3. Len(out.kept) <= 2 * INJECT_TOP_N /\ out.chars <= 4 * INJECT_BODY_BUDGET_TOKENS
    <3> DEFINE u == Len(out.kept)
               w == Len(call.todo)
               chars == out.chars
               tokens == out.tokens
               budget == call.budget
    <3>1. /\ u \in Nat /\ w \in Nat /\ chars \in Nat /\ tokens \in Nat /\ budget \in Nat
          /\ u + w <= 2 * INJECT_TOP_N /\ chars <= 4 * tokens
          /\ tokens + budget <= INJECT_BODY_BUDGET_TOKENS
      BY <2>1, <2>2
    <3> HIDE DEF u, w, chars, tokens, budget
    <3>2. u <= 2 * INJECT_TOP_N /\ chars <= 4 * INJECT_BODY_BUDGET_TOKENS
      BY <3>1, NatConstants
    <3> QED
      BY <3>2 DEF u, chars
  <2> QED
    BY <2>2, <2>3, GuardPricesEveryPacket
<1>2. IInv => InjectFits
  BY <1>1 DEF InjectFits, At
<1> QED
  BY <1>2, Invariance, PTL

(* The halving finds the largest prefix that fits, for every body whose      *)
(* rendered length grows with its code points.                             *)
THEOREM LargestCut == Spec => []CutIsLargest
<1>1. ASSUME IInv, call.phase = "search", cut.low = cut.high, NEW k \in 0..Len(Whole), Fits(k)
      PROVE  k <= cut.low /\ Fits(cut.low)
  <2>1. cut.bodies # <<>> /\ k <= cut.high /\ (cut.low = 0 \/ Fits(cut.low))
    BY <1>1 DEF IInv, Narrowed
  <2>2. cut.low = 0 => k = 0
    <3>1. Len(Whole) \in Nat
      BY <1>1, <2>1, WholeIs
    <3> QED
      BY <3>1, <1>1, <2>1
  <2> QED
    BY <2>1, <2>2, <1>1
<1>2. IInv => CutIsLargest
  BY <1>1 DEF CutIsLargest, At
<1> QED
  BY <1>2, Invariance, PTL

(***************************************************************************)
(* What the rows of a sequence cost together.                              *)
(***************************************************************************)

(* The rows can be paid for one after another: an account of what has been   *)
(* spent, that starts at nothing and ends within the budget.               *)
Accounts(rows) == [0..Len(rows) -> Int]
Balances(p, rows, budget) ==
  p[0] = 0 /\ \A i \in 1..Len(rows) : p[i - 1] + Cost(rows[i]) <= p[i] /\ p[i] <= budget
Affordable(rows, budget) == \E p \in Accounts(rows) : Balances(p, rows, budget)

EachWithin(rows, limit) == \A i \in DOMAIN rows : Cost(rows[i]) <= limit

LEMMA NothingIsFree ==
  ASSUME NEW budget \in Nat
  PROVE  Affordable(<<>>, budget)
<1> DEFINE p == [i \in 0..0 |-> 0]
<1>1. p \in Accounts(<<>>) /\ Balances(p, <<>>, budget)
  BY DEF Accounts, Balances
<1> QED
  BY <1>1 DEF Affordable

LEMMA BiggerBudget ==
  ASSUME NEW rows \in Seq(Row), NEW a \in Nat, NEW b \in Nat, a <= b, Affordable(rows, a)
  PROVE  Affordable(rows, b)
<1> PICK p \in Accounts(rows) : Balances(p, rows, a)
  BY DEF Affordable
<1>1. \A i \in 1..Len(rows) : p[i] \in Int
  BY DEF Accounts
<1>2. Balances(p, rows, b)
  BY <1>1 DEF Balances
<1> QED
  BY <1>2 DEF Affordable

LEMMA OneMore ==
  ASSUME NEW rows \in Seq(Row), NEW row \in Row, NEW budget \in Nat, Affordable(rows, budget)
  PROVE  Affordable(Append(rows, row), budget + Cost(row))
<1> DEFINE n == Len(rows)
           c == Cost(row)
<1> PICK p \in Accounts(rows) : Balances(p, rows, budget)
  BY DEF Affordable
<1> DEFINE q == [i \in 0..n + 1 |-> IF i <= n THEN p[i] ELSE budget + c]
<1>1. n \in Nat /\ c \in Nat /\ Len(Append(rows, row)) = n + 1
      /\ \A i \in 1..n : Append(rows, row)[i] = rows[i]
      /\ Append(rows, row)[n + 1] = row
  BY CostCoversChars
<1>2. \A i \in 1..n : rows[i] \in Row /\ Cost(rows[i]) \in Nat
  BY CostCoversChars
<1>3. /\ p[0] = 0 /\ \A i \in 0..n : p[i] \in Int
      /\ \A i \in 1..n : p[i - 1] + Cost(rows[i]) <= p[i] /\ p[i] <= budget
  BY DEF Accounts, Balances
<1> HIDE DEF n, c
<1>4. q \in [0..n + 1 -> Int] /\ q[0] = 0
  BY <1>1, <1>3
<1>5. p[n] <= budget
  BY <1>1, <1>3
<1>6. ASSUME NEW i \in 1..n + 1
      PROVE  q[i - 1] + Cost(Append(rows, row)[i]) <= q[i] /\ q[i] <= budget + c
  <2>1. CASE i = n + 1
    <3>1. q[i - 1] = p[n] /\ q[i] = budget + c
      BY <2>1, <1>1
    <3>2. Cost(Append(rows, row)[i]) = c
      BY <2>1, <1>1 DEF c
    <3> QED
      BY <3>1, <3>2, <1>1, <1>3, <1>5
  <2>2. CASE i # n + 1
    <3>1. i \in 1..n /\ i - 1 \in 0..n
      BY <2>2, <1>1
    <3>2. q[i - 1] = p[i - 1] /\ q[i] = p[i]
      BY <3>1, <1>1
    <3>3. Cost(Append(rows, row)[i]) = Cost(rows[i])
      BY <3>1, <1>1
    <3> HIDE DEF q
    <3> QED
      BY <3>1, <3>2, <3>3, <1>1, <1>2, <1>3
  <2> QED
    BY <2>1, <2>2
<1> HIDE DEF q
<1>7. q \in Accounts(Append(rows, row)) /\ Balances(q, Append(rows, row), budget + c)
  BY <1>1, <1>4, <1>6 DEF Accounts, Balances
<1> QED
  BY <1>7 DEF Affordable, c

(* One fee less on both sides of an account. *)
LEMMA Shifted ==
  ASSUME NEW a \in Int, NEW b \in Int, NEW d \in Int, NEW k \in Nat, NEW fee \in Nat,
         NEW total \in Nat, a + k <= b, b <= total, fee <= d
  PROVE  (a - d) + k <= b - d /\ b - d <= total - fee
  OBVIOUS

LEMMA OneLess ==
  ASSUME NEW rows \in Seq(Row), rows # <<>>, NEW budget \in Nat, Affordable(rows, budget)
  PROVE  /\ Cost(Head(rows)) <= budget
         /\ Affordable(Tail(rows), budget - Cost(Head(rows)))
<1> DEFINE n == Len(rows)
           c == Cost(Head(rows))
<1> PICK p \in Accounts(rows) : Balances(p, rows, budget)
  BY DEF Affordable
<1> DEFINE q == [i \in 0..n - 1 |-> p[i + 1] - p[1]]
<1>1. /\ n \in Nat /\ n > 0 /\ Len(Tail(rows)) = n - 1 /\ Head(rows) = rows[1]
      /\ \A i \in 1..n - 1 : Tail(rows)[i] = rows[i + 1]
  BY HeadTailProperties, EmptySeq
<1>2. c \in Nat /\ \A i \in 1..n : Cost(rows[i]) \in Nat
  BY <1>1, CostCoversChars
<1>3. /\ p[0] = 0 /\ \A i \in 0..n : p[i] \in Int
      /\ \A i \in 1..n : p[i - 1] + Cost(rows[i]) <= p[i] /\ p[i] <= budget
  BY DEF Accounts, Balances
<1>4. c = Cost(rows[1])
  BY <1>1
<1> HIDE DEF n, c
<1>5. c <= p[1] /\ p[1] <= budget /\ p[1] \in Int
  <2>1. 1 \in 1..n /\ 1 \in 0..n
    BY <1>1
  <2>2. p[1 - 1] + Cost(rows[1]) <= p[1] /\ p[1] <= budget /\ p[1] \in Int
    BY <2>1, <1>3
  <2>3. 1 - 1 = 0
    OBVIOUS
  <2> QED
    BY <2>2, <2>3, <1>2, <1>3, <1>4
<1>6. q \in [0..n - 1 -> Int] /\ q[0] = 0
  <2>1. \A i \in 0..n - 1 : i + 1 \in 0..n
    BY <1>1
  <2>2. 0 \in 0..n - 1
    BY <1>1
  <2> QED
    BY <2>1, <2>2, <1>3, <1>5
<1>7. ASSUME NEW i \in 1..n - 1
      PROVE  q[i - 1] + Cost(Tail(rows)[i]) <= q[i] /\ q[i] <= budget - c
  <2>1. i + 1 \in 1..n /\ i \in 0..n /\ i - 1 \in 0..n - 1 /\ i \in 0..n - 1
        /\ (i - 1) + 1 = i /\ (i + 1) - 1 = i
    BY <1>1
  <2>2. q[i - 1] = p[i] - p[1] /\ q[i] = p[i + 1] - p[1]
    BY <2>1
  <2>3. p[i] + Cost(rows[i + 1]) <= p[i + 1] /\ p[i + 1] <= budget /\ Cost(rows[i + 1]) \in Nat
        /\ p[i] \in Int /\ p[i + 1] \in Int
    <3>1. p[(i + 1) - 1] + Cost(rows[i + 1]) <= p[i + 1] /\ p[i + 1] <= budget
      BY <2>1, <1>3
    <3> QED
      BY <3>1, <2>1, <1>2, <1>3
  <2>4. Cost(Tail(rows)[i]) = Cost(rows[i + 1])
    BY <1>1
  <2> HIDE DEF q
  <2> DEFINE d == p[1]
  <2>5. (p[i] - p[1]) + Cost(rows[i + 1]) <= p[i + 1] - p[1] /\ p[i + 1] - p[1] <= budget - c
    <3>1. d \in Int /\ c \in Nat /\ c <= d
      BY <1>2, <1>5
    <3>2. (p[i] - d) + Cost(rows[i + 1]) <= p[i + 1] - d /\ p[i + 1] - d <= budget - c
      BY <2>3, <3>1, Shifted
    <3> QED
      BY <3>2
  <2> QED
    BY <2>2, <2>4, <2>5
<1> HIDE DEF q
<1>8. q \in Accounts(Tail(rows)) /\ Balances(q, Tail(rows), budget - c)
  BY <1>1, <1>6, <1>7 DEF Accounts, Balances
<1> QED
  BY <1>2, <1>5, <1>8 DEF Affordable, c

LEMMA AllOfTwo ==
  ASSUME NEW f \in Seq(Row), NEW g \in Seq(Row), NEW a \in Nat, NEW b \in Nat,
         Affordable(f, a), Affordable(g, b)
  PROVE  Affordable(f \o g, a + b)
<1> DEFINE n == Len(f)
           m == Len(g)
           h == f \o g
<1> PICK p \in Accounts(f) : Balances(p, f, a)
  BY DEF Affordable
<1> PICK r \in Accounts(g) : Balances(r, g, b)
  BY DEF Affordable
<1> DEFINE q == [i \in 0..n + m |-> IF i <= n THEN p[i] ELSE a + r[i - n]]
<1>1. n \in Nat /\ m \in Nat /\ Len(h) = n + m
      /\ (\A i \in 1..n : h[i] = f[i]) /\ (\A i \in n + 1..n + m : h[i] = g[i - n])
  BY ConcatProperties
<1>2. /\ \A i \in 1..n : Cost(f[i]) \in Nat
      /\ \A i \in 1..m : Cost(g[i]) \in Nat
  <2>1. (\A i \in 1..n : f[i] \in Row) /\ (\A i \in 1..m : g[i] \in Row)
    BY ElementOfSeq
  <2> QED
    BY <2>1, CostCoversChars
<1>3. /\ p[0] = 0 /\ \A i \in 0..n : p[i] \in Int
      /\ \A i \in 1..n : p[i - 1] + Cost(f[i]) <= p[i] /\ p[i] <= a
  BY DEF Accounts, Balances
<1>4. /\ r[0] = 0 /\ \A i \in 0..m : r[i] \in Int
      /\ \A i \in 1..m : r[i - 1] + Cost(g[i]) <= r[i] /\ r[i] <= b
  BY DEF Accounts, Balances
<1> HIDE DEF n, m, h
<1>5. p[n] <= a /\ p[n] \in Int
  BY <1>1, <1>3
<1>6. q \in [0..n + m -> Int] /\ q[0] = 0
  <2>1. \A i \in 0..n + m : i <= n => i \in 0..n
    BY <1>1
  <2>2. \A i \in 0..n + m : ~(i <= n) => i - n \in 0..m
    BY <1>1
  <2>3. \A i \in 0..n + m : (IF i <= n THEN p[i] ELSE a + r[i - n]) \in Int
    BY <2>1, <2>2, <1>3, <1>4
  <2>4. 0 \in 0..n + m /\ 0 <= n
    BY <1>1
  <2> QED
    BY <2>3, <2>4, <1>3
<1>7. ASSUME NEW i \in 1..n + m
      PROVE  q[i - 1] + Cost(h[i]) <= q[i] /\ q[i] <= a + b
  <2>1. CASE i <= n
    <3>1. i \in 1..n /\ i - 1 \in 0..n + m /\ i \in 0..n + m /\ i - 1 <= n
      BY <2>1, <1>1
    <3>2. q[i - 1] = p[i - 1] /\ q[i] = p[i] /\ h[i] = f[i]
      BY <3>1, <2>1, <1>1
    <3>3. p[i - 1] + Cost(f[i]) <= p[i] /\ p[i] <= a /\ p[i] \in Int
      BY <3>1, <1>3, <1>1
    <3> HIDE DEF q
    <3> QED
      BY <3>2, <3>3
  <2>2. CASE i = n + 1
    <3>1. i - 1 = n /\ i - n = 1 /\ 1 \in 1..m /\ i \in n + 1..n + m /\ i \in 0..n + m /\ n \in 0..n + m
          /\ ~(i <= n)
      BY <2>2, <1>1
    <3>2. q[i - 1] = p[n] /\ q[i] = a + r[1] /\ h[i] = g[1]
      BY <3>1, <1>1
    <3>3. Cost(g[1]) <= r[1] /\ r[1] <= b /\ r[1] \in Int /\ Cost(g[1]) \in Nat
      <4>1. r[1 - 1] + Cost(g[1]) <= r[1] /\ r[1] <= b /\ r[1] \in Int /\ Cost(g[1]) \in Nat
        BY <3>1, <1>2, <1>4, <1>1
      <4>2. 1 - 1 = 0
        OBVIOUS
      <4> QED
        BY <4>1, <4>2, <1>4
    <3> HIDE DEF q
    <3> QED
      BY <3>2, <3>3, <1>5
  <2>3. CASE i > n + 1
    <3>1. /\ i - n \in 1..m /\ (i - 1) - n = (i - n) - 1 /\ i \in n + 1..n + m /\ i \in 0..n + m
          /\ i - 1 \in 0..n + m /\ ~(i <= n) /\ ~(i - 1 <= n) /\ (i - n) - 1 \in 0..m /\ i - n \in 0..m
      BY <2>3, <1>1
    <3> DEFINE j == i - n
    <3>2. q[i - 1] = a + r[j - 1] /\ q[i] = a + r[j] /\ h[i] = g[j]
      BY <3>1, <1>1
    <3>3. r[j - 1] + Cost(g[j]) <= r[j] /\ r[j] <= b /\ r[j] \in Int /\ r[j - 1] \in Int
          /\ Cost(g[j]) \in Nat
      BY <3>1, <1>2, <1>4
    <3> HIDE DEF q, j
    <3> QED
      BY <3>2, <3>3
  <2> QED
    BY <2>1, <2>2, <2>3, <1>1
<1> HIDE DEF q
<1>8. q \in Accounts(h) /\ Balances(q, h, a + b)
  BY <1>1, <1>6, <1>7 DEF Accounts, Balances
<1> QED
  BY <1>8 DEF Affordable, h

LEMMA SoManyOfThese ==
  ASSUME NEW rows \in Seq(Row), NEW n \in Nat, Len(rows) <= n, NEW c \in Nat, EachWithin(rows, c)
  PROVE  Affordable(rows, n * c)
<1> DEFINE q == [i \in 0..Len(rows) |-> i * c]
<1>1. Len(rows) \in Nat /\ \A i \in 1..Len(rows) : Cost(rows[i]) \in Nat /\ Cost(rows[i]) <= c
  BY CostCoversChars DEF EachWithin
<1>2. q \in [0..Len(rows) -> Int]
  <2>1. \A i \in 0..Len(rows) : i * c \in Int
    BY <1>1
  <2> QED
    BY <2>1
<1>3. q[0] = 0
  BY <1>1
<1>4. ASSUME NEW i \in 1..Len(rows)
      PROVE  q[i - 1] + Cost(rows[i]) <= q[i] /\ q[i] <= n * c
  <2>1. q[i - 1] = (i - 1) * c /\ q[i] = i * c
    BY <1>1
  <2>2. (i - 1) * c + c = i * c /\ (i - 1) * c \in Int /\ i * c \in Int
    BY <1>1
  <2>3. i * c <= n * c /\ n * c \in Int
    <3>1. n - i \in Nat
      BY <1>1
    <3>2. (n - i) * c \in Nat
      BY <3>1
    <3>3. (n - i) * c = n * c - i * c
      BY <1>1
    <3>4. n * c \in Int
      OBVIOUS
    <3> QED
      BY <3>2, <3>3, <3>4, <2>2
  <2> HIDE DEF q
  <2>4. Cost(rows[i]) \in Nat /\ Cost(rows[i]) <= c
    BY <1>1
  <2> QED
    BY <2>1, <2>2, <2>3, <2>4
<1> HIDE DEF q
<1>5. q \in Accounts(rows) /\ Balances(q, rows, n * c)
  BY <1>2, <1>3, <1>4 DEF Accounts, Balances
<1> QED
  BY <1>5 DEF Affordable

(***************************************************************************)
(* What reaches the model: the second inductive invariant, on top of IInv. *)
(***************************************************************************)

(* Whatever the next rows cost, this one is delivered.                      *)
FirstOf(row) ==
  \/ out.kept # <<>> /\ out.kept[1] = row
  \/ out.kept = <<>> /\ call.todo # <<>> /\ Head(call.todo) = row /\ Cost(row) <= call.budget

Payable(m) ==
  \E i \in DOMAIN call.found[m] : Cost(call.found[m][i]) <= RECALL_FOREIGN_BUDGET_TOKENS
HeardIn(m, rows) == \E j \in DOMAIN rows : rows[j].from = m
\* How many members have been asked, the one under selection included.
Reached == Len(call.found) - Len(call.rest)
Exit(e) == call.exit = e /\ call.phase \in {"select", "render", "done"}
Rendering == call.phase \in {"render", "done"}

(* A stored row is no dearer than what a rebuild may store for its side.    *)
LayersWithin == \A side \in Sides : EachWithin(derived[side], Ceiling(side))

(* What a cut has made is within its limit, and something is made of a source. *)
CutWithin ==
  call.phase \in {"price", "search"} =>
    /\ EachWithin(out.kept, cut.limit)
    /\ call.exit = "rebuild" => cut.limit = Ceiling(call.side)
    /\ call.exit = "source" => /\ cut.limit = RecallPacketBudget
                               /\ out.kept # <<>> \/ cut.bodies # <<>>

(* The portrait is ahead of everything an injection spends on.              *)
PortraitFirst == Exit("inject") /\ derived["personal"] # <<>> => FirstOf(derived["personal"][1])

(* The rows chosen so far have been paid for out of what was to be spent.   *)
Choosing ==
  call.phase = "select" =>
    /\ call.exit \in {"inject", "recall"}
    /\ Affordable(out.kept, out.tokens)
    /\ call.exit = "inject" => /\ out.tokens + call.budget <= PERSONA_MAX_TOKENS
                               /\ derived["repo"] # <<>> => call.after = derived["repo"]

(* The sections to come are those of the members not yet asked, and an asked *)
(* member with a payable row has a row among the chosen, or is the one under *)
(* selection and can still pay for a row to come.                          *)
Visiting ==
  /\ Len(call.rest) <= Len(call.found)
  /\ out.tokens + call.budget
       <= RECALL_RESULT_BUDGET_TOKENS + Reached * RECALL_FOREIGN_BUDGET_TOKENS
  /\ \A r \in DOMAIN call.rest :
       call.rest[r] = [rows |-> call.found[Reached + r], budget |-> RECALL_FOREIGN_BUDGET_TOKENS]
  /\ \A m \in 1..Reached : Payable(m) =>
       \/ HeardIn(m, out.kept)
       \/ /\ m = Reached /\ call.budget = RECALL_FOREIGN_BUDGET_TOKENS
          /\ \E i \in DOMAIN call.todo : Cost(call.todo[i]) <= RECALL_FOREIGN_BUDGET_TOKENS
  /\ Reached > 0 => \A i \in DOMAIN call.todo : call.todo[i].from = Reached

Asking ==
  Exit("recall") =>
    /\ call.after = <<>> /\ Len(call.found) <= GROUP_MAX_MEMBERS
    /\ \A m \in DOMAIN call.found : \A i \in DOMAIN call.found[m] : call.found[m][i].from = m
    /\ call.phase = "select" => Visiting
    /\ Rendering => \A m \in DOMAIN call.found : Payable(m) => HeardIn(m, call.offered)

EndsWith(rows, last) ==
  Len(last) <= Len(rows) /\ SubSeq(rows, Len(rows) - Len(last) + 1, Len(rows)) = last

(* The renderer can pay for all it is offered: a recall, and an injection    *)
(* of the repository's scenarios.                                          *)
NothingSkipped ==
  Rendering /\ (call.exit = "recall" \/ (call.exit = "inject" /\ derived["repo"] # <<>>)) =>
    /\ out.kept \o call.todo = call.offered
    /\ Affordable(call.todo, call.budget)
    /\ call.exit = "inject" => EndsWith(call.offered, derived["repo"])

Answered ==
  Rendering => /\ call.phase = "done" => call.todo = <<>>
               /\ call.exit = "source" =>
                    \/ out.kept # <<>>
                    \/ call.todo # <<>> /\ Cost(Head(call.todo)) <= call.budget

Delivery == /\ LayersWithin /\ CutWithin /\ PortraitFirst /\ Choosing /\ Asking
            /\ NothingSkipped /\ Answered

LEMMA AppendIs ==
  ASSUME NEW S, NEW f \in Seq(S), NEW x \in S
  PROVE  /\ Append(f, x) \in Seq(S) /\ Append(f, x) # <<>> /\ Len(Append(f, x)) = Len(f) + 1
         /\ DOMAIN f = 1..Len(f) /\ DOMAIN Append(f, x) = 1..Len(f) + 1 /\ Len(f) \in Nat
         /\ \A i \in 1..Len(f) : Append(f, x)[i] = f[i]
         /\ Append(f, x)[Len(f) + 1] = x
BY AppendProperties

LEMMA CeilingIs == /\ \A side \in Sides : Ceiling(side) \in Nat
                   /\ RecallPacketBudget \in Nat /\ "personal" \in Sides /\ "repo" \in Sides
                   /\ MostBlocks("personal") = 1 /\ MostBlocks("repo") = ROLLUP_MAX_SCENARIOS
                   /\ Ceiling("personal") = PERSONA_MAX_TOKENS
                   /\ Ceiling("repo") = SCENARIO_MAX_TOKENS
BY NatConstants DEF Ceiling, RecallPacketBudget, Sides, MostBlocks

(* Every part but LayersWithin is about a call under way.                   *)
LEMMA IdleDelivers ==
  ASSUME LayersWithin', call'.phase = "idle"
  PROVE  Delivery'
BY DEF Delivery, CutWithin, PortraitFirst, Choosing, Asking, NothingSkipped, Answered, Exit, Rendering

LEMMA CuttingDelivers ==
  ASSUME LayersWithin', CutWithin', call'.phase \in {"price", "search"}
  PROVE  Delivery'
BY DEF Delivery, CutWithin, PortraitFirst, Choosing, Asking, NothingSkipped, Answered, Exit, Rendering

LEMMA InitDelivers == Init => Delivery
<1> SUFFICES ASSUME Init PROVE Delivery
  OBVIOUS
<1>1. LayersWithin
  BY DEF Init, LayersWithin, EachWithin
<1> QED
  BY <1>1, EmptyIs DEF Init, Delivery, CutWithin, PortraitFirst, Choosing, Asking, NothingSkipped,
                       Answered, Exit, Rendering

LEMMA RawWriteDelivers ==
  ASSUME IInv, Delivery, NEW side \in Sides, RawWrite(side)
  PROVE  Delivery'
<1>1. derived' = [derived EXCEPT ![side] = <<>>] /\ call' = call /\ call.phase = "idle"
  BY DEF RawWrite, At
<1>2. derived \in [Sides -> Seq(Row)]
  BY Types DEF IInv
<1>3. EachWithin(<<>>, Ceiling(side))
  BY DEF EachWithin
<1>4. \A s \in Sides : derived'[s] = IF s = side THEN <<>> ELSE derived[s]
  BY <1>1, <1>2
<1>5. LayersWithin'
  BY <1>3, <1>4 DEF Delivery, LayersWithin
<1> QED
  BY <1>1, <1>5, IdleDelivers

LEMMA StartCuttingDelivers ==
  ASSUME IInv, Delivery, NEW exit \in {"rebuild", "source"}, NEW side \in Sides,
         NEW bodies \in Seq(Bodies), NEW limit \in Nat, StartCutting(exit, side, bodies, limit),
         exit = "rebuild" => limit = Ceiling(side),
         exit = "source" => limit = RecallPacketBudget /\ bodies # <<>>
  PROVE  Delivery'
<1> DEFINE a == [NoCall EXCEPT !.exit = exit]
           b == [a EXCEPT !.side = side]
           c == [b EXCEPT !.phase = "price"]
<1>1. /\ call' = c /\ cut' = [bodies |-> bodies, limit |-> limit, low |-> 0, high |-> 0]
      /\ UNCHANGED <<derived, out>> /\ out = Nothing
  <2>1. call' = [NoCall EXCEPT !.exit = exit, !.side = side, !.phase = "price"]
    BY DEF StartCutting
  <2>2. call' = c
    BY <2>1, EmptyIs DEF Calls, a, b, c
  <2> QED
    BY <2>2 DEF StartCutting, IInv, At
<1>2. a \in Calls /\ a.exit = exit
  BY EmptyIs DEF Calls
<1> HIDE DEF a
<1>3. b \in Calls /\ b.exit = exit /\ b.side = side
  BY <1>2 DEF Calls
<1> HIDE DEF b
<1>4. c.exit = exit /\ c.side = side /\ c.phase = "price"
  BY <1>3 DEF Calls
<1> HIDE DEF c
<1>5. EachWithin(out'.kept, cut'.limit)
  BY <1>1 DEF EachWithin, Nothing
<1>6. CutWithin'
  BY <1>1, <1>4, <1>5 DEF CutWithin, Ceiling
<1>7. LayersWithin'
  BY <1>1 DEF Delivery, LayersWithin
<1> QED
  BY <1>1, <1>4, <1>6, <1>7, CuttingDelivers

LEMMA RebuildDelivers ==
  ASSUME IInv, Delivery, NEW side \in Sides, Rebuild(side)
  PROVE  Delivery'
<1> PICK replies \in AtMost(Bodies, ROLLUP_MAX_SCENARIOS + 1) :
      StartCutting("rebuild", side, Blocks(side, replies), Ceiling(side))
  BY DEF Rebuild
<1>1. replies \in Seq(Bodies) /\ Len(replies) \in Nat
  BY NatConstants, AtMostIs
<1> DEFINE m == Min2(Len(replies), MostBlocks(side))
<1>2. m \in Nat /\ m <= Len(replies)
  BY <1>1, MostIs DEF Min2
<1> HIDE DEF m
<1>3. Blocks(side, replies) = SubSeq(replies, 1, m)
  BY DEF Blocks, m
<1>4. SubSeq(replies, 1, m) \in Seq(Bodies)
  BY <1>1, <1>2
<1> QED
  BY <1>3, <1>4, CeilingIs, StartCuttingDelivers

LEMMA AskSourceDelivers ==
  ASSUME IInv, Delivery, AskSource
  PROVE  Delivery'
<1> PICK turns \in AtMost(Bodies, 2) :
      turns # <<>> /\ StartCutting("source", "repo", turns, RecallPacketBudget)
  BY DEF AskSource
<1>1. turns \in Seq(Bodies)
  BY AtMostIs
<1> QED
  BY <1>1, CeilingIs, StartCuttingDelivers

(* A made row is one the limit pays for.                                    *)
LEMMA NextBodyDelivers ==
  ASSUME IInv, Delivery, NEW n \in Nat, NextBody, cut.bodies # <<>>,
         call.phase \in {"price", "search"}, UNCHANGED derived,
         \/ Make(n) /\ EstimateTokens(n) <= cut.limit
         \/ UNCHANGED out /\ call.exit # "source"
  PROVE  Delivery'
<1> DEFINE a == [cut EXCEPT !.bodies = Tail(@)]
           b == [a EXCEPT !.low = 0]
           c == [b EXCEPT !.high = 0]
           d == [call EXCEPT !.phase = "price"]
<1>0. cut \in Cuts /\ call \in Calls /\ out \in Outs
  BY Types DEF IInv
<1>1. cut' = c /\ call' = d
  <2>1. cut' = [cut EXCEPT !.bodies = Tail(@), !.low = 0, !.high = 0]
    BY DEF NextBody
  <2> QED
    BY <2>1, <1>0 DEF NextBody, Cuts, a, b, c
<1>2. c.limit = cut.limit
  <2>1. a.limit = cut.limit /\ a \in [bodies : {a.bodies}, limit : Nat, low : Nat, high : Nat]
    BY <1>0 DEF Cuts
  <2> HIDE DEF a
  <2>2. b.limit = cut.limit /\ b \in [bodies : {b.bodies}, limit : Nat, low : Nat, high : Nat]
    BY <2>1
  <2> HIDE DEF b
  <2> QED
    BY <2>2
<1>3. d.phase = "price" /\ d.exit = call.exit /\ d.side = call.side
  BY <1>0 DEF Calls
<1> HIDE DEF c, d
<1>4. EachWithin(out.kept, cut.limit)
      /\ (call.exit = "rebuild" => cut.limit = Ceiling(call.side))
      /\ (call.exit = "source" => cut.limit = RecallPacketBudget)
  BY DEF Delivery, CutWithin
<1>5. EachWithin(out'.kept, cut.limit) /\ (call.exit = "source" => out'.kept # <<>>)
  <2>1. CASE UNCHANGED out /\ call.exit # "source"
    BY <2>1, <1>4
  <2>2. CASE Make(n) /\ EstimateTokens(n) <= cut.limit
    <3> DEFINE row == [len |-> n, from |-> 0]
    <3>1. row \in Row /\ Cost(row) = EstimateTokens(n)
      BY NatConstants DEF Row, Cost, RenderEntry
    <3>2. out' = [out EXCEPT !.kept = Append(out.kept, row)]
      BY <2>2 DEF Make
    <3> HIDE DEF row
    <3>3. out'.kept = Append(out.kept, row) /\ out.kept \in Seq(Row)
      BY <3>2, <1>0 DEF Outs
    <3>4. /\ \A i \in DOMAIN Append(out.kept, row) :
               Append(out.kept, row)[i] = row \/ (i \in DOMAIN out.kept /\ Append(out.kept, row)[i] = out.kept[i])
          /\ Append(out.kept, row) # <<>>
      <4> DEFINE f == out.kept
                 g == Append(f, row)
      <4>1. /\ g # <<>> /\ DOMAIN f = 1..Len(f) /\ DOMAIN g = 1..Len(f) + 1 /\ Len(f) \in Nat
            /\ \A i \in 1..Len(f) : g[i] = f[i]
            /\ g[Len(f) + 1] = row
        BY <3>1, <3>3, AppendIs
      <4> HIDE DEF f, g
      <4>2. \A i \in DOMAIN g : g[i] = row \/ (i \in DOMAIN f /\ g[i] = f[i])
        BY <4>1
      <4> QED
        BY <4>1, <4>2 DEF f, g
    <3> QED
      BY <3>1, <3>3, <3>4, <2>2, <1>4 DEF EachWithin
  <2> QED
    BY <2>1, <2>2
<1>6. CutWithin'
  BY <1>1, <1>2, <1>3, <1>4, <1>5 DEF CutWithin, Ceiling
<1>7. LayersWithin'
  BY DEF Delivery, LayersWithin
<1> QED
  BY <1>1, <1>3, <1>6, <1>7, CuttingDelivers

LEMMA UncutDelivers ==
  ASSUME IInv, Delivery, Uncut
  PROVE  Delivery'
<1>1. cut.bodies # <<>> /\ call.phase = "price" /\ NextBody /\ UNCHANGED derived
      /\ Make(Shell + BodyChars(Whole, Len(Whole)))
      /\ EstimateTokens(Shell + BodyChars(Whole, Len(Whole))) <= cut.limit
  BY DEF Uncut, At
<1>2. Whole \in Bodies /\ Len(Whole) \in Nat
  BY <1>1, WholeIs
<1>3. Shell + BodyChars(Whole, Len(Whole)) \in Nat
  BY <1>2, BodyGrows, NatConstants
<1> QED
  BY <1>1, <1>3, NextBodyDelivers

(* A prefix is made, unless not even the mark fits, which the guard rules    *)
(* out for a source.                                                       *)
LEMMA EndSearchDelivers ==
  ASSUME IInv, Delivery, EndSearch
  PROVE  Delivery'
<1> DEFINE n == Shell + BodyChars(Whole, cut.low) + TruncationMark
<1>1. /\ call.phase = "search" /\ NextBody /\ UNCHANGED derived /\ cut.low = cut.high
      /\ IF Fits(cut.low) THEN Make(n) ELSE UNCHANGED out
  BY DEF EndSearch, At
<1>2. cut.bodies # <<>> /\ cut.high <= Len(Whole) /\ cut.low \in Nat
      /\ (cut.low = 0 \/ Fits(cut.low))
  BY <1>1, Types DEF IInv, Narrowed, Cuts
<1>3. Whole \in Bodies /\ cut.low \in 0..Len(Whole)
  BY <1>1, <1>2, WholeIs
<1>4. n \in Nat
  BY <1>3, BodyGrows, NatConstants
<1>5. Fits(cut.low) => EstimateTokens(n) <= cut.limit
  BY DEF Fits
<1>6. call.exit = "source" => Fits(cut.low)
  <2> SUFFICES ASSUME call.exit = "source", cut.low = 0 PROVE Fits(cut.low)
    BY <1>2
  <2>1. cut.limit = RecallPacketBudget
    BY <1>1 DEF Delivery, CutWithin
  <2>2. Shell + BodyChars(Whole, 0) + TruncationMark = Shell + TruncationMark
    BY NatConstants DEF BodyChars
  <2> QED
    BY <2>1, <2>2, QuoteGuard DEF Fits
<1> HIDE DEF n
<1> QED
  BY <1>1, <1>2, <1>4, <1>5, <1>6, NextBodyDelivers

LEMMA StartSearchDelivers ==
  ASSUME IInv, Delivery, StartSearch
  PROVE  Delivery'
<1> DEFINE a == [cut EXCEPT !.low = 0]
           b == [a EXCEPT !.high = Len(Whole)]
           d == [call EXCEPT !.phase = "search"]
<1>0. cut \in Cuts /\ call \in Calls
  BY Types DEF IInv
<1>1. call.phase = "price" /\ UNCHANGED <<derived, out>>
  BY DEF StartSearch, At
<1>2. cut' = b /\ call' = d
  <2>1. cut' = [cut EXCEPT !.low = 0, !.high = Len(Whole)]
    BY DEF StartSearch
  <2> QED
    BY <2>1, <1>0 DEF StartSearch, Cuts, a, b
<1>3. b.bodies = cut.bodies /\ b.limit = cut.limit
  <2>1. a \in Cuts /\ a.bodies = cut.bodies /\ a.limit = cut.limit
    BY <1>0 DEF Cuts
  <2> HIDE DEF a
  <2> QED
    BY <2>1 DEF Cuts
<1>4. d.phase = "search" /\ d.exit = call.exit /\ d.side = call.side
  BY <1>0 DEF Calls
<1> HIDE DEF b, d
<1>5. CutWithin'
  BY <1>1, <1>2, <1>3, <1>4 DEF Delivery, CutWithin, Ceiling, EachWithin
<1>6. LayersWithin'
  BY <1>1 DEF Delivery, LayersWithin
<1> QED
  BY <1>2, <1>4, <1>5, <1>6, CuttingDelivers

LEMMA SearchDelivers ==
  ASSUME IInv, Delivery, Search
  PROVE  Delivery'
<1> DEFINE mid == (cut.low + cut.high + 1) \div 2
           a == [cut EXCEPT !.low = Halve(mid)[1]]
           b == [a EXCEPT !.high = Halve(mid)[2]]
<1>0. cut \in Cuts
  BY Types DEF IInv
<1>1. call.phase = "search" /\ UNCHANGED <<derived, call, out>>
  BY DEF Search, At
<1> HIDE DEF mid
<1>2. cut' = b
  <2>1. cut' = [cut EXCEPT !.low = Halve(mid)[1], !.high = Halve(mid)[2]]
    BY DEF Search, mid
  <2> QED
    BY <2>1, <1>0 DEF Cuts, a, b
<1>3. b.bodies = cut.bodies /\ b.limit = cut.limit
  <2>1. DOMAIN cut = {"bodies", "limit", "low", "high"}
    BY <1>0 DEF Cuts
  <2> QED
    BY <2>1
<1> HIDE DEF b
<1>5. CutWithin'
  BY <1>1, <1>2, <1>3 DEF Delivery, CutWithin, Ceiling, EachWithin
<1>6. LayersWithin'
  BY <1>1 DEF Delivery, LayersWithin
<1> QED
  BY <1>1, <1>5, <1>6, CuttingDelivers

LEMMA StoreLayerDelivers ==
  ASSUME IInv, Delivery, StoreLayer
  PROVE  Delivery'
<1>1. /\ call.phase = "price" /\ call.exit = "rebuild" /\ call' = NoCall
      /\ derived' = [derived EXCEPT ![call.side] = IF out.kept = <<>> THEN @ ELSE out.kept]
  BY DEF StoreLayer, At
<1>2. derived \in [Sides -> Seq(Row)] /\ call.side \in Sides
  BY Types DEF IInv, Calls
<1>3. EachWithin(out.kept, Ceiling(call.side))
  BY <1>1 DEF Delivery, CutWithin
<1>4. \A s \in Sides : derived'[s] = derived[s] \/ (s = call.side /\ derived'[s] = out.kept)
  BY <1>1, <1>2
<1>5. LayersWithin'
  BY <1>3, <1>4 DEF Delivery, LayersWithin
<1> QED
  BY <1>1, <1>5, EmptyIs, IdleDelivers

(* The window holds a whole layer.                                          *)
LEMMA WholeLayer ==
  ASSUME IInv, NEW side \in Sides, NEW raw, derived[side] # <<>>
  PROVE  InjectionRows(side, raw) = derived[side]
<1> DEFINE rows == derived[side]
<1>1. rows \in Seq(Row) /\ Len(rows) \in Nat /\ Len(rows) <= MostBlocks(side)
  BY Types DEF IInv
<1>2. Len(rows) <= INJECT_TOP_N /\ INJECT_TOP_N \in Nat
  BY <1>1, MostIs, NatConstants
<1> HIDE DEF rows
<1>3. Min2(Len(rows), INJECT_TOP_N) = Len(rows)
  BY <1>1, <1>2 DEF Min2
<1>4. SubSeq(rows, 1, Len(rows)) = rows
  BY <1>1
<1> QED
  BY <1>3, <1>4 DEF InjectionRows, rows

LEMMA InjectDelivers ==
  ASSUME IInv, Delivery, Inject
  PROVE  Delivery'
<1> PICK mine \in Raw("personal"), ours \in Raw("repo") :
      call' = [NoCall EXCEPT !.exit = "inject", !.phase = "select",
                 !.todo = InjectionRows("personal", mine), !.budget = PersonalCap,
                 !.after = InjectionRows("repo", ours)]
  BY DEF Inject
<1> DEFINE first == InjectionRows("personal", mine)
           second == InjectionRows("repo", ours)
           portrait == derived["personal"]
<1>1. UNCHANGED <<derived, out, cut>> /\ out = Nothing
  BY DEF Inject, IInv, At
<1>2. /\ portrait # <<>> => first = portrait
      /\ derived["repo"] # <<>> => second = derived["repo"]
  BY CeilingIs, WholeLayer
<1> HIDE DEF first, second
<1> DEFINE a == [NoCall EXCEPT !.exit = "inject"]
           b == [a EXCEPT !.phase = "select"]
           c == [b EXCEPT !.todo = first]
           d == [c EXCEPT !.budget = PersonalCap]
           e == [d EXCEPT !.after = second]
<1>3. call' = e
  <2>1. call' = [NoCall EXCEPT !.exit = "inject", !.phase = "select", !.todo = first,
                               !.budget = PersonalCap, !.after = second]
    BY DEF first, second
  <2> QED
    BY <2>1, EmptyIs DEF Calls
<1>4. e.exit = "inject" /\ e.phase = "select" /\ e.todo = first /\ e.budget = PersonalCap
      /\ e.after = second
  BY EmptyIs DEF Calls
<1> HIDE DEF e
<1>5. call'.exit = "inject" /\ call'.phase = "select" /\ call'.todo = first /\ call'.after = second
      /\ call'.budget = PERSONA_MAX_TOKENS
  BY <1>3, <1>4 DEF PersonalCap
<1>6. out'.kept = <<>> /\ out'.tokens = 0 /\ derived' = derived
  BY <1>1 DEF Nothing
<1>7. Affordable(out'.kept, out'.tokens)
  BY <1>6, NothingIsFree
<1>8. Choosing'
  BY <1>2, <1>5, <1>6, <1>7, NatConstants DEF Choosing
<1>9. PortraitFirst'
  <2> SUFFICES ASSUME portrait # <<>> PROVE FirstOf(portrait[1])'
    BY <1>6 DEF PortraitFirst
  <2>1. portrait \in Seq(Row)
    BY CeilingIs, Types DEF IInv
  <2>2. Head(portrait) = portrait[1] /\ 1 \in DOMAIN portrait
    BY <2>1, EmptySeq
  <2>3. Cost(portrait[1]) <= PERSONA_MAX_TOKENS
    BY <2>2, CeilingIs DEF Delivery, LayersWithin, EachWithin
  <2> HIDE DEF portrait
  <2> QED
    BY <2>2, <2>3, <1>2, <1>5, <1>6 DEF FirstOf, portrait
<1>10. LayersWithin'
  BY <1>1 DEF Delivery, LayersWithin
<1> QED
  BY <1>5, <1>8, <1>9, <1>10
     DEF Delivery, CutWithin, Asking, NothingSkipped, Answered, Exit, Rendering

LEMMA RecallDelivers ==
  ASSUME IInv, Delivery, Recall
  PROVE  Delivery'
<1>a. PICK home \in AtMost(Here, MaxFound), k \in 0..GROUP_MAX_MEMBERS :
      \E others \in [1..k -> UNION {AtMost(From(m), MaxFound) : m \in 1..k}] :
        /\ \A m \in 1..k : others[m] \in AtMost(From(m), MaxFound)
        /\ call' = [NoCall EXCEPT !.exit = "recall", !.phase = "select", !.todo = home,
                      !.budget = RECALL_RESULT_BUDGET_TOKENS,
                      !.rest = [m \in 1..k |-> [rows |-> others[m],
                                                budget |-> RECALL_FOREIGN_BUDGET_TOKENS]],
                      !.found = others]
  BY DEF Recall
<1>b. PICK others \in [1..k -> UNION {AtMost(From(m), MaxFound) : m \in 1..k}] :
        /\ \A m \in 1..k : others[m] \in AtMost(From(m), MaxFound)
        /\ call' = [NoCall EXCEPT !.exit = "recall", !.phase = "select", !.todo = home,
                      !.budget = RECALL_RESULT_BUDGET_TOKENS,
                      !.rest = [m \in 1..k |-> [rows |-> others[m],
                                                budget |-> RECALL_FOREIGN_BUDGET_TOKENS]],
                      !.found = others]
  BY <1>a
<1> DEFINE sections == [m \in 1..k |-> [rows |-> others[m], budget |-> RECALL_FOREIGN_BUDGET_TOKENS]]
<1>1. UNCHANGED <<derived, out, cut>> /\ out = Nothing
  BY DEF Recall, IInv, At
<1>2. k \in Nat /\ k <= GROUP_MAX_MEMBERS
  <2>1. k \in 0..GROUP_MAX_MEMBERS /\ GROUP_MAX_MEMBERS \in Nat
    BY <1>a, NatConstants
  <2> QED
    BY <2>1
<1>3. /\ DOMAIN others = 1..k /\ Len(others) = k /\ DOMAIN sections = 1..k /\ Len(sections) = k
      /\ \A r \in 1..k : sections[r] = [rows |-> others[r], budget |-> RECALL_FOREIGN_BUDGET_TOKENS]
  BY <1>b, <1>2
<1>4. \A m \in 1..k : \A i \in DOMAIN others[m] : others[m][i].from = m
  <2> SUFFICES ASSUME NEW m \in 1..k, NEW i \in DOMAIN others[m] PROVE others[m][i].from = m
    OBVIOUS
  <2>1. PICK n \in 0..MaxFound : others[m] \in [1..n -> From(m)]
    BY <1>b DEF AtMost
  <2>2. others[m][i] \in From(m)
    BY <2>1
  <2> QED
    BY <2>2 DEF From
<1> HIDE DEF sections
<1> DEFINE a == [NoCall EXCEPT !.exit = "recall"]
           b == [a EXCEPT !.phase = "select"]
           c == [b EXCEPT !.todo = home]
           d == [c EXCEPT !.budget = RECALL_RESULT_BUDGET_TOKENS]
           e == [d EXCEPT !.rest = sections]
           f == [e EXCEPT !.found = others]
<1>5. call' = f
  <2>1. call' = [NoCall EXCEPT !.exit = "recall", !.phase = "select", !.todo = home,
                   !.budget = RECALL_RESULT_BUDGET_TOKENS, !.rest = sections, !.found = others]
    BY <1>b DEF sections
  <2> QED
    BY <2>1, EmptyIs DEF Calls
<1>6. /\ f.exit = "recall" /\ f.phase = "select" /\ f.todo = home /\ f.rest = sections
      /\ f.found = others /\ f.after = <<>> /\ f.budget = RECALL_RESULT_BUDGET_TOKENS
  <2>1. NoCall.after = <<>>
    BY DEF NoCall
  <2> QED
    BY <2>1, EmptyIs DEF Calls
<1> HIDE DEF f
<1>7. /\ call'.exit = "recall" /\ call'.phase = "select" /\ call'.rest = sections
      /\ call'.found = others /\ call'.after = <<>> /\ call'.budget = RECALL_RESULT_BUDGET_TOKENS
      /\ out'.kept = <<>> /\ out'.tokens = 0 /\ derived' = derived
  BY <1>1, <1>5, <1>6 DEF Nothing
<1>8. Choosing'
  <2>1. Affordable(out'.kept, out'.tokens)
    BY <1>7, NothingIsFree
  <2> QED
    BY <2>1, <1>7 DEF Choosing
<1>9. Reached' = 0
  BY <1>2, <1>3, <1>7 DEF Reached
<1>10. Visiting'
  <2>1. Len(call'.rest) <= Len(call'.found)
    BY <1>2, <1>3, <1>7
  <2>2. out'.tokens + call'.budget
          <= RECALL_RESULT_BUDGET_TOKENS + Reached' * RECALL_FOREIGN_BUDGET_TOKENS
    BY <1>7, <1>9, NatConstants
  <2>3. \A r \in DOMAIN call'.rest :
          call'.rest[r] = [rows |-> call'.found[Reached' + r], budget |-> RECALL_FOREIGN_BUDGET_TOKENS]
    <3>1. \A r \in 1..k : Reached' + r = r
      BY <1>2, <1>9
    <3> QED
      BY <3>1, <1>3, <1>7
  <2>4. 1..Reached' = {} /\ ~(Reached' > 0)
    BY <1>9
  <2> QED
    BY <2>1, <2>2, <2>3, <2>4 DEF Visiting
<1>11. Asking'
  <2>1. Len(call'.found) <= GROUP_MAX_MEMBERS
    BY <1>2, <1>3, <1>7
  <2>2. \A m \in DOMAIN call'.found : \A i \in DOMAIN call'.found[m] : call'.found[m][i].from = m
    BY <1>3, <1>4, <1>7
  <2> QED
    BY <2>1, <2>2, <1>7, <1>10 DEF Asking, Rendering
<1>12. LayersWithin'
  BY <1>1 DEF Delivery, LayersWithin
<1> QED
  BY <1>7, <1>8, <1>11, <1>12
     DEF Delivery, CutWithin, PortraitFirst, NothingSkipped, Answered, Exit, Rendering

(* The steps of a selection, field by field.                                *)
LEMMA KeepIs ==
  ASSUME IInv, Keep
  PROVE  /\ call.phase \in {"select", "render"} /\ call.todo # <<>>
         /\ Cost(Head(call.todo)) <= call.budget
         /\ call'.exit = call.exit /\ call'.phase = call.phase /\ call'.found = call.found
         /\ call'.rest = call.rest /\ call'.after = call.after /\ call'.offered = call.offered
         /\ call'.todo = Tail(call.todo) /\ call'.budget = call.budget - Cost(Head(call.todo))
         /\ out'.kept = Append(out.kept, Head(call.todo))
         /\ out'.tokens = out.tokens + Cost(Head(call.todo))
         /\ derived' = derived
<1> DEFINE row == Head(call.todo)
           a == [call EXCEPT !.todo = Tail(@)]
           b == [a EXCEPT !.budget = @ - Cost(row)]
<1>1. /\ call.phase \in {"select", "render"} /\ call.todo # <<>> /\ Cost(row) <= call.budget
      /\ UNCHANGED <<derived, cut>>
      /\ out' = [kept |-> Append(out.kept, row), chars |-> out.chars + RenderEntry(row),
                 tokens |-> out.tokens + Cost(row)]
      /\ call' = [call EXCEPT !.todo = Tail(@), !.budget = @ - Cost(row)]
  BY DEF Keep, Selecting, At
<1>2. DOMAIN call = {"exit", "phase", "side", "found", "todo", "budget", "rest", "after", "offered"}
  BY SelectionIs DEF Calls
<1> HIDE DEF row
<1>3. call' = b
  BY <1>1, <1>2
<1>4. /\ DOMAIN a = DOMAIN call /\ a.todo = Tail(call.todo) /\ a.budget = call.budget
      /\ a.phase = call.phase /\ a.exit = call.exit /\ a.rest = call.rest /\ a.after = call.after
      /\ a.found = call.found /\ a.offered = call.offered
  BY <1>2
<1> HIDE DEF a
<1>5. /\ b.todo = Tail(call.todo) /\ b.budget = call.budget - Cost(row)
      /\ b.phase = call.phase /\ b.exit = call.exit /\ b.rest = call.rest /\ b.after = call.after
      /\ b.found = call.found /\ b.offered = call.offered
  BY <1>2, <1>4
<1> HIDE DEF b
<1> QED
  BY <1>1, <1>3, <1>5 DEF row

LEMMA SkipIs ==
  ASSUME IInv, Skip
  PROVE  /\ call.phase \in {"select", "render"} /\ call.todo # <<>>
         /\ Cost(Head(call.todo)) > call.budget
         /\ call'.exit = call.exit /\ call'.phase = call.phase /\ call'.found = call.found
         /\ call'.rest = call.rest /\ call'.after = call.after /\ call'.offered = call.offered
         /\ call'.todo = Tail(call.todo) /\ call'.budget = call.budget
         /\ UNCHANGED <<derived, out>>
<1>1. DOMAIN call = {"exit", "phase", "side", "found", "todo", "budget", "rest", "after", "offered"}
  BY SelectionIs DEF Calls
<1>2. call' = [call EXCEPT !.todo = Tail(call.todo)] /\ UNCHANGED <<derived, out>>
  BY DEF Skip
<1>3. /\ call.phase \in {"select", "render"} /\ call.todo # <<>>
      /\ Cost(Head(call.todo)) > call.budget
  BY DEF Skip, Selecting, At
<1> QED
  BY <1>1, <1>2, <1>3

LEMMA NextSectionIs ==
  ASSUME IInv, NextSection
  PROVE  /\ call.phase = "select" /\ call.todo = <<>> /\ call.rest # <<>>
         /\ call'.exit = call.exit /\ call'.phase = call.phase /\ call'.found = call.found
         /\ call'.after = call.after /\ call'.rest = Tail(call.rest)
         /\ call'.todo = Head(call.rest).rows /\ call'.budget = Head(call.rest).budget
         /\ UNCHANGED <<derived, out>>
<1> DEFINE s == Head(call.rest)
           a == [call EXCEPT !.todo = s.rows]
           b == [a EXCEPT !.budget = s.budget]
           c == [b EXCEPT !.rest = Tail(@)]
<1>1. /\ call.phase = "select" /\ call.todo = <<>> /\ call.rest # <<>> /\ UNCHANGED <<derived, out>>
      /\ call' = [call EXCEPT !.todo = Head(call.rest).rows,
                    !.budget = Head(call.rest).budget, !.rest = Tail(@)]
  BY DEF NextSection, At
<1>2. DOMAIN call = {"exit", "phase", "side", "found", "todo", "budget", "rest", "after", "offered"}
  BY SelectionIs DEF Calls
<1>3. call' = c
  BY <1>1, <1>2
<1> HIDE DEF s
<1>4. /\ DOMAIN a = DOMAIN call /\ a.todo = s.rows
      /\ a.phase = call.phase /\ a.exit = call.exit /\ a.rest = call.rest /\ a.after = call.after
      /\ a.found = call.found
  BY <1>2
<1> HIDE DEF a
<1>5. /\ DOMAIN b = DOMAIN call /\ b.todo = s.rows /\ b.budget = s.budget
      /\ b.phase = call.phase /\ b.exit = call.exit /\ b.rest = call.rest /\ b.after = call.after
      /\ b.found = call.found
  BY <1>2, <1>4
<1> HIDE DEF b
<1>6. /\ c.todo = s.rows /\ c.budget = s.budget /\ c.rest = Tail(call.rest)
      /\ c.phase = call.phase /\ c.exit = call.exit /\ c.after = call.after /\ c.found = call.found
  BY <1>2, <1>5
<1> HIDE DEF c
<1> QED
  BY <1>1, <1>3, <1>6 DEF s

LEMMA StartRenderIs ==
  ASSUME IInv, StartRender
  PROVE  /\ \/ call.phase = "select" /\ call.todo = <<>> /\ call.rest = <<>>
            \/ call.phase = "price" /\ cut.bodies = <<>> /\ call.exit = "source"
         /\ call'.exit = call.exit /\ call'.phase = "render" /\ call'.found = call.found
         /\ call'.after = call.after /\ call'.todo = out.kept \o call.after
         /\ call'.offered = out.kept \o call.after /\ call'.budget = RenderBudget(call.exit)
         /\ out' = Nothing /\ derived' = derived
<1> DEFINE rows == out.kept \o call.after
           price == RenderBudget(call.exit)
           a == [call EXCEPT !.phase = "render"]
           b == [a EXCEPT !.todo = rows]
           c == [b EXCEPT !.offered = rows]
           d == [c EXCEPT !.budget = price]
<1>1. /\ out' = Nothing /\ derived' = derived
      /\ call' = [call EXCEPT !.phase = "render", !.todo = rows, !.offered = rows, !.budget = price]
      /\ \/ call.phase = "select" /\ call.todo = <<>> /\ call.rest = <<>>
         \/ call.phase = "price" /\ cut.bodies = <<>> /\ call.exit = "source"
  BY DEF StartRender, At
<1>2. DOMAIN call = {"exit", "phase", "side", "found", "todo", "budget", "rest", "after", "offered"}
  BY SelectionIs DEF Calls
<1> HIDE DEF rows, price
<1>3. call' = d
  BY <1>1, <1>2
<1>4. /\ DOMAIN a = DOMAIN call /\ a.phase = "render" /\ a.exit = call.exit /\ a.after = call.after
      /\ a.found = call.found
  BY <1>2
<1> HIDE DEF a
<1>5. /\ DOMAIN b = DOMAIN call /\ b.phase = "render" /\ b.exit = call.exit /\ b.after = call.after
      /\ b.found = call.found /\ b.todo = rows
  BY <1>2, <1>4
<1> HIDE DEF b
<1>6. /\ DOMAIN c = DOMAIN call /\ c.phase = "render" /\ c.exit = call.exit /\ c.after = call.after
      /\ c.found = call.found /\ c.todo = rows /\ c.offered = rows
  BY <1>2, <1>5
<1> HIDE DEF c
<1>7. /\ d.phase = "render" /\ d.exit = call.exit /\ d.after = call.after
      /\ d.found = call.found /\ d.todo = rows /\ d.offered = rows /\ d.budget = price
  BY <1>2, <1>6
<1> HIDE DEF d
<1> QED
  BY <1>1, <1>3, <1>7 DEF rows, price

LEMMA JoinIs ==
  ASSUME NEW S, NEW f \in Seq(S), NEW g \in Seq(S)
  PROVE  /\ f \o g \in Seq(S) /\ Len(f \o g) = Len(f) + Len(g)
         /\ \A i \in 1..Len(f) : (f \o g)[i] = f[i]
         /\ \A j \in 1..Len(g) : (f \o g)[Len(f) + j] = g[j]
<1>1. /\ f \o g \in Seq(S) /\ Len(f \o g) = Len(f) + Len(g)
      /\ \A i \in 1..Len(f) + Len(g) : (f \o g)[i] = IF i <= Len(f) THEN f[i] ELSE g[i - Len(f)]
  BY ConcatProperties
<1>2. \A i \in 1..Len(f) : i \in 1..Len(f) + Len(g) /\ i <= Len(f)
  OBVIOUS
<1>3. \A j \in 1..Len(g) :
        Len(f) + j \in 1..Len(f) + Len(g) /\ ~(Len(f) + j <= Len(f)) /\ (Len(f) + j) - Len(f) = j
  OBVIOUS
<1> QED
  BY <1>1, <1>2, <1>3

LEMMA MoveOver ==
  ASSUME NEW S, NEW f \in Seq(S), NEW g \in Seq(S), g # <<>>
  PROVE  Append(f, Head(g)) \o Tail(g) = f \o g
<1> DEFINE a == Append(f, Head(g))
           t == Tail(g)
           x == f \o g
           y == a \o t
<1>1. /\ Len(f) \in Nat /\ Len(g) \in Nat /\ Len(g) > 0 /\ Head(g) \in S /\ Head(g) = g[1]
      /\ t \in Seq(S) /\ Len(t) = Len(g) - 1
      /\ \A i \in 1..Len(g) - 1 : t[i] = g[i + 1]
  BY HeadTailProperties, EmptySeq
<1>2. /\ a \in Seq(S) /\ Len(a) = Len(f) + 1
      /\ \A i \in 1..Len(f) : a[i] = f[i]
      /\ a[Len(f) + 1] = Head(g)
  BY <1>1, AppendIs
<1>3. /\ x \in Seq(S) /\ Len(x) = Len(f) + Len(g)
      /\ \A i \in 1..Len(f) : x[i] = f[i]
      /\ \A j \in 1..Len(g) : x[Len(f) + j] = g[j]
  BY JoinIs
<1>a. a \in Seq(S) /\ t \in Seq(S)
  BY <1>1, <1>2
<1> HIDE DEF a, t
<1>4. /\ y \in Seq(S) /\ Len(y) = Len(a) + Len(t)
      /\ \A i \in 1..Len(a) : y[i] = a[i]
      /\ \A j \in 1..Len(t) : y[Len(a) + j] = t[j]
  BY <1>a, JoinIs
<1> HIDE DEF x, y
<1>5. PICK n \in Nat : Len(f) = n
  BY <1>1
<1>6. PICK m \in Nat : Len(g) = m + 1
  <2>1. Len(g) - 1 \in Nat /\ Len(g) = (Len(g) - 1) + 1
    BY <1>1
  <2> QED
    BY <2>1
<1>7. Len(t) = m /\ Len(a) = n + 1 /\ Len(x) = n + m + 1 /\ Len(y) = n + m + 1
  <2>1. Len(t) = m
    BY <1>1, <1>6
  <2>2. Len(a) = n + 1
    BY <1>2, <1>5
  <2>3. Len(x) = n + m + 1
    BY <1>3, <1>5, <1>6
  <2>4. Len(y) = n + m + 1
    BY <2>1, <2>2, <1>4
  <2> QED
    BY <2>1, <2>2, <2>3, <2>4
<1>8. /\ \A i \in 1..n : x[i] = f[i]
      /\ \A j \in 1..m + 1 : x[n + j] = g[j]
      /\ \A i \in 1..n + 1 : y[i] = a[i]
      /\ \A j \in 1..m : y[(n + 1) + j] = t[j]
      /\ \A i \in 1..n : a[i] = f[i]
      /\ a[n + 1] = g[1]
  BY <1>1, <1>2, <1>3, <1>4, <1>5, <1>6, <1>7, Zenon
<1>9. \A j \in 1..m : t[j] = g[j + 1]
  <2>1. Len(g) - 1 = m
    BY <1>6
  <2> QED
    BY <2>1, <1>1
<1>10. ASSUME NEW i \in 1..n + m + 1 PROVE y[i] = x[i]
  <2>1. CASE i \in 1..n
    <3>1. i \in 1..n + 1
      BY <2>1
    <3> QED
      BY <2>1, <3>1, <1>8, Zenon
  <2>2. CASE i = n + 1
    <3>1. 1 \in 1..m + 1 /\ n + 1 \in 1..n + 1
      OBVIOUS
    <3>2. y[n + 1] = a[n + 1] /\ x[n + 1] = g[1]
      BY <3>1, <1>8, Zenon
    <3> QED
      BY <3>2, <2>2, <1>8, Zenon
  <2>3. CASE i > n + 1
    <3>1. PICK j \in 1..m : i = (n + 1) + j
      <4>1. i - (n + 1) \in 1..m /\ i = (n + 1) + (i - (n + 1))
        BY <2>3
      <4> QED
        BY <4>1
    <3>2. j + 1 \in 1..m + 1 /\ (n + 1) + j = n + (j + 1)
      OBVIOUS
    <3>3. y[(n + 1) + j] = t[j] /\ x[n + (j + 1)] = g[j + 1] /\ t[j] = g[j + 1]
      BY <3>2, <1>8, <1>9, Zenon
    <3> QED
      BY <3>1, <3>2, <3>3, Zenon
  <2> QED
    BY <2>1, <2>2, <2>3
<1>11. x \in Seq(S) /\ y \in Seq(S) /\ Len(x) = Len(y) /\ \A i \in 1..Len(y) : y[i] = x[i]
  BY <1>3, <1>4, <1>7, <1>10
<1>12. y = x
  BY <1>11, SeqEqual
<1> QED
  BY <1>12 DEF x, y, a, t

LEMMA KeepDelivers ==
  ASSUME IInv, Delivery, Keep
  PROVE  Delivery'
<1> DEFINE row == Head(call.todo)
           price == Cost(row)
<1>1. /\ call.phase \in {"select", "render"} /\ call.todo # <<>> /\ price <= call.budget
      /\ call'.exit = call.exit /\ call'.phase = call.phase /\ call'.found = call.found
      /\ call'.rest = call.rest /\ call'.after = call.after /\ call'.offered = call.offered
      /\ call'.todo = Tail(call.todo) /\ call'.budget = call.budget - price
      /\ out'.kept = Append(out.kept, row) /\ out'.tokens = out.tokens + price
      /\ derived' = derived
  BY KeepIs
<1>2. /\ call.todo \in Seq(Row) /\ out.kept \in Seq(Row) /\ row \in Row /\ price \in Nat
      /\ call.budget \in Nat /\ out.tokens \in Nat
  BY <1>1, SelectionIs, CostCoversChars
<1>3. /\ Append(out.kept, row) # <<>> /\ Len(out.kept) \in Nat
      /\ DOMAIN out.kept = 1..Len(out.kept)
      /\ DOMAIN Append(out.kept, row) = 1..Len(out.kept) + 1
      /\ \A i \in 1..Len(out.kept) : Append(out.kept, row)[i] = out.kept[i]
      /\ Append(out.kept, row)[Len(out.kept) + 1] = row
  BY <1>2, AppendIs
<1>4. /\ row = call.todo[1] /\ 1 \in DOMAIN call.todo
      /\ \A i \in DOMAIN Tail(call.todo) :
           i + 1 \in DOMAIN call.todo /\ Tail(call.todo)[i] = call.todo[i + 1]
  BY <1>1, <1>2, HeadTailProperties, EmptySeq
<1>5. out'.tokens + call'.budget = out.tokens + call.budget
  BY <1>1, <1>2
<1> HIDE DEF row, price
<1>6. ASSUME NEW r, FirstOf(r) PROVE FirstOf(r)'
  <2>1. out'.kept # <<>>
    BY <1>1, <1>3
  <2>2. CASE out.kept # <<>> /\ out.kept[1] = r
    <3>1. 1 \in 1..Len(out.kept)
      BY <2>2, <1>2, EmptySeq
    <3> QED
      BY <2>1, <2>2, <3>1, <1>1, <1>3 DEF FirstOf
  <2>3. CASE out.kept = <<>> /\ Head(call.todo) = r
    <3>1. Len(out.kept) = 0
      BY <2>3
    <3>2. Len(out.kept) + 1 = 1
      BY <3>1
    <3>3. Append(out.kept, row)[1] = row
      BY <3>2, <1>3
    <3> QED
      BY <2>1, <2>3, <3>3, <1>1 DEF FirstOf, row
  <2> QED
    BY <2>2, <2>3, <1>6 DEF FirstOf
<1>7. PortraitFirst'
  BY <1>1, <1>6 DEF Delivery, PortraitFirst, Exit
<1>8. Choosing'
  <2> SUFFICES ASSUME call.phase = "select" PROVE Choosing'
    BY <1>1 DEF Choosing
  <2>1. /\ call.exit \in {"inject", "recall"} /\ Affordable(out.kept, out.tokens)
        /\ call.exit = "inject" => /\ out.tokens + call.budget <= PERSONA_MAX_TOKENS
                                   /\ derived["repo"] # <<>> => call.after = derived["repo"]
    BY DEF Delivery, Choosing
  <2>2. Affordable(out'.kept, out'.tokens)
    BY <2>1, <1>1, <1>2, OneMore DEF price
  <2> QED
    BY <2>1, <2>2, <1>1, <1>5 DEF Choosing
<1>9. \A m : HeardIn(m, out.kept) => HeardIn(m, out'.kept)
  <2> SUFFICES ASSUME NEW m, NEW j \in DOMAIN out.kept, out.kept[j].from = m
               PROVE  HeardIn(m, out'.kept)
    BY DEF HeardIn
  <2>1. j \in DOMAIN Append(out.kept, row) /\ Append(out.kept, row)[j] = out.kept[j]
    BY <1>3
  <2> QED
    BY <2>1, <1>1 DEF HeardIn
<1>10. ASSUME Visiting, call.phase = "select", Exit("recall") PROVE Visiting'
  <2>1. Reached' = Reached /\ \A m : Payable(m)' <=> Payable(m)
    BY <1>1 DEF Reached, Payable
  <2>2. Reached > 0 => \A i \in DOMAIN call'.todo : call'.todo[i].from = Reached
    BY <1>1, <1>4, <1>10 DEF Visiting
  <2>3. ASSUME NEW m \in 1..Reached, Payable(m)
        PROVE  HeardIn(m, out'.kept)
    <3>1. CASE HeardIn(m, out.kept)
      BY <3>1, <1>9
    <3>2. CASE ~HeardIn(m, out.kept)
      <4>1. m = Reached
        BY <3>2, <2>3, <1>10 DEF Visiting
      <4>2. Reached > 0
        <5>1. Len(call.found) \in Nat /\ Len(call.rest) \in Nat
          BY Types DEF IInv, Calls
        <5>2. Reached \in Int
          BY <5>1 DEF Reached
        <5> QED
          BY <4>1, <5>2
      <4>3. row.from = m
        BY <4>1, <4>2, <1>4, <1>10 DEF Visiting
      <4>4. Len(out.kept) + 1 \in DOMAIN out'.kept /\ out'.kept[Len(out.kept) + 1] = row
        BY <1>1, <1>3
      <4> QED
        BY <4>3, <4>4 DEF HeardIn
    <3> QED
      BY <3>1, <3>2
  <2> QED
    BY <2>1, <2>2, <2>3, <1>1, <1>5, <1>10 DEF Visiting
<1>11. Asking'
  <2>1. \A m : Payable(m)' <=> Payable(m)
    BY <1>1 DEF Payable
  <2> QED
    BY <2>1, <1>1, <1>10 DEF Delivery, Asking, Exit, Rendering
<1>12. NothingSkipped'
  <2> SUFFICES ASSUME call.phase = "render",
                      call.exit = "recall" \/ (call.exit = "inject" /\ derived["repo"] # <<>>)
               PROVE  /\ out'.kept \o call'.todo = call'.offered
                      /\ Affordable(call'.todo, call'.budget)
                      /\ call.exit = "inject" => EndsWith(call.offered, derived["repo"])
    BY <1>1 DEF NothingSkipped, Rendering, EndsWith
  <2>1. /\ out.kept \o call.todo = call.offered /\ Affordable(call.todo, call.budget)
        /\ call.exit = "inject" => EndsWith(call.offered, derived["repo"])
    BY DEF Delivery, NothingSkipped, Rendering
  <2>2. Append(out.kept, row) \o Tail(call.todo) = out.kept \o call.todo
    BY <1>1, <1>2, MoveOver DEF row
  <2>3. Affordable(Tail(call.todo), call.budget - price)
    BY <2>1, <1>1, <1>2, OneLess DEF row, price
  <2> QED
    BY <2>1, <2>2, <2>3, <1>1
<1>13. Answered'
  BY <1>1, <1>3 DEF Answered, Rendering
<1>14. LayersWithin' /\ CutWithin'
  BY <1>1 DEF Delivery, LayersWithin, CutWithin
<1> QED
  BY <1>7, <1>8, <1>11, <1>12, <1>13, <1>14 DEF Delivery

LEMMA SkipDelivers ==
  ASSUME IInv, Delivery, Skip
  PROVE  Delivery'
<1>1. /\ call.phase \in {"select", "render"} /\ call.todo # <<>>
      /\ Cost(Head(call.todo)) > call.budget
      /\ call'.exit = call.exit /\ call'.phase = call.phase /\ call'.found = call.found
      /\ call'.rest = call.rest /\ call'.after = call.after /\ call'.offered = call.offered
      /\ call'.todo = Tail(call.todo) /\ call'.budget = call.budget
      /\ UNCHANGED <<derived, out>>
  BY SkipIs
<1>2. /\ call.todo \in Seq(Row) /\ Head(call.todo) \in Row /\ Cost(Head(call.todo)) \in Nat
      /\ call.budget \in Nat
  BY <1>1, SelectionIs, CostCoversChars
<1>3. ~(Cost(Head(call.todo)) <= call.budget)
  BY <1>1, <1>2
<1>4. /\ Head(call.todo) = call.todo[1]
      /\ \A i \in DOMAIN Tail(call.todo) :
           i + 1 \in DOMAIN call.todo /\ Tail(call.todo)[i] = call.todo[i + 1]
      /\ \A i \in DOMAIN call.todo :
           i # 1 => i - 1 \in DOMAIN Tail(call.todo) /\ Tail(call.todo)[i - 1] = call.todo[i]
  <2> DEFINE t == Tail(call.todo)
             n == Len(call.todo)
  <2>1. /\ n \in Nat /\ n > 0 /\ DOMAIN call.todo = 1..n /\ DOMAIN t = 1..n - 1
        /\ Head(call.todo) = call.todo[1]
        /\ \A i \in 1..n - 1 : t[i] = call.todo[i + 1]
    BY <1>1, <1>2, HeadTailProperties, EmptySeq
  <2> HIDE DEF t, n
  <2>2. \A i \in 1..n - 1 : i + 1 \in 1..n
    BY <2>1
  <2>3. \A i \in 1..n : i # 1 => i - 1 \in 1..n - 1 /\ (i - 1) + 1 = i
    BY <2>1
  <2>4. \A i \in 1..n : i # 1 => t[i - 1] = call.todo[i]
    BY <2>1, <2>3
  <2> QED
    BY <2>1, <2>2, <2>3, <2>4 DEF t
<1>5. PortraitFirst'
  BY <1>1, <1>3 DEF Delivery, PortraitFirst, Exit, FirstOf
<1>6. Choosing'
  BY <1>1 DEF Delivery, Choosing
<1>7. ASSUME Visiting PROVE Visiting'
  <2>1. Reached' = Reached /\ \A m : Payable(m)' <=> Payable(m)
    BY <1>1 DEF Reached, Payable
  <2>2. Reached > 0 => \A i \in DOMAIN call'.todo : call'.todo[i].from = Reached
    BY <1>1, <1>4, <1>7 DEF Visiting
  <2>3. ASSUME NEW i \in DOMAIN call.todo, Cost(call.todo[i]) <= call.budget
        PROVE  \E k \in DOMAIN call'.todo : Cost(call'.todo[k]) <= call.budget
    <3>1. i # 1
      BY <2>3, <1>3, <1>4
    <3>2. i - 1 \in DOMAIN call'.todo /\ call'.todo[i - 1] = call.todo[i]
      BY <3>1, <1>1, <1>4
    <3>3. Cost(call'.todo[i - 1]) <= call.budget
      BY <3>2, <2>3
    <3> QED
      BY <3>2, <3>3
  <2>4. ASSUME NEW m \in 1..Reached, Payable(m)
        PROVE  \/ HeardIn(m, out.kept)
               \/ /\ m = Reached /\ call.budget = RECALL_FOREIGN_BUDGET_TOKENS
                  /\ \E i \in DOMAIN call'.todo : Cost(call'.todo[i]) <= RECALL_FOREIGN_BUDGET_TOKENS
    BY <2>3, <2>4, <1>7 DEF Visiting
  <2> QED
    BY <2>1, <2>2, <2>4, <1>1, <1>7 DEF Visiting
<1>8. Asking'
  <2>1. \A m : Payable(m)' <=> Payable(m)
    BY <1>1 DEF Payable
  <2> QED
    BY <2>1, <1>1, <1>7 DEF Delivery, Asking, Exit, Rendering
<1>9. NothingSkipped'
  BY <1>1, <1>2, <1>3, OneLess DEF Delivery, NothingSkipped, Rendering
<1>10. Answered'
  BY <1>1, <1>3 DEF Delivery, Answered, Rendering
<1>11. LayersWithin' /\ CutWithin'
  BY <1>1 DEF Delivery, LayersWithin, CutWithin
<1> QED
  BY <1>5, <1>6, <1>8, <1>9, <1>10, <1>11 DEF Delivery

LEMMA JoinEnds ==
  ASSUME NEW S, NEW f \in Seq(S), NEW g \in Seq(S)
  PROVE  EndsWith(f \o g, g)
<1> DEFINE x == f \o g
           n == Len(f)
           m == Len(g)
           s == SubSeq(x, n + 1, n + m)
<1>1. /\ x \in Seq(S) /\ Len(x) = n + m
      /\ \A j \in 1..m : x[n + j] = g[j]
  BY JoinIs
<1>2. n \in Nat /\ m \in Nat
  OBVIOUS
<1> HIDE DEF x
<1>3. s \in Seq(S) /\ Len(s) = m /\ \A j \in 1..m : s[j] = x[n + j]
  <2> HIDE DEF n, m
  <2>1. n + 1 \in 1..Len(x) + 1 /\ n + m \in (n + 1) - 1..Len(x)
    BY <1>1, <1>2
  <2>2. /\ s \in Seq(S) /\ Len(s) = (n + m) - (n + 1) + 1
        /\ \A i \in 1..(n + m) - (n + 1) + 1 : s[i] = x[(n + 1) + i - 1]
    BY <1>1, <2>1, SubSeqProperties
  <2>3. (n + m) - (n + 1) + 1 = m /\ \A i \in 1..m : (n + 1) + i - 1 = n + i
    BY <1>2
  <2> QED
    BY <2>2, <2>3
<1> HIDE DEF s
<1>4. s = g
  <2>1. \A j \in 1..Len(s) : s[j] = g[j]
    BY <1>1, <1>3
  <2> QED
    BY <2>1, <1>3, SeqEqual
<1>5. Len(x) - Len(g) + 1 = n + 1 /\ Len(g) <= Len(x)
  <2> DEFINE l == Len(x)
  <2> HIDE DEF n, m, l
  <2>1. l = n + m
    BY <1>1 DEF l
  <2>2. l - m + 1 = n + 1 /\ m <= l
    BY <2>1, <1>2
  <2> QED
    BY <2>2 DEF l, m
<1>6. SubSeq(x, Len(x) - Len(g) + 1, Len(x)) = s
  BY <1>1, <1>5 DEF s
<1> QED
  BY <1>4, <1>5, <1>6 DEF EndsWith, x

LEMMA JoinBegins ==
  ASSUME NEW S, NEW f \in Seq(S), NEW g \in Seq(S)
  PROVE  /\ f \o g \in Seq(S)
         /\ \A i \in DOMAIN f : i \in DOMAIN (f \o g) /\ (f \o g)[i] = f[i]
         /\ f # <<>> => f \o g # <<>> /\ Head(f \o g) = f[1]
<1> DEFINE x == f \o g
<1>1. x \in Seq(S) /\ Len(x) = Len(f) + Len(g) /\ \A i \in 1..Len(f) : x[i] = f[i]
  BY JoinIs
<1>2. Len(f) \in Nat /\ Len(g) \in Nat /\ DOMAIN f = 1..Len(f)
  OBVIOUS
<1> HIDE DEF x
<1>3. DOMAIN x = 1..Len(x)
  BY <1>1
<1>4. \A i \in DOMAIN f : i \in DOMAIN x /\ x[i] = f[i]
  BY <1>1, <1>2, <1>3
<1>5. f # <<>> => 1 \in DOMAIN f
  BY <1>2, EmptySeq
<1>6. 1 \in DOMAIN x => x # <<>> /\ Head(x) = x[1]
  BY <1>1
<1> QED
  BY <1>1, <1>4, <1>5, <1>6 DEF x

LEMMA NextSectionDelivers ==
  ASSUME IInv, Delivery, NextSection
  PROVE  Delivery'
<1>1. /\ call.phase = "select" /\ call.todo = <<>> /\ call.rest # <<>>
      /\ call'.exit = call.exit /\ call'.phase = call.phase /\ call'.found = call.found
      /\ call'.after = call.after /\ call'.rest = Tail(call.rest)
      /\ call'.todo = Head(call.rest).rows /\ call'.budget = Head(call.rest).budget
      /\ UNCHANGED <<derived, out>>
  BY NextSectionIs
<1>2. call.exit = "recall"
  <2>1. call.exit # "inject"
    BY <1>1 DEF IInv, Paid
  <2> QED
    BY <2>1, <1>1 DEF Delivery, Choosing
<1>3. /\ Visiting /\ call.after = <<>> /\ Len(call.found) <= GROUP_MAX_MEMBERS
      /\ \A m \in DOMAIN call.found : \A i \in DOMAIN call.found[m] : call.found[m][i].from = m
  BY <1>1, <1>2 DEF Delivery, Asking, Exit
<1> DEFINE n == Len(call.found)
           l == Len(call.rest)
           r0 == Reached
<1>4. /\ n \in Nat /\ l \in Nat /\ l > 0 /\ l <= n /\ r0 = n - l
      /\ DOMAIN call.found = 1..n /\ DOMAIN call.rest = 1..l /\ Len(Tail(call.rest)) = l - 1
      /\ DOMAIN Tail(call.rest) = 1..l - 1
      /\ Head(call.rest) = call.rest[1]
      /\ \A r \in 1..l - 1 : Tail(call.rest)[r] = call.rest[r + 1]
  <2>1. call.found \in Seq(Seq(Row)) /\ call.rest \in Seq(Section)
    BY Types DEF IInv, Calls
  <2> QED
    BY <2>1, <1>1, <1>3, HeadTailProperties, EmptySeq DEF Visiting, Reached
<1>5. Reached' = r0 + 1
  <2>1. Reached' = n - (l - 1)
    BY <1>1, <1>4 DEF Reached
  <2> HIDE DEF n, l, r0
  <2> QED
    BY <2>1, <1>4
<1>6. \A r \in 1..l : call.rest[r] = [rows |-> call.found[r0 + r], budget |-> RECALL_FOREIGN_BUDGET_TOKENS]
  BY <1>3, <1>4 DEF Visiting
<1> HIDE DEF n, l, r0
<1>7. call'.todo = call.found[r0 + 1] /\ call'.budget = RECALL_FOREIGN_BUDGET_TOKENS
      /\ r0 \in Nat /\ r0 + 1 \in 1..n
  <2>1. 1 \in 1..l /\ r0 \in Nat /\ r0 + 1 \in 1..n
    BY <1>4
  <2>2. call.rest[1] = [rows |-> call.found[r0 + 1], budget |-> RECALL_FOREIGN_BUDGET_TOKENS]
    BY <2>1, <1>6
  <2> QED
    BY <2>1, <2>2, <1>1, <1>4
<1>8. \A m : Payable(m)' <=> Payable(m)
  BY <1>1 DEF Payable
<1>9. Len(call'.rest) <= Len(call'.found)
  <2>1. l - 1 <= n
    BY <1>4
  <2> QED
    BY <2>1, <1>1, <1>4 DEF n
<1>10. out'.tokens + call'.budget
         <= RECALL_RESULT_BUDGET_TOKENS + Reached' * RECALL_FOREIGN_BUDGET_TOKENS
  <2> DEFINE f == RECALL_FOREIGN_BUDGET_TOKENS
             p == r0 * f
  <2>1. out.tokens + call.budget <= RECALL_RESULT_BUDGET_TOKENS + r0 * f
    BY <1>3 DEF Visiting, r0
  <2>2. f \in Nat /\ p \in Nat /\ (r0 + 1) * f = p + f
    BY <1>7, NatConstants
  <2>3. out.tokens \in Nat /\ call.budget \in Nat
    BY SelectionIs
  <2>4. out.tokens + f <= RECALL_RESULT_BUDGET_TOKENS + (p + f)
    <3> HIDE DEF p, f
    <3>1. out.tokens + call.budget <= RECALL_RESULT_BUDGET_TOKENS + p
      BY <2>1 DEF p
    <3> QED
      BY <3>1, <2>2, <2>3, NatConstants
  <2> QED
    BY <2>2, <2>4, <1>1, <1>5, <1>7
<1>11. \A r \in DOMAIN call'.rest :
         call'.rest[r] = [rows |-> call'.found[Reached' + r], budget |-> RECALL_FOREIGN_BUDGET_TOKENS]
  <2> SUFFICES ASSUME NEW r \in 1..l - 1
               PROVE  Tail(call.rest)[r] = [rows |-> call.found[(r0 + 1) + r],
                                            budget |-> RECALL_FOREIGN_BUDGET_TOKENS]
    BY <1>1, <1>4, <1>5
  <2>1. r + 1 \in 1..l /\ r0 + (r + 1) = (r0 + 1) + r
    BY <1>4, <1>7
  <2>2. Tail(call.rest)[r] = call.rest[r + 1]
    BY <1>4
  <2>3. call.rest[r + 1] = [rows |-> call.found[r0 + (r + 1)], budget |-> RECALL_FOREIGN_BUDGET_TOKENS]
    BY <2>1, <1>6
  <2> QED
    BY <2>1, <2>2, <2>3
<1>12. ASSUME NEW m \in 1..r0 + 1, Payable(m)
       PROVE  \/ HeardIn(m, out.kept)
              \/ /\ m = r0 + 1
                 /\ \E i \in DOMAIN call'.todo : Cost(call'.todo[i]) <= RECALL_FOREIGN_BUDGET_TOKENS
  <2>1. CASE m = r0 + 1
    BY <2>1, <1>7, <1>12 DEF Payable
  <2>2. CASE m # r0 + 1
    <3>1. m \in 1..r0
      BY <2>2, <1>7
    <3>2. DOMAIN call.todo = {}
      BY <1>1
    <3> QED
      BY <3>1, <3>2, <1>3, <1>12 DEF Visiting, r0
  <2> QED
    BY <2>1, <2>2
<1>13. \A i \in DOMAIN call'.todo : call'.todo[i].from = r0 + 1
  BY <1>3, <1>4, <1>7
<1>14. Visiting'
  <2>1. \A m \in 1..Reached' : Payable(m)' =>
          \/ HeardIn(m, out'.kept)
          \/ /\ m = Reached' /\ call'.budget = RECALL_FOREIGN_BUDGET_TOKENS
             /\ \E i \in DOMAIN call'.todo : Cost(call'.todo[i]) <= RECALL_FOREIGN_BUDGET_TOKENS
    BY <1>1, <1>5, <1>7, <1>8, <1>12
  <2> QED
    BY <2>1, <1>5, <1>9, <1>10, <1>11, <1>13 DEF Visiting
<1>15. Asking'
  BY <1>1, <1>3, <1>14 DEF Asking, Rendering
<1>16. Choosing'
  BY <1>1, <1>2 DEF Delivery, Choosing
<1>17. LayersWithin'
  BY <1>1 DEF Delivery, LayersWithin
<1> QED
  BY <1>1, <1>2, <1>15, <1>16, <1>17
     DEF Delivery, CutWithin, PortraitFirst, NothingSkipped, Answered, Exit, Rendering

LEMMA StartRenderDelivers ==
  ASSUME IInv, Delivery, StartRender
  PROVE  Delivery'
<1> DEFINE rows == out.kept \o call.after
<1>1. /\ \/ call.phase = "select" /\ call.todo = <<>> /\ call.rest = <<>>
         \/ call.phase = "price" /\ cut.bodies = <<>> /\ call.exit = "source"
      /\ call'.exit = call.exit /\ call'.phase = "render" /\ call'.found = call.found
      /\ call'.after = call.after /\ call'.todo = rows /\ call'.offered = rows
      /\ call'.budget = RenderBudget(call.exit)
      /\ out'.kept = <<>> /\ derived' = derived
  <2>1. Nothing.kept = <<>>
    BY DEF Nothing
  <2> QED
    BY <2>1, StartRenderIs
<1>2. call.after \in Seq(Row) /\ out.kept \in Seq(Row) /\ out.tokens \in Nat /\ call.budget \in Nat
  BY Types DEF IInv, Calls, Outs
<1>3. /\ rows \in Seq(Row)
      /\ \A i \in DOMAIN out.kept : i \in DOMAIN rows /\ rows[i] = out.kept[i]
      /\ out.kept # <<>> => rows # <<>> /\ Head(rows) = out.kept[1]
  BY <1>2, JoinBegins
<1> HIDE DEF rows
<1>4. ASSUME call.phase = "price", cut.bodies = <<>>, call.exit = "source" PROVE Answered'
  <2>1. out.kept # <<>> /\ EachWithin(out.kept, RecallPacketBudget)
    BY <1>4 DEF Delivery, CutWithin
  <2>2. Cost(out.kept[1]) <= RecallPacketBudget
    <3>1. 1 \in DOMAIN out.kept
      BY <2>1, <1>2, EmptySeq
    <3> QED
      BY <3>1, <2>1 DEF EachWithin
  <2>3. call'.todo # <<>> /\ Head(call'.todo) = out.kept[1]
    BY <1>1, <1>3, <2>1
  <2>4. call'.budget = RecallPacketBudget
    BY <1>1, <1>4 DEF RenderBudget
  <2> QED
    BY <2>2, <2>3, <2>4, <1>1 DEF Answered
<1>5. Answered'
  <2>1. CASE call.phase = "select"
    <3>1. call.exit # "source"
      BY <2>1 DEF Delivery, Choosing
    <3> QED
      BY <3>1, <1>1 DEF Answered
  <2> QED
    BY <2>1, <1>1, <1>4
<1>6. PortraitFirst'
  <2> DEFINE portrait == derived["personal"]
  <2> SUFFICES ASSUME call.exit = "inject", portrait # <<>> PROVE FirstOf(portrait[1])'
    BY <1>1 DEF PortraitFirst, Exit
  <2>1. call.phase = "select" /\ call.todo = <<>>
    BY <1>1
  <2>2. out.kept # <<>> /\ out.kept[1] = portrait[1]
    BY <2>1 DEF Delivery, PortraitFirst, Exit, FirstOf
  <2>3. Cost(portrait[1]) <= PERSONA_MAX_TOKENS
    <3>1. portrait \in Seq(Row)
      BY CeilingIs, Types DEF IInv
    <3>2. 1 \in DOMAIN portrait
      BY <3>1, EmptySeq
    <3> QED
      BY <3>2, CeilingIs DEF Delivery, LayersWithin, EachWithin
  <2>4. Cost(portrait[1]) \in Nat /\ PERSONA_MAX_TOKENS <= INJECT_BODY_BUDGET_TOKENS
    <3>1. portrait \in Seq(Row)
      BY CeilingIs, Types DEF IInv
    <3>2. portrait[1] \in Row
      BY <3>1, EmptySeq
    <3>3. ROLLUP_MAX_SCENARIOS * SCENARIO_MAX_TOKENS \in Nat
      BY NatConstants
    <3> QED
      BY <3>2, <3>3, CostCoversChars, NatConstants, DerivedFitsGuard DEF WorstDerived
  <2>5. call'.budget = INJECT_BODY_BUDGET_TOKENS
    BY <1>1 DEF RenderBudget
  <2>6. Cost(portrait[1]) <= call'.budget
    BY <2>3, <2>4, <2>5, NatConstants
  <2>7. out'.kept = <<>> /\ call'.todo # <<>> /\ Head(call'.todo) = portrait[1]
    BY <2>2, <1>1, <1>3
  <2>8. portrait' = portrait
    BY <1>1
  <2> HIDE DEF portrait
  <2> QED
    BY <2>6, <2>7, <2>8 DEF FirstOf, Cost, RenderEntry
<1>7. Asking'
  <2> SUFFICES ASSUME call.exit = "recall" PROVE Asking'
    BY <1>1 DEF Asking, Exit
  <2>1. call.phase = "select" /\ call.todo = <<>> /\ call.rest = <<>>
    BY <1>1
  <2>2. /\ Visiting /\ call.after = <<>> /\ Len(call.found) <= GROUP_MAX_MEMBERS
        /\ \A m \in DOMAIN call.found : \A i \in DOMAIN call.found[m] : call.found[m][i].from = m
    BY <2>1 DEF Delivery, Asking, Exit
  <2>3. DOMAIN call.found = 1..Reached
    <3>1. call.found \in Seq(Seq(Row)) /\ Len(call.rest) = 0
      BY <2>1, Types DEF IInv, Calls
    <3> QED
      BY <3>1 DEF Reached
  <2>4. ASSUME NEW m \in DOMAIN call.found, Payable(m) PROVE HeardIn(m, rows)
    <3>1. HeardIn(m, out.kept)
      <4>1. DOMAIN call.todo = {}
        BY <2>1
      <4> QED
        BY <4>1, <2>2, <2>3, <2>4 DEF Visiting
    <3> QED
      BY <3>1, <1>3 DEF HeardIn
  <2>5. \A m : Payable(m)' <=> Payable(m)
    BY <1>1 DEF Payable
  <2> QED
    BY <2>2, <2>4, <2>5, <1>1 DEF Asking, Rendering
<1>8. NothingSkipped'
  <2> SUFFICES ASSUME call.exit = "recall" \/ (call.exit = "inject" /\ derived["repo"] # <<>>)
               PROVE  /\ <<>> \o rows = rows
                      /\ Affordable(rows, RenderBudget(call.exit))
                      /\ call.exit = "inject" => EndsWith(rows, derived["repo"])
    BY <1>1 DEF NothingSkipped, Rendering, EndsWith
  <2>1. call.phase = "select" /\ call.rest = <<>>
    BY <1>1
  <2>2. Affordable(out.kept, out.tokens)
    BY <2>1 DEF Delivery, Choosing
  <2>3. <<>> \o rows = rows
    BY <1>3, ConcatEmptySeq
  <2>4. ASSUME call.exit = "recall" PROVE Affordable(rows, RenderBudget(call.exit))
    <3>1. Visiting /\ call.after = <<>> /\ Len(call.found) <= GROUP_MAX_MEMBERS
      BY <2>1, <2>4 DEF Delivery, Asking, Exit
    <3>2. rows = out.kept
      BY <3>1, <1>2, ConcatEmptySeq DEF rows
    <3>3. Reached \in Nat /\ Reached <= GROUP_MAX_MEMBERS
      <4>1. Len(call.found) \in Nat /\ Len(call.rest) = 0
        BY <2>1, Types DEF IInv, Calls
      <4> QED
        BY <4>1, <3>1 DEF Reached
    <3> DEFINE f == RECALL_FOREIGN_BUDGET_TOKENS
    <3>4. Reached * f \in Nat /\ GROUP_MAX_MEMBERS * f \in Nat
          /\ Reached * f <= GROUP_MAX_MEMBERS * f
      <4>1. (GROUP_MAX_MEMBERS - Reached) * f \in Nat
        BY <3>3, NatConstants
      <4>2. (GROUP_MAX_MEMBERS - Reached) * f = GROUP_MAX_MEMBERS * f - Reached * f
        BY <3>3, NatConstants
      <4>3. Reached * f \in Nat /\ GROUP_MAX_MEMBERS * f \in Nat
        BY <3>3, NatConstants
      <4> QED
        BY <4>1, <4>2, <4>3
    <3>5. out.tokens + call.budget <= RECALL_RESULT_BUDGET_TOKENS + Reached * f
      BY <3>1 DEF Visiting
    <3>6. out.tokens <= RecallPacketBudget /\ RecallPacketBudget \in Nat
      <4> DEFINE x == Reached * f
                 y == GROUP_MAX_MEMBERS * f
      <4>1. RecallPacketBudget = RECALL_RESULT_BUDGET_TOKENS + y
        BY DEF RecallPacketBudget
      <4>2. x \in Nat /\ y \in Nat /\ x <= y
            /\ out.tokens + call.budget <= RECALL_RESULT_BUDGET_TOKENS + x
        BY <3>4, <3>5
      <4> HIDE DEF x, y
      <4> QED
        BY <4>1, <4>2, <1>2, NatConstants
    <3>7. RenderBudget(call.exit) = RecallPacketBudget
      BY <2>4 DEF RenderBudget
    <3> QED
      BY <3>2, <3>6, <3>7, <2>2, <1>2, BiggerBudget
  <2>5. ASSUME call.exit = "inject", derived["repo"] # <<>>
        PROVE  Affordable(rows, RenderBudget(call.exit)) /\ EndsWith(rows, derived["repo"])
    <3> DEFINE last == derived["repo"]
               both == ROLLUP_MAX_SCENARIOS * SCENARIO_MAX_TOKENS
    <3>1. call.after = last /\ out.tokens + call.budget <= PERSONA_MAX_TOKENS
      BY <2>1, <2>5 DEF Delivery, Choosing
    <3>2. last \in Seq(Row) /\ Len(last) <= ROLLUP_MAX_SCENARIOS
          /\ EachWithin(last, SCENARIO_MAX_TOKENS)
      BY CeilingIs, Types DEF IInv, Delivery, LayersWithin
    <3>3. both \in Nat
      BY NatConstants
    <3>4. Affordable(last, both)
      BY <3>2, NatConstants, SoManyOfThese
    <3>5. WorstDerived = PERSONA_MAX_TOKENS + both /\ WorstDerived <= INJECT_BODY_BUDGET_TOKENS
      BY DerivedFitsGuard DEF WorstDerived
    <3> HIDE DEF last, both
    <3>6. Affordable(rows, out.tokens + both)
      BY <3>1, <3>2, <3>3, <3>4, <2>2, <1>2, AllOfTwo DEF rows
    <3>7. out.tokens + both <= INJECT_BODY_BUDGET_TOKENS /\ out.tokens + both \in Nat
      BY <3>1, <3>3, <3>5, <1>2, NatConstants
    <3>8. RenderBudget(call.exit) = INJECT_BODY_BUDGET_TOKENS
      BY <2>5 DEF RenderBudget
    <3>9. EndsWith(rows, last)
      BY <3>1, <3>2, <1>2, JoinEnds DEF rows
    <3> QED
      BY <3>6, <3>7, <3>8, <3>9, <1>3, NatConstants, BiggerBudget DEF last
  <2> QED
    BY <2>3, <2>4, <2>5
<1>9. LayersWithin' /\ CutWithin' /\ Choosing'
  BY <1>1 DEF Delivery, LayersWithin, CutWithin, Choosing
<1> QED
  BY <1>5, <1>6, <1>7, <1>8, <1>9 DEF Delivery

LEMMA RenderedDelivers ==
  ASSUME IInv, Delivery, Rendered
  PROVE  Delivery'
<1>1. DOMAIN call = {"exit", "phase", "side", "found", "todo", "budget", "rest", "after", "offered"}
  BY SelectionIs DEF Calls
<1>2. call.phase = "render" /\ call.todo = <<>> /\ UNCHANGED <<derived, out>>
      /\ call' = [call EXCEPT !.phase = "done"]
  BY DEF Rendered, At
<1>3. /\ call'.phase = "done" /\ call'.exit = call.exit /\ call'.found = call.found
      /\ call'.after = call.after /\ call'.todo = call.todo /\ call'.offered = call.offered
      /\ call'.budget = call.budget
  BY <1>1, <1>2
<1>4. Answered'
  BY <1>2, <1>3 DEF Delivery, Answered, Rendering
<1>5. PortraitFirst'
  BY <1>2, <1>3 DEF Delivery, PortraitFirst, Exit, FirstOf
<1>6. Asking'
  <2>1. \A m : Payable(m)' <=> Payable(m)
    BY <1>3 DEF Payable
  <2> QED
    BY <2>1, <1>2, <1>3 DEF Delivery, Asking, Exit, Rendering
<1>7. NothingSkipped'
  BY <1>2, <1>3 DEF Delivery, NothingSkipped, Rendering
<1>8. LayersWithin' /\ CutWithin' /\ Choosing'
  BY <1>2, <1>3 DEF Delivery, LayersWithin, CutWithin, Choosing
<1> QED
  BY <1>4, <1>5, <1>6, <1>7, <1>8 DEF Delivery

LEMMA DeliverDelivers ==
  ASSUME IInv, Delivery, Deliver
  PROVE  Delivery'
<1>1. derived' = derived /\ call' = NoCall
  BY DEF Deliver
<1>2. LayersWithin'
  BY <1>1 DEF Delivery, LayersWithin
<1> QED
  BY <1>1, <1>2, EmptyIs, IdleDelivers

LEMMA NextDelivers == IInv /\ Delivery /\ [Next]_vars => Delivery'
<1> SUFFICES ASSUME IInv, Delivery, [Next]_vars PROVE Delivery'
  OBVIOUS
<1>1. ASSUME UNCHANGED vars PROVE Delivery'
  BY <1>1 DEF vars, Delivery, LayersWithin, CutWithin, PortraitFirst, Choosing, Asking, Visiting,
              NothingSkipped, Answered, FirstOf, Payable, Reached, Exit, Rendering
<1>2. ASSUME NEW side \in Sides, RawWrite(side) \/ Rebuild(side) PROVE Delivery'
  BY <1>2, RawWriteDelivers, RebuildDelivers
<1>3. ASSUME AskSource \/ Inject \/ Recall PROVE Delivery'
  BY <1>3, AskSourceDelivers, InjectDelivers, RecallDelivers
<1>4. ASSUME Uncut \/ StartSearch \/ Search \/ EndSearch \/ StoreLayer PROVE Delivery'
  BY <1>4, UncutDelivers, StartSearchDelivers, SearchDelivers, EndSearchDelivers, StoreLayerDelivers
<1>5. ASSUME Keep \/ Skip \/ NextSection \/ StartRender \/ Rendered \/ Deliver PROVE Delivery'
  BY <1>5, KeepDelivers, SkipDelivers, NextSectionDelivers, StartRenderDelivers, RenderedDelivers,
     DeliverDelivers
<1> QED
  BY <1>1, <1>2, <1>3, <1>4, <1>5 DEF Next

(* What is stored and chosen is paid for, all the way to the model.         *)
THEOREM DeliveryHolds == Spec => []Delivery
<1>1. Init => IInv /\ Delivery
  BY InitHolds, InitDelivers
<1>2. IInv /\ Delivery /\ [Next]_vars => IInv' /\ Delivery'
  BY NextKeeps, NextDelivers
<1> QED
  BY <1>1, <1>2, PTL DEF Spec

(* The portrait and every scenario of the repository are delivered whole,   *)
(* whatever the budgets, the personal rows and the lengths are.            *)
THEOREM LayersDelivered == Spec => []DerivedLayerDelivered
<1>1. ASSUME IInv, Delivery, call.phase = "done", call.exit = "inject"
      PROVE  LET n == Len(out.kept)
                 m == Len(derived["repo"])
             IN  /\ derived["personal"] # <<>> => n > 0 /\ out.kept[1] = derived["personal"][1]
                 /\ n >= m /\ SubSeq(out.kept, n - m + 1, n) = derived["repo"]
  <2> DEFINE n == Len(out.kept)
             m == Len(derived["repo"])
  <2>1. call.todo = <<>>
    BY <1>1 DEF Delivery, Answered, Rendering
  <2>2. out.kept \in Seq(Row) /\ n \in Nat /\ derived["repo"] \in Seq(Row)
    BY <1>1, CeilingIs, Types, SelectionIs DEF IInv
  <2>3. derived["personal"] # <<>> => n > 0 /\ out.kept[1] = derived["personal"][1]
    BY <2>1, <2>2, <1>1, EmptySeq DEF Delivery, PortraitFirst, Exit, FirstOf
  <2>4. n >= m /\ SubSeq(out.kept, n - m + 1, n) = derived["repo"]
    <3>1. CASE derived["repo"] = <<>>
      <4>1. m = 0 /\ n - m + 1 = n + 1
        BY <3>1, <2>2
      <4>2. SubSeq(out.kept, n + 1, n) = <<>>
        BY <2>2, SubSeqEmpty
      <4> QED
        BY <3>1, <4>1, <4>2, <2>2
    <3>2. CASE derived["repo"] # <<>>
      <4>1. out.kept \o call.todo = call.offered /\ EndsWith(call.offered, derived["repo"])
        BY <3>2, <1>1 DEF Delivery, NothingSkipped, Rendering
      <4>2. call.offered = out.kept
        BY <4>1, <2>1, <2>2, ConcatEmptySeq
      <4>3. m \in Nat /\ m <= n
        BY <4>1, <4>2, <2>2 DEF EndsWith
      <4> QED
        BY <4>1, <4>2, <4>3, <2>2 DEF EndsWith
    <3> QED
      BY <3>1, <3>2
  <2> QED
    BY <2>3, <2>4
<1>2. IInv /\ Delivery => DerivedLayerDelivered
  BY <1>1 DEF DerivedLayerDelivered, At
<1> QED
  BY <1>2, Invariance, DeliveryHolds, PTL

(* Nothing that was selected for a recall is dropped when it is rendered,    *)
(* every member that can pay for a row is heard, and a source that was     *)
(* found is shown, for any number of members and rows.                     *)
THEOREM FoundIsHeard == Spec => []WhatIsFoundIsHeard
<1>1. ASSUME IInv, Delivery, call.phase = "done", call.exit = "recall"
      PROVE  /\ out.kept = call.offered
             /\ \A m \in DOMAIN call.found : Payable(m) => HeardIn(m, out.kept)
  <2>1. call.todo = <<>> /\ out.kept \o call.todo = call.offered /\ out.kept \in Seq(Row)
    BY <1>1, SelectionIs DEF Delivery, Answered, NothingSkipped, Rendering
  <2>2. out.kept = call.offered
    BY <2>1, ConcatEmptySeq
  <2>3. \A m \in DOMAIN call.found : Payable(m) => HeardIn(m, call.offered)
    BY <1>1 DEF Delivery, Asking, Exit, Rendering
  <2> QED
    BY <2>2, <2>3
<1>2. ASSUME IInv, Delivery, call.phase = "done", call.exit = "source"
      PROVE  out.kept # <<>>
  BY <1>2 DEF Delivery, Answered, Rendering
<1>3. IInv /\ Delivery => WhatIsFoundIsHeard
  BY <1>1, <1>2 DEF WhatIsFoundIsHeard, At, Payable, HeardIn
<1> QED
  BY <1>3, Invariance, DeliveryHolds, PTL
=============================================================================
