------------------------------- MODULE Packet -------------------------------
(***************************************************************************)
(* What a stored memory costs, and which of the found ones a model is      *)
(* shown: the two exits of stored text (recall/inject.ts and the recall    *)
(* tool over recall/render.ts) and the cut that makes a generated summary  *)
(* fit what the injection will pay for it (pipeline/rebuild.ts).           *)
(*                                                                         *)
(* A row is the number of characters it renders to and where it came from. *)
(* One exit is served at a time: each of them runs synchronously, except   *)
(* that recall awaits the members of the group between two selections and  *)
(* carries nothing across but the rows already chosen.                     *)
(***************************************************************************)
EXTENDS Naturals, Sequences

CONSTANTS
  INJECT_BODY_BUDGET_TOKENS, INJECT_PACKET_BUDGET_TOKENS, INJECT_TOP_N,
  PERSONA_MAX_TOKENS, SCENARIO_MAX_TOKENS, ROLLUP_MAX_SCENARIOS,
  RECALL_RESULT_BUDGET_TOKENS, RECALL_FOREIGN_BUDGET_TOKENS, GROUP_MAX_MEMBERS,
  FramingHeader,   \* characters of FRAMING_HEADER
  SourceLabel,     \* characters of a `(from ...)` label
  TruncationMark,  \* characters of TRUNCATION_MARK
  Shell,           \* characters an entry renders to around its body
  Lengths,         \* what raw memories render to, without a label
  Bodies,          \* replies of the model: see Body
  MaxFound         \* bound: rows one store returns to a recall

\* A body is a sequence: entry k is what its first k code points render to (a newline to three
\* characters, a surrogate pair to two).
BodyChars(b, k) == IF k = 0 THEN 0 ELSE b[k]

Min2(a, b) == IF a < b THEN a ELSE b

(* Mutant: four characters are a token, and a remainder is free.           *)
RoundedDown(chars) == chars \div 4
EstimateTokens(chars) == (chars + 3) \div 4

\* `from` is 0 for the session's own stores, or the position of a member.
Row == [len : Nat, from : 0..GROUP_MAX_MEMBERS]

RenderEntry(row) == row.len + IF row.from = 0 THEN 0 ELSE SourceLabel

Cost(row) == EstimateTokens(RenderEntry(row))

-----------------------------------------------------------------------------
(* The guards that run when the modules load: a plugin whose constants     *)
(* break one does not start.                                               *)

CheapestEntry == EstimateTokens(Shell + 1)

\* [header, '', ...lines].join('\n') of n entries with so many characters between them.
PacketChars(n, chars) == IF n = 0 THEN 0 ELSE FramingHeader + 2 + chars + (n - 1)

SideCount(budget) == Min2(INJECT_TOP_N, budget \div CheapestEntry)

\* Either shape is filled to four characters a token.
WorstDerived == PERSONA_MAX_TOKENS + ROLLUP_MAX_SCENARIOS * SCENARIO_MAX_TOKENS
WorstPacketTokens ==
  LET fallback == PacketChars(SideCount(PERSONA_MAX_TOKENS)
                                + SideCount(INJECT_BODY_BUDGET_TOKENS - PERSONA_MAX_TOKENS),
                              4 * INJECT_BODY_BUDGET_TOKENS)
      derived == PacketChars(ROLLUP_MAX_SCENARIOS + 1, 4 * WorstDerived)
  IN  EstimateTokens(IF fallback < derived THEN derived ELSE fallback)

ASSUME ConstantsAssumption ==
  /\ {INJECT_BODY_BUDGET_TOKENS, INJECT_PACKET_BUDGET_TOKENS, INJECT_TOP_N, PERSONA_MAX_TOKENS,
      SCENARIO_MAX_TOKENS, ROLLUP_MAX_SCENARIOS, RECALL_RESULT_BUDGET_TOKENS,
      RECALL_FOREIGN_BUDGET_TOKENS, GROUP_MAX_MEMBERS, FramingHeader, SourceLabel,
      TruncationMark, Shell, MaxFound} \subseteq Nat
  /\ Lengths \subseteq {n \in Nat : n > Shell}
ASSUME BodiesAssumption ==
  /\ Bodies \subseteq Seq(Nat)
  /\ \A b \in Bodies : \A j, k \in 0..Len(b) : j < k => BodyChars(b, j) < BodyChars(b, k)
ASSUME DerivedFitsGuard == WorstDerived <= INJECT_BODY_BUDGET_TOKENS
ASSUME WindowGuard == ROLLUP_MAX_SCENARIOS + 1 <= INJECT_TOP_N
ASSUME InjectGuard == WorstPacketTokens <= INJECT_PACKET_BUDGET_TOKENS
\* Not checked by the code, and true of its constants: without it the guard miscounts entries.
ASSUME WindowIsAffordable ==
  /\ INJECT_TOP_N * CheapestEntry <= PERSONA_MAX_TOKENS
  /\ INJECT_TOP_N * CheapestEntry <= INJECT_BODY_BUDGET_TOKENS - PERSONA_MAX_TOKENS

(* Mutant: the tool renders with the budget of one repository.             *)
HomeBudgetOnly == RECALL_RESULT_BUDGET_TOKENS
RecallPacketBudget == RECALL_RESULT_BUDGET_TOKENS + GROUP_MAX_MEMBERS * RECALL_FOREIGN_BUDGET_TOKENS
ASSUME QuoteGuard == EstimateTokens(Shell + TruncationMark) <= RecallPacketBudget

-----------------------------------------------------------------------------
VARIABLES derived,   \* [Sides -> Seq(Row)]: the stored summaries, the portrait or the scenarios
          call,      \* the exit being served
          out,       \* the rows kept so far, their characters and their price
          cut        \* the bodies being cut
vars == <<derived, call, out, cut>>

Sides == {"personal", "repo"}
\* A selection to be made: rows in priority order, and what may be spent on them.
Section == [rows : Seq(Row), budget : Nat]

NoCall == [exit |-> "none", phase |-> "idle", side |-> "repo", found |-> <<>>, todo |-> <<>>,
           budget |-> 0, rest |-> <<>>, after |-> <<>>, offered |-> <<>>]
Nothing == [kept |-> <<>>, chars |-> 0, tokens |-> 0]
NoCut == [bodies |-> <<>>, limit |-> 0, low |-> 0, high |-> 0]

Init == /\ derived = [s \in Sides |-> <<>>]
        /\ call = NoCall
        /\ out = Nothing
        /\ cut = NoCut

At(phase) == call.phase = phase
AtMost(S, n) == UNION {[1..k -> S] : k \in 0..n}
Here == {[len |-> n, from |-> 0] : n \in Lengths}
From(m) == {[len |-> n, from |-> m] : n \in Lengths}

-----------------------------------------------------------------------------
(* The stores: a write to the source set drops the summaries (schema v12).  *)

RawWrite(side) == /\ At("idle") /\ derived[side] # <<>>
                  /\ derived' = [derived EXCEPT ![side] = <<>>]
                  /\ UNCHANGED <<call, out, cut>>

MostBlocks(side) == IF side = "personal" THEN 1 ELSE ROLLUP_MAX_SCENARIOS

(* Mutant: every block of the reply is taken.                               *)
EveryBlock(side, replies) == replies
\* `.slice(0, ROLLUP_MAX_SCENARIOS)`; a portrait reply carries one body.
Blocks(side, replies) == SubSeq(replies, 1, Min2(Len(replies), MostBlocks(side)))

Ceiling(side) == IF side = "personal" THEN PERSONA_MAX_TOKENS ELSE SCENARIO_MAX_TOKENS

StartCutting(exit, side, bodies, limit) ==
  /\ At("idle")
  /\ call' = [NoCall EXCEPT !.exit = exit, !.side = side, !.phase = "price"]
  /\ cut' = [bodies |-> bodies, limit |-> limit, low |-> 0, high |-> 0]
  /\ UNCHANGED <<derived, out>>

\* The reply of a rebuild job is parsed and stored in one piece.
Rebuild(side) == \E replies \in AtMost(Bodies, ROLLUP_MAX_SCENARIOS + 1) :
  /\ replies # <<>> /\ (side = "personal" => Len(replies) = 1)
  /\ StartCutting("rebuild", side, Blocks(side, replies), Ceiling(side))

\* The drill-down into a memory's source: a quotation, or turns of the conversation.
AskSource == \E turns \in AtMost(Bodies, 2) :
  turns # <<>> /\ StartCutting("source", "repo", turns, RecallPacketBudget)

-----------------------------------------------------------------------------
(* truncatedToBudget, for the first of the bodies.                         *)

Whole == Head(cut.bodies)
Fits(k) == EstimateTokens(Shell + BodyChars(Whole, k) + TruncationMark) <= cut.limit

\* A row made is a row kept until it is stored, or handed to the renderer.
Make(len) == out' = [out EXCEPT !.kept = Append(@, [len |-> len, from |-> 0])]

NextBody == /\ cut' = [cut EXCEPT !.bodies = Tail(@), !.low = 0, !.high = 0]
            /\ call' = [call EXCEPT !.phase = "price"]

Uncut == /\ At("price") /\ cut.bodies # <<>>
         /\ EstimateTokens(Shell + BodyChars(Whole, Len(Whole))) <= cut.limit
         /\ Make(Shell + BodyChars(Whole, Len(Whole)))
         /\ NextBody
         /\ UNCHANGED derived

StartSearch == /\ At("price") /\ cut.bodies # <<>>
               /\ EstimateTokens(Shell + BodyChars(Whole, Len(Whole))) > cut.limit
               /\ cut' = [cut EXCEPT !.low = 0, !.high = Len(Whole)]
               /\ call' = [call EXCEPT !.phase = "search"]
               /\ UNCHANGED <<derived, out>>

(* Mutant: the search looks for the first prefix that does not fit.        *)
HalvePast(mid) == IF Fits(mid) THEN <<Min2(mid + 1, cut.high), cut.high>> ELSE <<cut.low, mid - 1>>
Halve(mid) == IF Fits(mid) THEN <<mid, cut.high>> ELSE <<cut.low, mid - 1>>

Search == /\ At("search") /\ cut.low < cut.high
          /\ LET half == Halve((cut.low + cut.high + 1) \div 2)
             IN  cut' = [cut EXCEPT !.low = half[1], !.high = half[2]]
          /\ UNCHANGED <<derived, call, out>>

\* When not even the mark fits, nothing is made of the body.
EndSearch == /\ At("search") /\ cut.low = cut.high
             /\ IF Fits(cut.low) THEN Make(Shell + BodyChars(Whole, cut.low) + TruncationMark)
                ELSE UNCHANGED out
             /\ NextBody
             /\ UNCHANGED derived

\* An empty result throws to the job's retry exit and stores nothing.
StoreLayer == /\ At("price") /\ cut.bodies = <<>> /\ call.exit = "rebuild"
              /\ derived' = [derived EXCEPT ![call.side] = IF out.kept = <<>> THEN @ ELSE out.kept]
              /\ call' = NoCall /\ out' = Nothing /\ cut' = NoCut

-----------------------------------------------------------------------------
(* withinBudget and the two exits that use it.                             *)

\* The derived rows of a side, or its raw ones when there are none.
InjectionRows(side, raw) ==
  IF derived[side] # <<>> THEN SubSeq(derived[side], 1, Min2(Len(derived[side]), INJECT_TOP_N))
  ELSE raw

Raw(side) == IF derived[side] # <<>> THEN {<<>>} ELSE AtMost(Here, INJECT_TOP_N)

(* Mutant: the personal side may spend the packet.                         *)
NoPersonalCap == INJECT_BODY_BUDGET_TOKENS
PersonalCap == PERSONA_MAX_TOKENS

\* The provider of the context; a store that is not open has no rows.
Inject == /\ At("idle")
          /\ \E mine \in Raw("personal"), ours \in Raw("repo") :
               call' = [NoCall EXCEPT !.exit = "inject", !.phase = "select",
                          !.todo = InjectionRows("personal", mine), !.budget = PersonalCap,
                          !.after = InjectionRows("repo", ours)]
          /\ UNCHANGED <<derived, out, cut>>

\* recall: the session's own stores, then every member in the order of the declaration.
Recall == /\ At("idle")
          /\ \E home \in AtMost(Here, MaxFound), k \in 0..GROUP_MAX_MEMBERS :
             \E others \in [1..k -> UNION {AtMost(From(m), MaxFound) : m \in 1..k}] :
               /\ \A m \in 1..k : others[m] \in AtMost(From(m), MaxFound)
               /\ call' = [NoCall EXCEPT !.exit = "recall", !.phase = "select", !.todo = home,
                             !.budget = RECALL_RESULT_BUDGET_TOKENS,
                             !.rest = [m \in 1..k |-> [rows |-> others[m],
                                                       budget |-> RECALL_FOREIGN_BUDGET_TOKENS]],
                             !.found = others]
          /\ UNCHANGED <<derived, out, cut>>

Selecting == At("select") \/ At("render")

Keep == /\ Selecting /\ call.todo # <<>>
        /\ LET row == Head(call.todo) IN
             /\ Cost(row) <= call.budget
             /\ out' = [kept |-> Append(out.kept, row), chars |-> out.chars + RenderEntry(row),
                        tokens |-> out.tokens + Cost(row)]
             /\ call' = [call EXCEPT !.todo = Tail(@), !.budget = @ - Cost(row)]
        /\ UNCHANGED <<derived, cut>>

\* A row that does not fit hides none of those behind it.
Skip == /\ Selecting /\ call.todo # <<>>
        /\ Cost(Head(call.todo)) > call.budget
        /\ call' = [call EXCEPT !.todo = Tail(@)]
        /\ UNCHANGED <<derived, out, cut>>

NextSection == /\ At("select") /\ call.todo = <<>> /\ call.rest # <<>>
               /\ call' = [call EXCEPT !.todo = Head(call.rest).rows,
                             !.budget = Head(call.rest).budget, !.rest = Tail(@)]
               /\ UNCHANGED <<derived, out, cut>>

RenderBudget(exit) == IF exit = "inject" THEN INJECT_BODY_BUDGET_TOKENS ELSE RecallPacketBudget

\* renderFramed selects again, from all that was chosen.
StartRender ==
  /\ \/ At("select") /\ call.todo = <<>> /\ call.rest = <<>>
     \/ At("price") /\ cut.bodies = <<>> /\ call.exit = "source"
  /\ call' = [call EXCEPT !.phase = "render", !.todo = out.kept \o call.after,
                !.offered = out.kept \o call.after, !.budget = RenderBudget(call.exit)]
  /\ out' = Nothing
  /\ UNCHANGED <<derived, cut>>

Rendered == /\ At("render") /\ call.todo = <<>>
            /\ call' = [call EXCEPT !.phase = "done"]
            /\ UNCHANGED <<derived, out, cut>>

\* The text is handed over; nothing is kept of it.
Deliver == /\ At("done")
           /\ call' = NoCall /\ out' = Nothing /\ cut' = NoCut
           /\ UNCHANGED derived

Next == \/ \E side \in Sides : RawWrite(side) \/ Rebuild(side)
        \/ AskSource \/ Inject \/ Recall
        \/ Uncut \/ StartSearch \/ Search \/ EndSearch \/ StoreLayer
        \/ Keep \/ Skip \/ NextSection \/ StartRender \/ Rendered \/ Deliver

Spec == Init /\ [][Next]_vars

-----------------------------------------------------------------------------
(* Properties. *)

(* Everything has its type; the layers hold one portrait and no more       *)
(* scenarios than a rebuild may store.                                     *)
TypeOK ==
  /\ derived \in [Sides -> Seq(Row)]
  /\ \A side \in Sides : Len(derived[side]) <= MostBlocks(side)
  /\ call \in [exit : {"none", "inject", "recall", "source", "rebuild"},
               phase : {"idle", "price", "search", "select", "render", "done"},
               side : Sides, found : Seq(Seq(Row)), todo : Seq(Row), budget : Nat,
               rest : Seq(Section), after : Seq(Row), offered : Seq(Row)]
  /\ out \in [kept : Seq(Row), chars : Nat, tokens : Nat]
  /\ cut \in [bodies : Seq(Bodies), limit : Nat, low : Nat, high : Nat]

(* Whatever the stores hold, the packet injected on a turn, with its        *)
(* header and the newlines between its entries, is no longer than the      *)
(* container: the guard that prices the worst packet when the plugin loads *)
(* prices every packet (inject.ts, worstPacketTokens).                     *)
InjectFits ==
  At("done") /\ call.exit = "inject"
    => EstimateTokens(PacketChars(Len(out.kept), out.chars)) <= INJECT_PACKET_BUDGET_TOKENS

(* What a rebuild stored, the next assembly delivers whole: the portrait,  *)
(* and every scenario of the repository, however much raw text the         *)
(* personal side falls back to (inject.ts, the personal cap; rebuild.ts,   *)
(* the cut in tokens).                                                     *)
DerivedLayerDelivered ==
  At("done") /\ call.exit = "inject" =>
    LET n == Len(out.kept)
        m == Len(derived["repo"])
    IN  /\ derived["personal"] # <<>> => n > 0 /\ out.kept[1] = derived["personal"][1]
        /\ n >= m /\ SubSeq(out.kept, n - m + 1, n) = derived["repo"]

(* The tool renders what the service admitted and drops none of it, and a   *)
(* member with a row its own budget can pay for is heard, however much the *)
(* others found.  A source that was found is never answered with nothing:   *)
(* an oversized quotation arrives cut and marked (service.ts recall;       *)
(* tools.ts, the guards of the two budgets and of the quotation, render).  *)
WhatIsFoundIsHeard ==
  At("done") =>
    /\ call.exit = "recall" =>
         /\ out.kept = call.offered
         /\ \A m \in DOMAIN call.found :
              (\E i \in DOMAIN call.found[m] : Cost(call.found[m][i]) <= RECALL_FOREIGN_BUDGET_TOKENS)
                => \E j \in DOMAIN out.kept : out.kept[j].from = m
    /\ call.exit = "source" => out.kept # <<>>

(* The cut keeps as much of a body as its ceiling pays for and no more, and *)
(* finds that point by halving although newlines and pairs make the price   *)
(* jump (render.ts, truncatedToBudget).                                    *)
CutIsLargest ==
  At("search") /\ cut.low = cut.high =>
    \A k \in 0..Len(Whole) : Fits(k) => k <= cut.low /\ Fits(cut.low)
=============================================================================
