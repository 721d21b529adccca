----------------------------- MODULE Provenance -----------------------------
(***************************************************************************)
(* How far a learned memory may be trusted: the events of a session        *)
(* (external: the platform's log) are classified and stored when a turn    *)
(* stops (transcript.ts, auto-extract.ts, store/conversations.ts); its     *)
(* extract job reads them, shows the model what fits, and gives what the   *)
(* model answers the least trust among the events it cites                 *)
(* (pipeline/extract.ts).                                                  *)
(*                                                                         *)
(* One session, and one candidate per reply: the candidates of a reply are *)
(* parsed one by one and share nothing.  Leases, forgets, retention and    *)
(* what becomes of a candidate are JobQueue's and Curation's.              *)
(***************************************************************************)
EXTENDS Naturals, Sequences, FiniteSets, Functions

CONSTANTS Turns,        \* 1..n
          Content,      \* the events the platform may log beside turn markers
          SUBAGENT_TOOL_NAMES,
          Replies,      \* what a candidate may cite: sequences of numbers
          WORST_SOURCE_SEQS,
          EXTRACT_TRANSCRIPT_CHARS, EXTRACT_EVENT_EXCERPT_CHARS,
          ENQUEUE_MIN_TURN_TOKENS,
          Wrapper,      \* characters of the empty payload
          Shell,        \* characters of a record around its text
          MaxEvents,    \* bound: length of the log
          NULL

\* An event: its type, who sent it or which tool it names, the call it belongs to, its length.
Types == {"user/message", "assistant/message", "tool/call", "tool/result", "other"}
ASSUME ContentAssumption ==
  \A e \in Content : /\ DOMAIN e = {"type", "name", "id", "chars"}
                     /\ e.type \in Types /\ e.chars \in Nat
ASSUME RepliesAssumption == Replies \subseteq Seq(Nat)
ASSUME NamesAssumption == "" \notin SUBAGENT_TOOL_NAMES
ASSUME CharsAssumption ==
  /\ {EXTRACT_TRANSCRIPT_CHARS, EXTRACT_EVENT_EXCERPT_CHARS, Wrapper, Shell, WORST_SOURCE_SEQS} \subseteq Nat
  /\ Wrapper <= EXTRACT_TRANSCRIPT_CHARS

PROVENANCE_PRIORITY == [p \in {"human", "parent-agent", "subagent", "tool-output"} |->
  CASE p = "human" -> 5 [] p = "parent-agent" -> 3 [] p = "subagent" -> 2 [] p = "tool-output" -> 1]
Provenances == DOMAIN PROVENANCE_PRIORITY

VARIABLES log,      \* the session's events so far; a position is a seq
          stored,   \* conversations: the rows of the session
          job,      \* the extract job of each turn
          read,     \* what the running job of a turn has read
          learned   \* what the turn's job has left: a candidate with its evidence
vars == <<log, stored, job, read, learned>>

Marker(type, t) == [type |-> type, name |-> "", id |-> t, chars |-> 0]
Start(t) == Marker("turn/start", t)
End(t) == Marker("turn/end", t)

Init == /\ log = <<>>
        /\ stored = {}
        /\ job = [t \in Turns |-> "none"]
        /\ read = [t \in Turns |-> {}]
        /\ learned = [t \in Turns |-> NULL]

-----------------------------------------------------------------------------
(* The platform. *)

Started(t) == Start(t) \in Range(log)
Now(t) == Started(t) /\ \A u \in Turns : Started(u) => u <= t

Calls(i) == {k \in 1..i-1 : log[k].type = "tool/call" /\ log[k].id = log[i].id}
\* An id serves one call at a time: it comes back when it has been answered, or in another turn.
Answerable(e, t) ==
  LET asked == {k \in DOMAIN log : log[k].type = "tool/call" /\ log[k].id = e.id} IN
  CASE e.type = "tool/call" ->
         \A k \in asked : \E j \in k+1..Len(log) :
            log[j] = Start(t) \/ (log[j].type = "tool/result" /\ log[j].id = e.id)
    [] e.type = "tool/result" -> asked # {}
    [] OTHER -> TRUE

Logged(e) == /\ Len(log) < MaxEvents
              /\ log' = Append(log, e)
              /\ UNCHANGED <<stored, job, read, learned>>

\* A turn may end by a crash: without its marker.
StartTurn(t) == /\ ~Started(t) /\ (\A u \in Turns : u < t => Started(u))
                /\ Logged(Start(t))
EndTurn(t) == /\ Now(t) /\ End(t) \notin Range(log)
              /\ Logged(End(t))
Log(e) == /\ \E t \in Turns : Now(t) /\ Answerable(e, t)
          /\ Logged(e)

-----------------------------------------------------------------------------
(* Capture. *)

\* collectTurnEvents: from the turn's start up to its end, or to another's start.
InTurn(t, i) ==
  /\ \A j \in 1..i-1 : log[j] # End(t)
  /\ \E j \in 1..i-1 : /\ log[j] = Start(t)
                       /\ \A k \in j+1..i : log[k].type # "turn/start"

Latest(S) == CHOOSE k \in S : \A j \in S : j <= k

(* Mutant: the calls of the turn are gathered first, then its results read. *)
NameOfLastCall(t, i) ==
  LET calls == {k \in DOMAIN log : log[k].type = "tool/call" /\ log[k].id = log[i].id /\ InTurn(t, k)}
  IN  IF calls = {} THEN "" ELSE log[Latest(calls)].name
\* The map holds the calls of this turn met so far; a later call of the same id replaces the name.
ToolNameOf(t, i) ==
  LET calls == {k \in Calls(i) : InTurn(t, k)}
  IN  IF calls = {} THEN "" ELSE log[Latest(calls)].name

Classify(e, tool) ==
  CASE e.type = "user/message" ->
         IF e.name = "user" THEN "human"
         ELSE IF e.name \in {"subagent-report", "subagent-settled"} THEN "subagent"
         ELSE "tool-output"
    [] e.type = "assistant/message" -> "parent-agent"
    [] e.type = "tool/call" -> "tool-output"
    [] e.type = "tool/result" -> IF tool \in SUBAGENT_TOOL_NAMES THEN "subagent" ELSE "tool-output"

Row(t, i) == [seq |-> i, turn |-> t, chars |-> log[i].chars,
              provenance |-> Classify(log[i], ToolNameOf(t, i))]
Recorded(t, i) == InTurn(t, i) /\ log[i].type \in Types \ {"other"} /\ log[i].chars > 0
CollectTurnEvents(t) == {Row(t, i) : i \in {j \in DOMAIN log : Recorded(t, j)}}

\* One row after another, in the order of the log.
OverRows(rows, Step(_, _), base) ==
  LET at(n) == {r \in rows : r.seq = n}
      upTo[n \in Nat] == IF n = 0 THEN base
                         ELSE IF at(n) = {} THEN upTo[n - 1]
                         ELSE Step(upTo[n - 1], CHOOSE r \in at(n) : TRUE)
  IN  upTo[Len(log)]

EstimateTokens(chars) == (chars + 3) \div 4
\* The gate counts what the person and the agent said.
TurnTokens(rows) ==
  OverRows({r \in rows : r.provenance \in {"human", "parent-agent"}},
           LAMBDA tokens, r : tokens + EstimateTokens(r.chars), 0)

\* ON CONFLICT DO NOTHING: what is stored of a seq stays.
Inserted(rows) == stored \cup {r \in rows : \A s \in stored : s.seq # r.seq}

\* The turn is stopping, perhaps not for the first time; `llm`: a model is available.
TurnStopping(t, llm) ==
  LET rows == CollectTurnEvents(t) IN
  /\ Started(t) /\ rows # {}
  /\ stored' = Inserted(rows)
  /\ job' = IF llm /\ TurnTokens(rows) >= ENQUEUE_MIN_TURN_TOKENS /\ job[t] \in {"none", "dead"}
              THEN [job EXCEPT ![t] = "open"] ELSE job
  /\ UNCHANGED <<log, read, learned>>

-----------------------------------------------------------------------------
(* The extract job. *)

RecordChars(row) ==
  Shell + IF row.chars > EXTRACT_EVENT_EXCERPT_CHARS THEN EXTRACT_EVENT_EXCERPT_CHARS + 1
          ELSE row.chars

(* Mutant: the first record that does not fit ends the transcript.          *)
SpendUntilFull(acc, row) ==
  LET cost == RecordChars(row) + IF acc.kept = {} THEN 0 ELSE 1 IN
  IF cost > acc.budget THEN [acc EXCEPT !.budget = 0]
  ELSE [kept |-> acc.kept \cup {row}, budget |-> acc.budget - cost]
\* A record is spent whole, with the comma before it, or skipped.
Spend(acc, row) ==
  LET cost == RecordChars(row) + IF acc.kept = {} THEN 0 ELSE 1 IN
  IF cost > acc.budget THEN acc
  ELSE [kept |-> acc.kept \cup {row}, budget |-> acc.budget - cost]

RenderTranscript(rows) ==
  OverRows(rows, Spend, [kept |-> {}, budget |-> EXTRACT_TRANSCRIPT_CHARS - Wrapper]).kept

ReadTurn(t) == {r \in stored : r.turn = t}

\* The job of turn t is claimed; nothing to show settles it without a call.
Claim(t) ==
  /\ job[t] = "open"
  /\ LET rows == ReadTurn(t) IN
       IF RenderTranscript(rows) = {}
         THEN job' = [job EXCEPT ![t] = "done"] /\ UNCHANGED read
         ELSE job' = [job EXCEPT ![t] = "asking"] /\ read' = [read EXCEPT ![t] = rows]
  /\ UNCHANGED <<log, stored, learned>>

(* Mutant: the list is not cut.                                             *)
CitedWhole(seqs) == Range(seqs)
\* Each number counts once, in the order of its first mention: what is cited is
\* the longest beginning of the list that holds few enough numbers.
Cited(seqs) ==
  LET upTo(i) == {seqs[j] : j \in 1..i}
  IN  {seqs[i] : i \in {j \in DOMAIN seqs : Cardinality(upTo(j)) <= WORST_SOURCE_SEQS}}

Known(seqs, rows) == {r \in rows : r.seq \in seqs}

Least(S) == CHOOSE p \in S : \A q \in S : PROVENANCE_PRIORITY[p] <= PROVENANCE_PRIORITY[q]

(* Mutant: a number that names no row of the turn is passed over, as in the excerpt. *)
ProvenanceOfKnown(seqs, rows) ==
  IF Known(seqs, rows) = {} THEN "tool-output" ELSE Least({r.provenance : r \in Known(seqs, rows)})
ProvenanceFor(seqs, rows) ==
  IF \A s \in seqs : \E r \in rows : r.seq = s
    THEN IF seqs = {} THEN "tool-output" ELSE Least({r.provenance : r \in Known(seqs, rows)})
    ELSE "tool-output"

\* What the reply cited is remembered beside the candidate (history).
Candidate(reply, rows) ==
  LET seqs == Cited(reply) IN
  [provenance |-> ProvenanceFor(seqs, rows),
   excerpt |-> {r.seq : r \in Known(seqs, rows)},
   reply |-> reply]

Commit(t) ==
  /\ job[t] = "asking"
  /\ job' = [job EXCEPT ![t] = "done"]
  /\ learned' \in {learned} \cup {[learned EXCEPT ![t] = Candidate(r, read[t])] : r \in Replies}
  /\ read' = [read EXCEPT ![t] = {}]
  /\ UNCHANGED <<log, stored>>

\* The call or its reply fails: the job waits again, or is given up on.
Fail(t) ==
  /\ job[t] = "asking"
  /\ \E st \in {"open", "dead"} : job' = [job EXCEPT ![t] = st]
  /\ read' = [read EXCEPT ![t] = {}]
  /\ UNCHANGED <<log, stored, learned>>

Next == \/ \E t \in Turns : \/ StartTurn(t) \/ EndTurn(t)
                            \/ \E llm \in BOOLEAN : TurnStopping(t, llm)
                            \/ Claim(t) \/ Commit(t) \/ Fail(t)
        \/ \E e \in Content : Log(e)

Spec == Init /\ [][Next]_vars

-----------------------------------------------------------------------------
(* Properties. *)

(* Everything has its type: a seq is stored once, and the evidence of a     *)
(* memory quotes few enough events, whatever its reply repeats (extract.ts, *)
(* filter, dedupe and cut).                                                *)
TypeOK ==
  /\ \A r \in stored : r.seq \in DOMAIN log /\ r.turn \in Turns /\ r.provenance \in Provenances
  /\ \A r, s \in stored : r.seq = s.seq => r = s
  /\ job \in [Turns -> {"none", "open", "asking", "done", "dead"}]
  /\ \A t \in Turns : read[t] \subseteq stored
  /\ \A t \in Turns : learned[t] # NULL =>
       LET m == learned[t] IN
       /\ m.provenance \in Provenances
       /\ Cardinality(m.excerpt) <= WORST_SOURCE_SEQS

\* Who really spoke in an event: a result is the words of whatever the last call of its id ran.
Origin(i) == Classify(log[i], IF Calls(i) = {} THEN "" ELSE log[Latest(Calls(i))].name)
NoMoreThan(p, i) == PROVENANCE_PRIORITY[p] <= PROVENANCE_PRIORITY[Origin(i)]
Speaks(i) == i \in DOMAIN log /\ log[i].type \in Types \ {"other"}

(* No row and no memory is trusted above what it comes from: a row no more  *)
(* than whoever spoke, although call ids come back and results arrive in   *)
(* later turns; a memory no more than any event its evidence quotes and,   *)
(* as long as the reply cites no more than the evidence holds, than any    *)
(* event it cites, of whatever turn, stored or not (transcript.ts,         *)
(* provenanceFor: "fail closed").                                          *)
TrustIsEarned ==
  /\ \A r \in stored : NoMoreThan(r.provenance, r.seq)
  /\ \A t \in Turns : learned[t] # NULL =>
       LET m == learned[t]
           few == Cardinality(Range(m.reply)) <= WORST_SOURCE_SEQS
       IN  /\ \A s \in m.excerpt : NoMoreThan(m.provenance, s)
           /\ few => \A s \in Range(m.reply) : Speaks(s) => NoMoreThan(m.provenance, s)

(* "Mixed sources take minimum trust" (extract.ts), without a limit on how  *)
(* many sources there are.                                                 *)
MixedSourcesTakeMinimum ==
  \A t \in Turns : learned[t] # NULL =>
    \A s \in Range(learned[t].reply) : Speaks(s) => NoMoreThan(learned[t].provenance, s)

(* However often a turn stops, what is stored of it is what the gate has    *)
(* just measured: a row classified while the turn went on is classified    *)
(* alike when more is known (auto-extract.ts: "can never disagree").       *)
StoredIsMeasured ==
  [][\A t \in Turns : (\E llm \in BOOLEAN : TurnStopping(t, llm))
       => {r \in stored' : r.turn = t} = CollectTurnEvents(t)]_vars

\* Every record but the first is behind a comma.
PayloadChars(kept) ==
  Wrapper + OverRows(kept, LAMBDA chars, r : chars + RecordChars(r) + 1, 0) - IF kept = {} THEN 0 ELSE 1

(* The payload fits, whatever the turn holds, and no row that would still   *)
(* fit is kept from the model by a larger one before it (extract.ts,       *)
(* renderTranscript).                                                      *)
OversizedHidesNothing ==
  \A t \in Turns : job[t] = "asking" =>
    LET kept == RenderTranscript(read[t])
    IN  /\ PayloadChars(kept) <= EXTRACT_TRANSCRIPT_CHARS
        /\ \A r \in read[t] \ kept : PayloadChars(kept) + 1 + RecordChars(r) > EXTRACT_TRANSCRIPT_CHARS
=============================================================================
