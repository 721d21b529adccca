------------------------------ MODULE MemoryLife ------------------------------
(***************************************************************************)
(* What the curation of a repository's memories promises, with jobs, model *)
(* calls, conversations, claims and crashes left out: a turn is learned    *)
(* from once, what was learned of it is judged once and in one instant     *)
(* (what that judgement leaves out stays a candidate for good), and only   *)
(* people and decay touch a memory besides.                                *)
(***************************************************************************)
EXTENDS FiniteSets, Naturals

CONSTANTS Sessions, Turns,
          SessionOf,      \* [Turns -> Sessions]
          Mems,
          Procedures,     \* the ids whose content is of kind 'procedure'
          NULL,
          MaxCandidates

VARIABLES mem,      \* [Mems -> Memory]
          batch,    \* [Turns -> SUBSET Mems]: what was learned of a turn
          judged    \* the turns whose batch was decided

life == <<mem, batch, judged>>

Row(st, by, ref, quote) == [status |-> st, by |-> by, ref |-> ref, quote |-> quote]
Becomes(row, st, by) == Row(st, by, row.ref, row.quote)

Being(st) == {m \in Mems : mem[m].status = st}
Candidates(t) == batch[t] \cap Being("candidate")

Init == /\ mem = [m \in Mems |-> Row("none", NULL, NULL, FALSE)]
        /\ batch = [t \in Turns |-> {}]
        /\ judged = {}

(* A turn's candidates come all at once, unless somebody forgot what was   *)
(* said in its session.                                                    *)
Learn(t) ==
  /\ batch[t] = {}
  /\ \A m \in Being("tombstone") : mem[m].ref # SessionOf[t]
  /\ \E new \in SUBSET Being("none") :
       /\ Cardinality(new) \in 1 .. MaxCandidates
       /\ \E quoted \in SUBSET new :
            mem' = [m \in Mems |-> IF m \in new
                      THEN Row("candidate", NULL, SessionOf[t], m \in quoted) ELSE mem[m]]
       /\ batch' = [batch EXCEPT ![t] = new]
  /\ UNCHANGED judged

(* Of the candidates a turn still has, those decided are kept or dropped,  *)
(* and some active memories make way, each for another one that is kept or *)
(* was forgotten by then.                                                  *)
Judge(t) ==
  /\ batch[t] # {} /\ t \notin judged
  /\ judged' = judged \cup {t}
  /\ \E decided \in SUBSET Candidates(t) :
     \E kept \in SUBSET decided, retired \in SUBSET Being("active") :
       \E for \in [retired -> kept \cup (batch[t] \cap Being("tombstone"))] :
         /\ \A m, n \in retired : for[m] = for[n] => m = n
         /\ mem' = [m \in Mems |->
              IF m \in retired
                THEN Becomes(mem[m], IF m \in Procedures THEN "archived" ELSE "superseded", for[m])
              ELSE IF m \in decided
                THEN Becomes(mem[m], IF m \in kept THEN "active" ELSE "superseded", NULL)
              ELSE mem[m]]
  /\ UNCHANGED batch

(* A person's memory, in the place of an active one perhaps.               *)
Propose(m, s, old) ==
  /\ m \in Being("none")
  /\ old # NULL => old \in Being("active")
  /\ mem' = [n \in Mems |-> IF n = m THEN Row("active", NULL, s, FALSE)
                            ELSE IF n = old THEN Becomes(mem[n], "superseded", m)
                            ELSE mem[n]]
  /\ UNCHANGED <<batch, judged>>

Forget(m) ==
  /\ m \notin Being("none") \cup Being("tombstone")
  /\ mem' = [mem EXCEPT ![m] = Row("tombstone", mem[m].by, mem[m].ref, FALSE)]
  /\ UNCHANGED <<batch, judged>>

(* Sleep and revival.                                                      *)
Turn(m, from, to) ==
  /\ m \in Being(from)
  /\ mem' = [mem EXCEPT ![m] = Becomes(mem[m], to, mem[m].by)]
  /\ UNCHANGED <<batch, judged>>

Next == \/ \E t \in Turns : Learn(t) \/ Judge(t)
        \/ \E m \in Mems : \/ \E s \in Sessions, old \in Mems \cup {NULL} : Propose(m, s, old)
                           \/ Forget(m)
                           \/ Turn(m, "active", "dormant") \/ Turn(m, "dormant", "active")

Spec == Init /\ [][Next]_life
=============================================================================
