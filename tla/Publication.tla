---------------------------- MODULE Publication -----------------------------
(***************************************************************************)
(* What sharing promises to whoever reads the checkouts' memories.md, with *)
(* the store, its other writers and the awaits of a share left out: people *)
(* agree to a memory in a checkout; a refresh takes, in one instant, some  *)
(* of what may stand there then and puts it in place of the old text; what *)
(* was withdrawn from a checkout is never taken for it again, whatever     *)
(* people agree to later; and nobody but a share begins a text where there *)
(* is none.  Refreshes of one checkout may overtake each other.            *)
(***************************************************************************)
CONSTANTS Procs,
          Mems,
          Secrets,        \* those whose text looks like a credential
          Checkouts,
          NULL

VARIABLES agreed,         \* memories a person agreed to publish
          withdrawn,      \* (memory, checkout): forgotten and refreshed away
          text,           \* [Checkouts -> [there, says]]
          refresh         \* [Procs -> [on, share, ready, m, at, took]]

publication == <<agreed, withdrawn, text, refresh>>

Resting == [on |-> FALSE, share |-> FALSE, ready |-> FALSE, m |-> NULL, at |-> NULL,
            took |-> {}]

Starts(p, share, m, c) ==
  /\ refresh[p] = Resting
  /\ refresh' = [refresh EXCEPT ![p] = [on |-> TRUE, share |-> share, ready |-> FALSE,
                                        m |-> m, at |-> c, took |-> {}]]

Init == /\ agreed = {} /\ withdrawn = {}
        /\ text = [c \in Checkouts |-> [there |-> FALSE, says |-> {}]]
        /\ refresh = [p \in Procs |-> Resting]

Agree(p, m, c) == /\ Starts(p, TRUE, m, c)
                  /\ agreed' = agreed \cup {m}
                  /\ UNCHANGED <<withdrawn, text>>

(* A forget of m finds a text in this checkout.                            *)
Find(p, m, c) == /\ text[c].there
                 /\ Starts(p, FALSE, m, c)
                 /\ UNCHANGED <<agreed, withdrawn, text>>

(* A forget of m finds none: there is nothing to take it from.             *)
FindNone(p, m, c) == /\ ~text[c].there
                     /\ refresh[p] = Resting
                     /\ withdrawn' = withdrawn \cup {<<m, c>>}
                     /\ UNCHANGED <<agreed, text, refresh>>

(* What may stand in a checkout.                                           *)
Lawful(c) == {m \in agreed \ Secrets : <<m, c>> \notin withdrawn}

Take(p) == /\ refresh[p].on /\ ~refresh[p].ready
           /\ \E says \in SUBSET Lawful(refresh[p].at) :
                refresh' = [refresh EXCEPT ![p] = [@ EXCEPT !.ready = TRUE, !.took = says]]
           /\ UNCHANGED <<agreed, withdrawn, text>>

(* The text goes, or says what was taken, whole or in part, and what is    *)
(* left of the old one.                                                    *)
Rewrite(p) ==
  LET c == refresh[p].at IN
  /\ refresh[p].ready
  /\ \E there \in BOOLEAN, says \in SUBSET (refresh[p].took \cup text[c].says) :
       text' = [text EXCEPT ![c] = [there |-> there, says |-> says]]
  /\ UNCHANGED agreed

Put(p) == Rewrite(p) /\ UNCHANGED <<withdrawn, refresh>>

Rests(p) == refresh' = [refresh EXCEPT ![p] = Resting]

(* A refresh ends with its last rewrite; that of a forget has withdrawn    *)
(* its memory, unless it broke off.                                        *)
Finish(p) ==
  /\ Rests(p)
  /\ Rewrite(p)
  /\ \/ UNCHANGED withdrawn
     \/ /\ ~refresh[p].share /\ refresh[p].m \notin refresh[p].took
        /\ withdrawn' = withdrawn \cup {<<refresh[p].m, refresh[p].at>>}

GiveUp(p) == refresh[p].on /\ Rests(p) /\ UNCHANGED <<agreed, withdrawn, text>>

Begin(p) == \E m \in Mems, c \in Checkouts : Agree(p, m, c) \/ Find(p, m, c) \/ FindNone(p, m, c)

Next == \E p \in Procs : \/ ~refresh[p].on /\ Begin(p)
                         \/ refresh[p].on /\ (Take(p) \/ Put(p) \/ Finish(p) \/ GiveUp(p))

Spec == Init /\ [][Next]_publication
=============================================================================
