------------------------------ MODULE Consent ------------------------------
(***************************************************************************)
(* What a session reads of other repositories, to the person who is asked: *)
(* with files, checkouts, stores, fingerprints, and the calls that wait    *)
(* for an answer left out.  A session asks at most once and its scope is   *)
(* settled in the instant of the answer, or without a question, by an      *)
(* answer another session of the repository had.                           *)
(***************************************************************************)
CONSTANTS Sessions, Members, Ids,
          HomeRepo,   \* [Sessions -> the repository it works in]
          HomeStores, \* [Sessions -> the stores it reads in any case]
          StoreOf     \* [Ids -> the store a memory is in]

VARIABLES settled,    \* the sessions that have a scope
          scope,      \* [Sessions -> SUBSET Members]
          asked,      \* the sessions a person was asked for
          consent,    \* the declarations that were allowed, by repository
          shown,      \* [Sessions -> SUBSET Ids]
          denied      \* [Sessions -> SUBSET Ids]: memories a session was told do not exist

person == <<settled, scope, asked, consent, shown, denied>>

Within(s) ==
  {i \in Ids : StoreOf[i] \in HomeStores[s] \cup {e.source : e \in scope[s]}}

Init == /\ settled = {} /\ asked = {} /\ consent = {}
        /\ scope = [s \in Sessions |-> {}]
        /\ shown = [s \in Sessions |-> {}] /\ denied = [s \in Sessions |-> {}]

(* In one instant, and once.                                                *)
GetsScope(s) == /\ s \notin settled
                /\ settled' = settled \cup {s}
                /\ UNCHANGED <<shown, denied>>

(* No question: nothing to read, or one declaration allowed it all before.  *)
Settle(s) ==
  /\ GetsScope(s)
  /\ UNCHANGED <<asked, consent>>
  /\ \E m \in SUBSET Members :
       /\ scope' = [scope EXCEPT ![s] = m]
       /\ m = {} \/ \E a \in consent : a.repo = HomeRepo[s] /\ m \subseteq a.declared

(* The person sees what is listed, and allows the declaration it is part of. *)
Ask(s) ==
  /\ GetsScope(s)
  /\ asked' = asked \cup {s}
  /\ \/ UNCHANGED <<scope, consent>>
     \/ \E declared \in SUBSET Members : \E listed \in SUBSET declared :
          /\ consent' = consent \cup {[repo |-> HomeRepo[s], declared |-> declared]}
          /\ scope' = [scope EXCEPT ![s] = listed]

(* A call returns: memories of the scope, and denials of others.            *)
Read(s) ==
  /\ s \in settled
  /\ UNCHANGED <<settled, scope, asked, consent>>
  /\ \E some \in SUBSET Within(s), none \in SUBSET (Ids \ Within(s)) :
       /\ shown' = [shown EXCEPT ![s] = @ \cup some]
       /\ denied' = [denied EXCEPT ![s] = @ \cup none]

(* A process remembers nothing of another.                                  *)
Restart == /\ settled' = {} /\ asked' = {} /\ consent' = {}
           /\ scope' = [s \in Sessions |-> {}]
           /\ shown' = [s \in Sessions |-> {}] /\ denied' = [s \in Sessions |-> {}]

Next == Restart \/ \E s \in Sessions : Settle(s) \/ Ask(s) \/ Read(s)

Spec == Init /\ [][Next]_person
=============================================================================
