------------------------------ MODULE LayerCache ------------------------------
(***************************************************************************)
(* What the derived layer promises to every reader of a store, with jobs,  *)
(* processes, model calls and crashes left out: it is a cache of the raw   *)
(* memories.  A change to them retires it in the same instant, and it is   *)
(* built in one instant, of the memories that are there then, when they    *)
(* call for a layer.                                                       *)
(***************************************************************************)
EXTENDS Naturals

CONSTANTS Snapshots,     \* what the source set may be
          NULL

VARIABLES sources,       \* the source set
          called,        \* whether it calls for a layer
          changes,       \* how often it was written
          layer          \* NULL, or what the layer was built of

cache == <<sources, called, changes, layer>>

Init == /\ sources \in Snapshots
        /\ called \in BOOLEAN
        /\ changes = 0
        /\ layer = NULL

(* The only way sources come, go or change, and the only way a layer goes. *)
Change == /\ sources' \in Snapshots
          /\ called' \in BOOLEAN
          /\ changes' = changes + 1
          /\ layer' = NULL

(* A layer replaces the one before, of the same sources.                   *)
Build == /\ called
         /\ layer' \in [of : {sources}, empty : BOOLEAN]
         /\ UNCHANGED <<sources, called, changes>>

Next == Change \/ Build

Spec == Init /\ [][Next]_cache
=============================================================================
