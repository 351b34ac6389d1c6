---------------------------- MODULE LeaseService ----------------------------
(***************************************************************************)
(* What a model scheduler promises its callers, with no queue, task id or  *)
(* promise in sight: each call of a model is in at most one of two places, *)
(* waiting or holding; the slots of a model are never exceeded; and nobody *)
(* waits for a model that has a slot to spare.                             *)
(***************************************************************************)
EXTENDS Naturals, FiniteSets

CONSTANTS
  Calls,   \* the calls that are ever made
  Pool,    \* the models on offer
  Slots    \* how many calls may hold each model at once

VARIABLES
  fresh,    \* the calls not made yet
  waiting,  \* for each model, the calls that wait for a slot
  holding   \* for each model, the calls that hold a slot

vars == <<fresh, waiting, holding>>

Within(held) == \A m \in Pool : Cardinality(held[m]) <= Slots[m]

NobodyWaitsInVain(held, waits) ==
  \A m \in Pool : waits[m] # {} => Cardinality(held[m]) >= Slots[m]

Init ==
  /\ fresh = Calls
  /\ waiting = [m \in Pool |-> {}]
  /\ holding = [m \in Pool |-> {}]

(* A call is made.  It is served or made to wait, or turned away for good. *)
Ask(c) ==
  /\ c \in fresh
  /\ fresh' = fresh \ {c}
  /\ \/ \E m \in Pool :
          \/ /\ holding' = [holding EXCEPT ![m] = @ \cup {c}]
             /\ UNCHANGED waiting
          \/ /\ waiting' = [waiting EXCEPT ![m] = @ \cup {c}]
             /\ UNCHANGED holding
     \/ UNCHANGED <<waiting, holding>>

(* Some holders leave, some of the waiting take their place, and some of   *)
(* the waiting are turned away.                                            *)
Turnover(gone, served, refused) ==
  /\ served \cap refused = {}
  /\ holding' = [m \in Pool |-> (holding[m] \ gone) \cup (served \cap waiting[m])]
  /\ waiting' = [m \in Pool |-> waiting[m] \ (served \cup refused)]
  /\ UNCHANGED fresh

Next ==
  /\ \/ \E c \in Calls : Ask(c)
     \/ \E gone, served, refused \in SUBSET Calls : Turnover(gone, served, refused)
  /\ Within(holding')
  /\ NobodyWaitsInVain(holding', waiting')

Spec == Init /\ [][Next]_vars
=============================================================================
