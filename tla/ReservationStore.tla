-------------------------- MODULE ReservationStore --------------------------
(***************************************************************************)
(* What the ledgers of the nodes amount to: for every node the set of pods *)
(* that hold a reservation there, changed by one pod at a time and in one  *)
(* step.  AllocationLedger implements it with objects that are read and    *)
(* written back by concurrent clients.                                     *)
(*                                                                         *)
(* Clear is no part of a store one would ask for.  It is what remains of   *)
(* the Delete in Unreserve, which takes the reservations of all pods of    *)
(* the node (see ReservationKept in AllocationLedger).                     *)
(***************************************************************************)
CONSTANTS Pods, Nodes,
          NoNode   \* the place of a pod that is not being scheduled

VARIABLES held,  \* held[n]: the pods with a reservation on node n
          at     \* at[p]: the node pod p is being scheduled to, or is bound to

vars == <<held, at>>

Init ==
  /\ held = [n \in Nodes |-> {}]
  /\ at = [p \in Pods |-> NoNode]

\* The scheduler picks node n for p.
Enter(p, n) ==
  /\ at[p] = NoNode
  /\ at' = [at EXCEPT ![p] = n]
  /\ UNCHANGED held

\* p reserves where it is.
Reserve(p) ==
  /\ at[p] # NoNode
  /\ held' = [held EXCEPT ![at[p]] = @ \cup {p}]
  /\ UNCHANGED at

\* p gives up its reservation and leaves.
Withdraw(p) ==
  /\ at[p] # NoNode
  /\ held' = [held EXCEPT ![at[p]] = @ \ {p}]
  /\ at' = [at EXCEPT ![p] = NoNode]

\* p leaves, and with it all reservations on the node.
Clear(p) ==
  /\ at[p] # NoNode
  /\ held' = [held EXCEPT ![at[p]] = {}]
  /\ at' = [at EXCEPT ![p] = NoNode]

\* Pods leave, and whatever they hold stays behind.
Leave(gone) ==
  /\ at' = [p \in Pods |-> IF p \in gone THEN NoNode ELSE at[p]]
  /\ UNCHANGED held

Next ==
  \/ \E p \in Pods : Reserve(p) \/ Withdraw(p) \/ Clear(p) \/ \E n \in Nodes : Enter(p, n)
  \/ \E gone \in SUBSET Pods : Leave(gone)

Spec == Init /\ [][Next]_vars
=============================================================================
