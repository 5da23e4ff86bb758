-------------------------- MODULE MCLocalPlanner --------------------------
(* Small instances of LocalPlanner: up to three allocations, two dimensions. *)
EXTENDS LocalPlanner, TLC, SequencesExt

R(gpu, tps) == "gpu" :> gpu @@ "tps" :> tps

A(priority, active, required, preferred, max) ==
  [priority |-> priority, active |-> active, actions |-> {"Evictable"},
   required |-> required, preferred |-> preferred, max |-> max, resources |-> Nil]

LowerOf == [p \in Priorities |-> p]

\* Requests that grow from required to preferred to max, some with parts left out.
Growing ==
  {A(p, act, R(1, 1), R(1, 2), R(2, 3)) : p \in Priorities, act \in BOOLEAN}
    \cup {A(p, act, R(1, 0), R(2, 0), Nil) : p \in Priorities, act \in BOOLEAN}
    \cup {[A("low", FALSE, Nil, Nil, Nil) EXCEPT !.resources = R(0, 1)]}

GrowingLists == BoundedSeq(Growing, 3)

\* A node that one peak fills, and one with a little more; one whose status is
\* not set yet; one without GPUs.
SmallNodes ==
  {[allocatable |-> R(2, 3), spec |-> R(2, 3)],
   [allocatable |-> R(3, 4), spec |-> R(3, 4)],
   [allocatable |-> R(0, 0), spec |-> R(4, 6)],
   [allocatable |-> R(0, 4), spec |-> R(0, 4)]}
=============================================================================
