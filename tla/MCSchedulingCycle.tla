------------------------- MODULE MCSchedulingCycle -------------------------
(* Three nodes, two dimensions, node profiles of every tier. *)
EXTENDS SchedulingCycle, TLC

R(gpu, kv) == "gpu" :> gpu @@ "kv" :> kv

\* The workload, before and after an edit that asks for more.
Workload(required, preferred) ==
  [type |-> "online", rank |-> 3, shape |-> "kv_heavy",
   windows |-> {[start |-> 0, end |-> 2, offset |-> 0]},
   required |-> required, preferred |-> preferred, max |-> Nil, policy |-> {}]

MCProfiles == {Workload(R(1, 1), R(2, 2)), Workload(R(2, 1), Nil)}

Neighbour == [type |-> "online", rank |-> 3, shape |-> "decode_heavy",
              windows |-> {[start |-> 1, end |-> 3, offset |-> 0]}, actions |-> {},
              request |-> Nil, forecast |-> Nil, current |-> Nil, resources |-> Nil]

\* A node with so much available, with or without a neighbour whose window
\* overlaps, and at some risk.
Node(available, allocations, risk) ==
  [ready |-> TRUE, allocatable |-> R(5, 5), allocated |-> Nil, available |-> available,
   forecast |-> Nil, allocations |-> allocations, supports |-> {"KVCache"},
   capabilities |-> {}, sloRisk |-> risk]

\* From no match over one of two to both, with headroom in one dimension or both.
MCNodeProfiles ==
  {Node(R(1, 1), <<>>, "low"), Node(R(3, 1), <<Neighbour>>, "low"),
   Node(R(4, 4), <<Neighbour>>, "low"), Node(R(2, 3), <<>>, "medium"),
   Node(Nil, <<>>, "low")}

\* A node that matches both dimensions to the last unit, and one that matches none.
TightNodeProfiles == {Node(R(2, 2), <<>>, "low"), Node(R(1, 1), <<>>, "low")}

=============================================================================
