------------------------ MODULE MCTwoLevelContract ------------------------
(* One node, days of three hours of one minute, a few workloads. *)
EXTENDS TwoLevelContract, TLC

R(n) == "gpu" :> n @@ "kv" :> 0

W(start, end) == [start |-> start, end |-> end, offset |-> 0]

P(type, rank, windows, required, preferred, max) ==
  [type |-> type, rank |-> rank, shape |-> "mixed", windows |-> windows,
   required |-> R(required), preferred |-> preferred, max |-> max, policy |-> {}]

\* Windows on the hour, among them one over midnight that overlaps another; an
\* elastic batch job that peaks may reclaim from; no other preferred budgets.
AlignedProfiles ==
  "day"    :> P("online", 3, {W(1, 2)}, 1, Nil, R(3))
  @@ "night" :> P("hybrid", 3, {W(2, 1)}, 1, Nil, R(3))
  @@ "dawn" :> P("online", 3, {W(0, 1)}, 1, Nil, R(2))
  @@ "batch" :> P("batch", 1, {}, 2, R(3), Nil)

\* The same, elastic: a peer may grow to its preferred budget off-peak.
ElasticProfiles ==
  "peak"   :> P("online", 3, {W(0, 1)}, 1, Nil, R(2))
  @@ "elastic" :> P("online", 3, {}, 1, R(3), Nil)
  @@ "late" :> P("online", 3, {W(0, 1)}, 1, Nil, R(1))

FourGPUs == R(4)
=============================================================================
