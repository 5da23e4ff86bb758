---------------------------- MODULE ScorePolicy ----------------------------
(***************************************************************************)
(* How the scheduler policy scores a node for a workload and sizes its     *)
(* reservation (internal/scheduler/policy: scorer.go, simple_policy.go,    *)
(* demand_shape.go), with the default scorers.                             *)
(*                                                                         *)
(* The code computes with float64.  Here weights are tenths, multipliers   *)
(* are percent, and every quotient is exact until it is rounded, half up   *)
(* as math.Round does for what is not negative.                            *)
(***************************************************************************)
EXTENDS FilterPolicy

CONSTANTS Prefill,   \* the prefill throughput dimension
          Decode     \* the decode throughput dimension

MaxNodeScore == 100

Round(numerator, denominator) == (2 * numerator + denominator) \div (2 * denominator)

clampScore(score) ==
  IF score < 0 THEN 0 ELSE IF score > MaxNodeScore THEN MaxNodeScore ELSE score

applyMultiplier(score, percent) == Round(score * percent, 100)

-----------------------------------------------------------------------------
(* Preferred coverage and headroom. *)

\* preferredMatchCount: the preferred dimensions the node can give in full.
preferredMatchCount(preferred, available) ==
  Cardinality({d \in Dims : preferred[d] > 0 /\ available[d] >= preferred[d]})

\* FocusedResource of the default mapping; the shape mixed, and any other, has
\* none (ResourceBalancedResourceFocus).
FocusedResource(shape) ==
  CASE shape = "decode_heavy"  -> {Decode}
    [] shape = "prefill_heavy" -> {Prefill}
    [] shape = "kv_heavy"      -> {KVCache}
    [] OTHER                   -> {}

resourceHeadroomWeight(key, d) == IF key = {} \/ d \in key THEN 4 ELSE 3

\* normalizedHeadroom times preferred: what is left beyond the preferred
\* quantity, at most that quantity again.
Headroom(available, preferred) ==
  IF available <= preferred THEN 0
  ELSE IF available - preferred > preferred THEN preferred ELSE available - preferred

\* weightedHeadroomScore: the weighted mean of the headrooms of the preferred
\* dimensions, over the common denominator of all of them.
weightedHeadroomScore(key, preferred, available) ==
  LET wanted == {d \in Dims : preferred[d] > 0}
      scale  == FoldFunctionOnSet(LAMBDA x, y : x * y, 1, preferred, wanted)
      weight == MapThenSumSet(LAMBDA d : resourceHeadroomWeight(key, d), wanted)
      sum    == MapThenSumSet(LAMBDA d : resourceHeadroomWeight(key, d)
                                           * Headroom(available[d], preferred[d])
                                           * (scale \div preferred[d]), wanted)
  IN  IF wanted = {} THEN 0 ELSE Round(MaxNodeScore * sum, weight * scale)

-----------------------------------------------------------------------------
(* The multipliers and the penalty. *)

timeWindowMultiplier(profile, node) ==
  LET compared   == SelectSeq(node.allocations, LAMBDA a : a.windows # {})
      overlapped == SelectSeq(compared, LAMBDA a : timeWindowsOverlap(profile.windows, a.windows))
      manageable == SelectSeq(overlapped, LAMBDA a : canCurrentWorkloadReclaimFrom(profile, a))
  IN  IF profile.windows = {} THEN 100
      ELSE IF compared = <<>> THEN 102
      ELSE IF overlapped = <<>> THEN 105
      ELSE IF Len(manageable) = Len(overlapped) THEN 102 ELSE 95

FocusedShapes == {"decode_heavy", "prefill_heavy", "kv_heavy"}

\* demandShapeCounts: an allocation without a focused shape counts for each.
demandShapeCounts(allocations, shape) ==
  Len(SelectSeq(allocations, LAMBDA a : a.shape = shape \/ a.shape \notin FocusedShapes))

mixBalanceMultiplier(profile, node) ==
  IF /\ profile.shape \in FocusedShapes
     /\ \E other \in FocusedShapes :
          demandShapeCounts(node.allocations, profile.shape)
            < demandShapeCounts(node.allocations, other)
    THEN 105 ELSE 100

runtimeRiskPenalty(node) ==
  CASE node.sloRisk = "high" -> 15 [] node.sloRisk = "medium" -> 8 [] OTHER -> 0

-----------------------------------------------------------------------------
(* A node's detail, its score, and the budget reserved on it. *)

\* BuildDetail with the contributions of the default scorers applied.
BuildDetail(profile, node) ==
  IF node.available = Nil
    THEN [matched |-> 0, weighted |-> 0, time |-> 100, mix |-> 100, penalty |-> 0]
    ELSE LET preferred == preferredResources(profile) IN
         [matched  |-> preferredMatchCount(preferred, node.available),
          weighted |-> weightedHeadroomScore(FocusedResource(profile.shape), preferred,
                                             node.available),
          time     |-> timeWindowMultiplier(profile, node),
          mix      |-> mixBalanceMultiplier(profile, node),
          penalty  |-> runtimeRiskPenalty(node)]

\* Variant: the penalty is subtracted last, and nothing bounds the result.
NormalizeUnclamped(detail) ==
  applyMultiplier(applyMultiplier(detail.weighted, detail.time), detail.mix) - detail.penalty

\* ScoreComposer.Normalize of one detail.
Normalize(detail) ==
  clampScore(applyMultiplier(applyMultiplier(detail.weighted, detail.time), detail.mix)
               - detail.penalty)

\* allocationResourceValue: the preferred quantity if there is that much, the
\* required one otherwise.
allocationResourceValue(required, preferred, available) ==
  LET target == IF preferred <= 0 THEN required ELSE preferred
  IN  IF available >= target THEN target ELSE required

AllocationResources(profile, node) ==
  LET required  == requiredResources(profile)
      preferred == preferredResources(profile)
  IN  IF node.available = Nil THEN required
      ELSE [d \in Dims |-> allocationResourceValue(required[d], preferred[d],
                                                   node.available[d])]

=============================================================================
