----------------------------- MODULE Resources -----------------------------
(***************************************************************************)
(* Resource summaries: a quantity for each dimension (GPU count, GPU       *)
(* memory, KV cache, prefill, decode and total token throughput) and the   *)
(* arithmetic the scheduler policy, the local planner and the backends do  *)
(* on them dimension by dimension.                                         *)
(***************************************************************************)
EXTENDS Integers

CONSTANT Dims   \* the dimensions

ResourceSummary == [Dims -> Nat]

ZeroResource == [d \in Dims |-> 0]

isZeroResource(value) == \A d \in Dims : value[d] = 0

addResource(left, right) == [d \in Dims |-> left[d] + right[d]]

nonNegative(value) == IF value < 0 THEN 0 ELSE value

subtractResource(left, right) == [d \in Dims |-> nonNegative(left[d] - right[d])]

fits(required, available) == \A d \in Dims : required[d] <= available[d]
=============================================================================
