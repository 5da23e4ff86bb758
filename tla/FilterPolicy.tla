---------------------------- MODULE FilterPolicy ----------------------------
(***************************************************************************)
(* The hard constraints of the scheduler policy                            *)
(* (internal/scheduler/policy/filter_constraint.go): may this workload be  *)
(* placed on this node, going by the node's AINodeResourceProfile.         *)
(*                                                                         *)
(* Priorities are their ranks (priorityRank ignores case), strings with a  *)
(* few known values are those values, and a nil pointer is Nil.            *)
(***************************************************************************)
EXTENDS Resources, TimeWindows, SequencesExt

CONSTANTS KVCache,     \* the KV cache dimension
          TokenDims,   \* the token throughput dimensions
          Nil          \* a pointer that is nil

\* Or: the value of a pointer, or what nil stands for.
Or(pointer, default) == IF pointer = Nil THEN default ELSE pointer

requiredResources(profile) == Or(profile.required, ZeroResource)

preferredResources(profile) == Or(profile.preferred, ZeroResource)

\* maxResources, and maxResourcesFromRequest for an allocation.
maxResources(profile) == Or(profile.max, Or(profile.preferred, requiredResources(profile)))

isOnlineWorkload(type) == type \in {"online", "hybrid"}

isDelayTolerantWorkload(type) == type \in {"offline", "batch"}

canCurrentWorkloadReclaimFrom(profile, allocation) ==
  /\ isOnlineWorkload(profile.type)
  /\ profile.rank > allocation.rank
  /\ \/ isDelayTolerantWorkload(allocation.type)
     \/ allocation.actions \cap {"Throttleable", "Pauseable", "Evictable"} # {}

-----------------------------------------------------------------------------
(* The time-window envelope. *)

\* resourcesForHour: max in an hour of the windows, required in the others.
resourcesForHour(windows, required, max, hour) ==
  IF hourInTimeWindows(windows, hour) /\ ~isZeroResource(max) THEN max ELSE required

nodeCapacityForEnvelope(node) ==
  IF node.allocatable # Nil THEN node.allocatable
  ELSE IF node.available # Nil /\ node.allocated # Nil
    THEN addResource(node.available, node.allocated)
  ELSE Nil

nodeForecastResourceForHour(node, hour) ==
  IF node.forecast = Nil THEN ZeroResource ELSE node.forecast[hour]

\* allocationResourceForHour of an entry of status.allocations.
allocationResourceForHour(allocation, hour) ==
  IF allocation.forecast # Nil THEN allocation.forecast[hour]
  ELSE IF allocation.request # Nil
    THEN resourcesForHour(allocation.windows, requiredResources(allocation.request),
                          maxResources(allocation.request), hour)
  ELSE Or(allocation.current, Or(allocation.resources, ZeroResource))

\* reclaimableResourceForHour: the sum over the allocations the workload may
\* reclaim from.
reclaimableResourceForHour(profile, node, hour) ==
  FoldLeft(LAMBDA sum, a : IF canCurrentWorkloadReclaimFrom(profile, a)
                             THEN addResource(sum, allocationResourceForHour(a, hour))
                             ELSE sum,
           ZeroResource, node.allocations)

\* Variant: the workload's own demand is left out.
EnvelopeWithoutItself(profile, node, hour) ==
  fits(nodeForecastResourceForHour(node, hour), nodeCapacityForEnvelope(node))

\* The hour fits as it is, or after reclaiming.
EnvelopeFits(profile, node, hour) ==
  LET capacity    == nodeCapacityForEnvelope(node)
      total       == addResource(nodeForecastResourceForHour(node, hour),
                                 resourcesForHour(profile.windows, requiredResources(profile),
                                                  maxResources(profile), hour))
      reclaimable == reclaimableResourceForHour(profile, node, hour)
  IN  \/ fits(total, capacity)
      \/ ~isZeroResource(reclaimable) /\ fits(subtractResource(total, reclaimable), capacity)

TimeWindowEnvelope(profile, node) ==
  \/ ~isOnlineWorkload(profile.type) \/ profile.windows = {}
  \/ nodeCapacityForEnvelope(node) = Nil
  \/ isZeroResource(maxResources(profile))
  \/ \A hour \in Hours : EnvelopeFits(profile, node, hour)

-----------------------------------------------------------------------------
(* The other constraints, and all of them in order. *)

\* BaseFilterConstraint: the phase is empty or Ready, and availability is known.
Base(node) == node.ready /\ node.available # Nil

requiresKVCache(profile) ==
  requiredResources(profile)[KVCache] > 0 \/ profile.shape = "kv_heavy"

requiresTokenThroughput(profile) ==
  \/ \E d \in TokenDims : requiredResources(profile)[d] > 0
  \/ profile.shape \in {"prefill_heavy", "decode_heavy"}

RuntimeHard(profile, node) ==
  /\ requiresKVCache(profile) => "KVCache" \in node.supports
  /\ requiresTokenThroughput(profile) => "TokenThroughput" \in node.supports

\* NodeCapabilityHardConstraint: the capability each policy flag asks for.
NodeCapability(profile, node) ==
  LET Needs == [AllowBorrowing |-> "Borrowing", AllowReclaimFromLowerPriority |-> "Reclaim",
                Throttleable |-> "Throttling", Pauseable |-> "PauseResume",
                Evictable |-> "Eviction"]
  IN  \A flag \in profile.policy : Needs[flag] \in node.capabilities

RequiredResourceFit(profile, node) == fits(requiredResources(profile), node.available)

\* RunAllConstraints stops at the first constraint that refuses.
RunAllConstraints(profile, node) ==
  /\ Base(node)
  /\ RuntimeHard(profile, node)
  /\ NodeCapability(profile, node)
  /\ RequiredResourceFit(profile, node)
  /\ TimeWindowEnvelope(profile, node)

=============================================================================
