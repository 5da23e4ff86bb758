---------------------------- MODULE LocalPlanner ----------------------------
(***************************************************************************)
(* The node-local scheduler of the agent (internal/agent/local): BuildPlans *)
(* orders the allocations of the node by priority and active window and     *)
(* plans them one after the other against a ledger of the node's capacity.  *)
(*                                                                          *)
(* An allocation is what expandNodeAllocationLedgers makes of a ledger      *)
(* entry.  Entries of one ledger object share its name and creation time,   *)
(* so the sort, which is stable, keeps their order in the ledger.           *)
(***************************************************************************)
EXTENDS Resources, Sequences, FiniteSets

CONSTANTS GPU,         \* the GPU count dimension
          GPUDims,     \* the dimensions of the GPU manager: count and memory
          KVDims,      \* those of the KV cache manager
          TokenDims,   \* those of the token throughput manager
          Nil,         \* a pointer that is nil
          Priorities,  \* the priority strings in use
          Lower,       \* strings.ToLower on them
          Inputs,      \* the lists of allocations BuildPlans is called with
          Nodes        \* the node profiles it is called with

Budgets == ResourceSummary \cup {Nil}

Actions == {"Reclaimable", "Throttleable", "Pauseable", "Evictable"}

\* active: whether now is in one of the time windows (activeTimeWindow).
Allocation ==
  [priority : Priorities, active : BOOLEAN, actions : SUBSET Actions,
   required : Budgets, preferred : Budgets, max : Budgets, resources : Budgets]

\* What the agent knows of the node: status.allocatable and the spec's capacity.
NodeProfile == [allocatable : ResourceSummary, spec : ResourceSummary]

ASSUME PlannerAssumption ==
  /\ GPU \in GPUDims
  /\ Dims = GPUDims \cup KVDims \cup TokenDims
  /\ Nil \notin ResourceSummary
  /\ Inputs \subseteq Seq(Allocation)
  /\ Nodes \subseteq NodeProfile

-----------------------------------------------------------------------------
(* Budgets and priorities. *)

requiredBudget(a) ==
  IF a.required # Nil THEN a.required
  ELSE IF a.resources # Nil THEN a.resources ELSE ZeroResource

preferredBudget(a) == IF a.preferred # Nil THEN a.preferred ELSE requiredBudget(a)

maxBudget(a) == IF a.max # Nil THEN a.max ELSE preferredBudget(a)

priorityRank(priority) ==
  CASE Lower[priority] = "critical" -> 4
    [] Lower[priority] = "high"     -> 3
    [] Lower[priority] = "medium"   -> 2
    [] Lower[priority] = "low"      -> 1
    [] OTHER                        -> 0

rank(a) == priorityRank(a.priority)

\* Variant: only the window counts.
BeforeByWindow(a, b) == a.active /\ ~b.active

\* The less function of the sort; the sort keeps the order of equal elements.
Before(a, b) ==
  \/ rank(a) > rank(b)
  \/ rank(a) = rank(b) /\ a.active /\ ~b.active

StableOrder(list, order) ==
  \A i, j \in DOMAIN list :
    i < j => \/ Before(list[order[i]], list[order[j]])
             \/ ~Before(list[order[j]], list[order[i]]) /\ order[i] < order[j]

\* orderAllocationsByPriorityAndWindow: the orders of the list the sort may
\* leave it in (there is one).
orderAllocationsByPriorityAndWindow(list) ==
  {order \in [DOMAIN list -> DOMAIN list] : StableOrder(list, order)}

\* groupAllocationsByPriority cuts the ordered list where the priority STRING
\* changes; SameGroup says that nothing is cut between i and j.
SameGroup(list, i, j) ==
  \A k \in DOMAIN list :
    (i <= k /\ k <= j) \/ (j <= k /\ k <= i) => list[k].priority = list[i].priority

\* Variant: any active workload of the node counts, of whatever priority.
ActiveAnywhere(list, i) == \E j \in DOMAIN list : list[j].active

\* Variant: only the workload's own window counts.
ActiveItself(list, i) == list[i].active

hasAnyActiveTimeWindow(list, i) ==
  \E j \in DOMAIN list : SameGroup(list, i, j) /\ list[j].active

\* observe and capacityFromState: each resource manager takes its dimensions
\* from status.allocatable, or from the spec where that is zero.
observe(node) ==
  [d \in Dims |-> IF node.allocatable[d] = 0 THEN node.spec[d] ELSE node.allocatable[d]]

\* Variant: the fallback of an evictable workload is the name of the capability.
FallbackUnknown(a) ==
  IF "Throttleable" \in a.actions THEN "throttle"
  ELSE IF "Pauseable" \in a.actions THEN "pause"
  ELSE IF "Evictable" \in a.actions THEN "Evictable" ELSE "apply"

FallbackFor(a) ==
  IF "Throttleable" \in a.actions THEN "throttle"
  ELSE IF "Pauseable" \in a.actions THEN "pause"
  ELSE IF "Evictable" \in a.actions THEN "evict" ELSE "apply"

-----------------------------------------------------------------------------
(* One plan. *)

\* The budget that has to fit, and the better one to try.
Demand(a, groupHasActiveWindow) ==
  IF a.active /\ ~isZeroResource(maxBudget(a))
    THEN [fit |-> maxBudget(a), candidate |-> maxBudget(a), tier |-> "Max"]
  ELSE IF groupHasActiveWindow \/ isZeroResource(preferredBudget(a))
    THEN [fit |-> requiredBudget(a), candidate |-> ZeroResource, tier |-> "Required"]
  ELSE [fit |-> requiredBudget(a), candidate |-> preferredBudget(a), tier |-> "Preferred"]

\* Variant: the candidate is taken without looking at what is left.
AssignedUnchecked(demand, remaining) ==
  IF ~isZeroResource(demand.candidate)
    THEN [budget |-> demand.candidate, tier |-> demand.tier]
    ELSE [budget |-> demand.fit, tier |-> "Required"]

\* Variant: when the candidate does not fit, what is left is taken instead.
AssignedBestEffort(demand, remaining) ==
  IF ~isZeroResource(demand.candidate)
    THEN [budget |-> [d \in Dims |-> IF demand.candidate[d] <= remaining[d]
                                        THEN demand.candidate[d] ELSE 0],
          tier |-> demand.tier]
    ELSE [budget |-> demand.fit, tier |-> "Required"]

\* ledger.reserve once the required budget fits: the candidate if it fits too.
Assigned(demand, remaining) ==
  IF ~isZeroResource(demand.candidate) /\ fits(demand.candidate, remaining)
    THEN [budget |-> demand.candidate, tier |-> demand.tier]
    ELSE [budget |-> demand.fit, tier |-> "Required"]

\* Variant: a dimension that takes the whole capacity is refused.
validateBelowCapacity(budget, total) ==
  \A d \in Dims : budget[d] < total[d] \/ budget[d] = 0

\* Validate of the three managers, on the dimensions each looks at.
GPUValidate(budget, total) == \A d \in GPUDims : budget[d] <= total[d]

KVCacheValidate(budget, total) == \A d \in KVDims : budget[d] <= total[d]

TokenThroughputValidate(budget, total) == \A d \in TokenDims : budget[d] <= total[d]

\* validateResources: each manager compares this one budget with its capacity.
validateResources(budget, total) ==
  /\ GPUValidate(budget, total)
  /\ KVCacheValidate(budget, total)
  /\ TokenThroughputValidate(budget, total)

\* Token throughput needs a GPU.
TokenThroughputRequiresGPU(budget, total) ==
  (\E d \in TokenDims : budget[d] > 0) => total[GPU] > 0

\* checkConstraints: ActionFor always gives apply, for which the second
\* constraint, RuntimeActionCapability, asks nothing.
checkConstraints(budget, total) == TokenThroughputRequiresGPU(budget, total)

\* buildPlanForAllocation: the plan and what the ledger has left after it.  A
\* plan that fails after reserve has its budget released, which restores what
\* was left because the budget fitted.
buildPlanForAllocation(a, groupHasActiveWindow, remaining, capacity) ==
  LET demand   == Demand(a, groupHasActiveWindow)
      assigned == Assigned(demand, remaining)
      Failed(tier, budget) ==
        [plan |-> [phase |-> "Failed", action |-> FallbackFor(a), tier |-> tier,
                   assigned |-> budget],
         remaining |-> remaining]
  IN  IF ~fits(demand.fit, remaining)
        THEN Failed("Rejected", ZeroResource)
      ELSE IF \/ ~validateResources(assigned.budget, capacity)
              \/ ~checkConstraints(assigned.budget, capacity)
        THEN Failed("Degraded", assigned.budget)
      ELSE [plan |-> [phase |-> "PendingApply", action |-> "apply",
                      tier |-> assigned.tier, assigned |-> assigned.budget],
            remaining |-> subtractResource(remaining, assigned.budget)]

\* The plans an ordered list gets on a node of this capacity.
PlansOf(list, total) ==
  LET step[i \in 0..Len(list)] ==
        IF i = 0 THEN [plan |-> <<>>, remaining |-> total]
        ELSE buildPlanForAllocation(list[i], hasAnyActiveTimeWindow(list, i),
                                    step[i - 1].remaining, total)
  IN  [i \in 1..Len(list) |-> step[i].plan]

-----------------------------------------------------------------------------
(* BuildPlansAt. *)

VARIABLES ordered,    \* the allocations in planning order
          capacity,   \* ledger.Capacity
          remaining,  \* ledger.Remaining
          plans       \* the plans so far, one per allocation

vars == <<ordered, capacity, remaining, plans>>

Plan == [phase : {"PendingApply", "Failed"},
         action : {"apply", "throttle", "pause", "evict"},
         tier : {"Max", "Preferred", "Required", "Degraded", "Rejected"},
         assigned : ResourceSummary]

\* Types of the state of BuildPlansAt: it makes at most one plan per allocation,
\* with a phase, action and tier the agent knows, and its ledger never goes
\* below zero.
TypeOK ==
  /\ ordered \in Seq(Allocation)
  /\ capacity \in ResourceSummary
  /\ remaining \in ResourceSummary
  /\ plans \in Seq(Plan)
  /\ Len(plans) <= Len(ordered)

\* observe and newLedger.
Init ==
  \E list \in Inputs, node \in Nodes :
    /\ \E order \in orderAllocationsByPriorityAndWindow(list) :
         ordered = [i \in DOMAIN list |-> list[order[i]]]
    /\ capacity = observe(node)
    /\ remaining = observe(node)
    /\ plans = <<>>

\* The next iteration of the loop over the groups and their allocations.
PlanNext ==
  LET i == Len(plans) + 1
      step == buildPlanForAllocation(ordered[i], hasAnyActiveTimeWindow(ordered, i),
                                     remaining, capacity)
  IN  /\ Len(plans) < Len(ordered)
      /\ plans' = Append(plans, step.plan)
      /\ remaining' = step.remaining
      /\ UNCHANGED <<ordered, capacity>>

\* BuildPlansAt returned.
Return == Len(plans) = Len(ordered) /\ UNCHANGED vars

Next == PlanNext \/ Return

Spec == Init /\ [][Next]_vars

-----------------------------------------------------------------------------
(* Properties. *)

Accepted == {i \in DOMAIN plans : plans[i].phase = "PendingApply"}

\* What the accepted plans take of dimension d together.
Committed(d) ==
  LET sum[i \in 0..Len(plans)] ==
        IF i = 0 THEN 0
        ELSE sum[i - 1] + (IF i \in Accepted THEN plans[i].assigned[d] ELSE 0)
  IN  sum[Len(plans)]

\* The accepted plans of a node never promise more than its capacity, and the
\* ledger's Remaining is what they leave of it.
NoOvercommit == \A d \in Dims : Committed(d) + remaining[d] = capacity[d]

\* No workload runs below its required budget: an accepted plan assigns at
\* least the required quantity of every dimension.
RequiredMet ==
  \A i \in Accepted : fits(requiredBudget(ordered[i]), plans[i].assigned)

\* The peak-window contract: while a workload of the same priority is in its
\* active window, a workload outside its own keeps its required budget.
PeakKeepsRequired ==
  \A i \in Accepted, j \in DOMAIN ordered :
    ordered[j].active /\ ~ordered[i].active /\ rank(ordered[i]) = rank(ordered[j])
      => plans[i].assigned = requiredBudget(ordered[i])

\* Lower-priority workloads use what the higher ones leave: whatever runs
\* below a rank, the plans of the workloads above it are the same.
HigherPriorityFirst ==
  \A m \in DOMAIN plans :
    m = Len(ordered) \/ rank(ordered[m + 1]) < rank(ordered[m])
      => PlansOf(SubSeq(ordered, 1, m), capacity) = SubSeq(plans, 1, m)

\* A budget that fits the ledger is refused after that only on a node without
\* GPUs: validateResources refuses nothing that the ledger reserved.
DegradedOnlyWithoutGPU ==
  \A i \in DOMAIN plans : plans[i].tier = "Degraded" => capacity[GPU] = 0

=============================================================================
