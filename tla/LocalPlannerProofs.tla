------------------------ MODULE LocalPlannerProofs ------------------------
(***************************************************************************)
(* Proofs about LocalPlanner for any dimensions, node and list of           *)
(* allocations.                                                             *)
(***************************************************************************)
EXTENDS LocalPlanner, TLAPS

\* The three budgets of an allocation are resource summaries, nil or not.
LEMMA BudgetTypes ==
  ASSUME NEW a \in Allocation
  PROVE  /\ requiredBudget(a) \in ResourceSummary
         /\ preferredBudget(a) \in ResourceSummary
         /\ maxBudget(a) \in ResourceSummary
         /\ ZeroResource \in ResourceSummary
<1>1. ZeroResource \in ResourceSummary
  BY DEF ZeroResource, ResourceSummary
<1>2. /\ a.required \in ResourceSummary \cup {Nil}
      /\ a.preferred \in ResourceSummary \cup {Nil}
      /\ a.max \in ResourceSummary \cup {Nil}
      /\ a.resources \in ResourceSummary \cup {Nil}
  BY DEF Allocation, Budgets
<1>3. requiredBudget(a) \in ResourceSummary
  BY <1>1, <1>2 DEF requiredBudget
<1>4. preferredBudget(a) \in ResourceSummary
  BY <1>2, <1>3 DEF preferredBudget
<1> QED
  BY <1>1, <1>2, <1>3, <1>4 DEF maxBudget

\* The demand of an allocation: the budget that has to fit and the candidate.
LEMMA DemandTypes ==
  ASSUME NEW a \in Allocation, NEW active \in BOOLEAN
  PROVE  /\ Demand(a, active).fit \in ResourceSummary
         /\ Demand(a, active).candidate \in ResourceSummary
         /\ Demand(a, active).tier \in {"Max", "Preferred", "Required"}
BY BudgetTypes DEF Demand

\* What ledger.reserve assigns fits what is left, if the required budget did.
LEMMA AssignedFits ==
  ASSUME NEW a \in Allocation, NEW active \in BOOLEAN, NEW left \in ResourceSummary,
         fits(Demand(a, active).fit, left)
  PROVE  LET assigned == Assigned(Demand(a, active), left)
         IN  /\ assigned.budget \in ResourceSummary
             /\ assigned.tier \in {"Max", "Preferred", "Required"}
             /\ fits(assigned.budget, left)
BY DemandTypes DEF Assigned

\* Taking a budget out of what is left leaves a summary, and no more than before.
LEMMA SubtractShrinks ==
  ASSUME NEW left \in ResourceSummary, NEW budget \in ResourceSummary
  PROVE  /\ subtractResource(left, budget) \in ResourceSummary
         /\ fits(subtractResource(left, budget), left)
BY DEF subtractResource, nonNegative, ResourceSummary, fits

\* What fits a summary fits every larger one.
LEMMA FitsTransitive ==
  ASSUME NEW x \in ResourceSummary, NEW y \in ResourceSummary, NEW z \in ResourceSummary,
         fits(x, y), fits(y, z)
  PROVE  fits(x, z)
<1> SUFFICES ASSUME NEW d \in Dims PROVE x[d] <= z[d]
  BY DEF fits
<1>1. x[d] \in Nat /\ y[d] \in Nat /\ z[d] \in Nat
  BY DEF ResourceSummary
<1>2. x[d] <= y[d] /\ y[d] <= z[d]
  BY DEF fits
<1> QED
  BY <1>1, <1>2

\* The managers together look at every dimension, and at no more.
LEMMA FittingIsValid ==
  ASSUME NEW x \in ResourceSummary, NEW y \in ResourceSummary, fits(x, y)
  PROVE  validateResources(x, y)
BY PlannerAssumption
   DEF fits, validateResources, GPUValidate, KVCacheValidate, TokenThroughputValidate

\* A budget ledger.reserve may assign: the one that had to fit, or a candidate
\* that asks for something.
Takes(budget, demand) ==
  \/ budget = demand.fit
  \/ budget = demand.candidate /\ ~isZeroResource(demand.candidate)

\* One iteration of the planning loop.
LEMMA PlanFacts ==
  ASSUME NEW a \in Allocation, NEW active \in BOOLEAN,
         NEW left \in ResourceSummary, NEW cap \in ResourceSummary, fits(left, cap)
  PROVE  LET step == buildPlanForAllocation(a, active, left, cap)
         IN  /\ step.plan \in Plan
             /\ step.remaining \in ResourceSummary
             /\ fits(step.remaining, cap)
             /\ fits(step.plan.assigned, cap)
             /\ step.plan.tier = "Degraded" => cap[GPU] = 0
             /\ step.plan.phase = "PendingApply"
                  => Takes(step.plan.assigned, Demand(a, active))
<1> DEFINE demand == Demand(a, active)
           assigned == Assigned(demand, left)
           step == buildPlanForAllocation(a, active, left, cap)
<1> DEFINE Goal(s) == /\ s.plan \in Plan
                      /\ s.remaining \in ResourceSummary
                      /\ fits(s.remaining, cap)
                      /\ fits(s.plan.assigned, cap)
                      /\ s.plan.tier = "Degraded" => cap[GPU] = 0
                      /\ s.plan.phase = "PendingApply"
                           => Takes(s.plan.assigned, demand)
<1> SUFFICES Goal(step)
  OBVIOUS
<1>1. FallbackFor(a) \in {"apply", "throttle", "pause", "evict"}
  BY DEF FallbackFor
<1>2. ZeroResource \in ResourceSummary /\ fits(ZeroResource, cap)
  BY DEF ZeroResource, ResourceSummary, fits
<1>3. CASE ~fits(demand.fit, left)
  <2>1. step = [plan |-> [phase |-> "Failed", action |-> FallbackFor(a),
                          tier |-> "Rejected", assigned |-> ZeroResource],
                remaining |-> left]
    BY <1>3 DEF buildPlanForAllocation
  <2> HIDE DEF step
  <2> QED
    BY <1>1, <1>2, <2>1 DEF Plan
<1>4. CASE fits(demand.fit, left)
  <2>1. /\ assigned.budget \in ResourceSummary
        /\ assigned.tier \in {"Max", "Preferred", "Required"}
        /\ fits(assigned.budget, left)
    BY <1>4, AssignedFits
  <2>2. fits(assigned.budget, cap) /\ validateResources(assigned.budget, cap)
    BY <2>1, FitsTransitive, FittingIsValid
  <2>3. CASE ~checkConstraints(assigned.budget, cap)
    <3>1. step = [plan |-> [phase |-> "Failed", action |-> FallbackFor(a),
                            tier |-> "Degraded", assigned |-> assigned.budget],
                  remaining |-> left]
      BY <1>4, <2>3 DEF buildPlanForAllocation
    <3>2. cap[GPU] = 0
      BY <2>3, PlannerAssumption DEF checkConstraints, TokenThroughputRequiresGPU, ResourceSummary
    <3> HIDE DEF step, assigned, demand
    <3> QED
      BY <1>1, <2>1, <2>2, <3>1, <3>2 DEF Plan
  <2>4. CASE checkConstraints(assigned.budget, cap)
    <3>1. step = [plan |-> [phase |-> "PendingApply", action |-> "apply",
                            tier |-> assigned.tier, assigned |-> assigned.budget],
                  remaining |-> subtractResource(left, assigned.budget)]
      BY <1>4, <2>2, <2>4 DEF buildPlanForAllocation
    <3>2. /\ subtractResource(left, assigned.budget) \in ResourceSummary
          /\ fits(subtractResource(left, assigned.budget), cap)
      BY <2>1, SubtractShrinks, FitsTransitive
    <3>3. Takes(assigned.budget, demand)
      BY DEF Assigned, Takes
    <3> HIDE DEF step, assigned, demand
    <3> QED
      BY <2>1, <2>2, <3>1, <3>2, <3>3 DEF Plan
  <2> QED
    BY <2>3, <2>4
<1> QED
  BY <1>3, <1>4

-----------------------------------------------------------------------------
(* The inductive invariant. *)

\* What holds of the i-th plan once it is made.
PlanOK(i) ==
  /\ fits(plans[i].assigned, capacity)
  /\ plans[i].tier = "Degraded" => capacity[GPU] = 0
  /\ plans[i].phase = "PendingApply"
       => Takes(plans[i].assigned, Demand(ordered[i], hasAnyActiveTimeWindow(ordered, i)))

\* The list stays in the order the sort left it in.
Sorted == \A i, j \in DOMAIN ordered : i < j => rank(ordered[i]) >= rank(ordered[j])

PlannerInv ==
  /\ TypeOK
  /\ fits(remaining, capacity)
  /\ Sorted
  /\ \A i \in DOMAIN plans : PlanOK(i)

\* A rank is one of 0..4.
LEMMA RankType ==
  ASSUME NEW a PROVE rank(a) \in 0..4
BY DEF rank, priorityRank

\* newLedger starts with the observed capacity and the sorted list.
LEMMA InitInv == Init => PlannerInv
<1> SUFFICES ASSUME Init PROVE PlannerInv
  OBVIOUS
<1>1. PICK list \in Inputs, profile \in Nodes :
        /\ \E order \in orderAllocationsByPriorityAndWindow(list) :
             ordered = [i \in DOMAIN list |-> list[order[i]]]
        /\ capacity = observe(profile)
        /\ remaining = observe(profile)
        /\ plans = <<>>
  BY DEF Init
<1>2. PICK order \in [DOMAIN list -> DOMAIN list] :
        StableOrder(list, order) /\ ordered = [i \in DOMAIN list |-> list[order[i]]]
  BY <1>1 DEF orderAllocationsByPriorityAndWindow
<1>3. list \in Seq(Allocation) /\ profile \in NodeProfile
  BY PlannerAssumption
<1>4. ordered \in Seq(Allocation)
  BY <1>2, <1>3
<1>5. capacity \in ResourceSummary
  BY <1>1, <1>3 DEF observe, NodeProfile, ResourceSummary
<1>6. TypeOK
  BY <1>1, <1>4, <1>5 DEF TypeOK
<1>7. fits(remaining, capacity)
  BY <1>1, <1>5 DEF fits, ResourceSummary
<1>8. Sorted
  <2> SUFFICES ASSUME NEW i \in DOMAIN list, NEW j \in DOMAIN list, i < j
               PROVE  rank(list[order[i]]) >= rank(list[order[j]])
    BY <1>2 DEF Sorted
  <2> QED
    BY <1>2, RankType DEF StableOrder, Before
<1> QED
  BY <1>1, <1>6, <1>7, <1>8 DEF PlannerInv

\* Every iteration of the loop keeps the invariant.
LEMMA StepInv == PlannerInv /\ [Next]_vars => PlannerInv'
<1> SUFFICES ASSUME PlannerInv, [Next]_vars PROVE PlannerInv'
  OBVIOUS
<1>1. CASE UNCHANGED vars
  BY <1>1 DEF PlannerInv, TypeOK, Sorted, PlanOK, vars
<1>2. CASE Return
  BY <1>2 DEF Return, PlannerInv, TypeOK, Sorted, PlanOK, vars
<1>3. CASE PlanNext
  <2> DEFINE i == Len(plans) + 1
             active == hasAnyActiveTimeWindow(ordered, i)
             step == buildPlanForAllocation(ordered[i], active, remaining, capacity)
  <2>1. /\ Len(plans) < Len(ordered)
        /\ plans' = Append(plans, step.plan)
        /\ remaining' = step.remaining
        /\ UNCHANGED <<ordered, capacity>>
    BY <1>3 DEF PlanNext
  <2>2. i \in DOMAIN ordered /\ ordered[i] \in Allocation
    BY <2>1 DEF PlannerInv, TypeOK
  <2>3. active \in BOOLEAN
    BY DEF hasAnyActiveTimeWindow
  <2>4. /\ step.plan \in Plan
        /\ step.remaining \in ResourceSummary
        /\ fits(step.remaining, capacity)
        /\ fits(step.plan.assigned, capacity)
        /\ step.plan.tier = "Degraded" => capacity[GPU] = 0
        /\ step.plan.phase = "PendingApply"
             => Takes(step.plan.assigned, Demand(ordered[i], active))
    BY <2>2, <2>3, PlanFacts DEF PlannerInv, TypeOK
  <2> HIDE DEF step, active
  <2>5. TypeOK'
    BY <2>1, <2>4 DEF PlannerInv, TypeOK
  <2>6. fits(remaining, capacity)' /\ Sorted'
    BY <2>1, <2>4 DEF PlannerInv, Sorted
  <2>7. ASSUME NEW k \in DOMAIN plans' PROVE PlanOK(k)'
    <3>1. CASE k = i
      <4>1. plans'[k] = step.plan
        BY <2>1, <3>1 DEF PlannerInv, TypeOK
      <4> QED
        BY <2>1, <2>4, <3>1, <4>1 DEF PlanOK, active
    <3>2. CASE k # i
      <4>1. k \in DOMAIN plans /\ plans'[k] = plans[k]
        BY <2>1, <3>2 DEF PlannerInv, TypeOK
      <4> QED
        BY <2>1, <4>1 DEF PlanOK, PlannerInv
    <3> QED
      BY <3>1, <3>2
  <2> QED
    BY <2>5, <2>6, <2>7 DEF PlannerInv
<1> QED
  BY <1>1, <1>2, <1>3 DEF Next

\* BuildPlansAt keeps the inductive invariant at every iteration of its loop.
LEMMA PlannerInvariant == Spec => []PlannerInv
BY InitInv, StepInv, PTL DEF Spec

-----------------------------------------------------------------------------
(* The results. *)

\* The ledger never goes below zero and every plan is well formed, for any
\* list BuildPlans is given.
THEOREM PlannerTypeCorrect == Spec => []TypeOK
<1>1. PlannerInv => TypeOK
  BY DEF PlannerInv
<1> QED
  BY <1>1, PlannerInvariant, PTL

\* validateResources refuses nothing that ledger.reserve granted: a plan
\* degrades only when tokens are asked of a node without GPUs.
THEOREM ValidationIsRedundant == Spec => []DegradedOnlyWithoutGPU
<1>1. PlannerInv => DegradedOnlyWithoutGPU
  BY DEF PlannerInv, PlanOK, DegradedOnlyWithoutGPU
<1> QED
  BY <1>1, PlannerInvariant, PTL

\* A request that grows: neither preferred nor max asks for less than required
\* in any dimension.
Grows(a) ==
  /\ fits(requiredBudget(a), preferredBudget(a))
  /\ fits(requiredBudget(a), maxBudget(a))

\* Nothing in the API types enforces this on a profile.
GrowingInputs == \A list \in Inputs : \A i \in DOMAIN list : Grows(list[i])

OrderedGrows == \A i \in DOMAIN ordered : Grows(ordered[i])

\* The planner never changes the list, so its requests keep growing.
LEMMA GrowingKept ==
  ASSUME GrowingInputs PROVE Spec => []OrderedGrows
<1>1. Init => OrderedGrows
  <2> SUFFICES ASSUME Init PROVE OrderedGrows
    OBVIOUS
  <2>1. PICK list \in Inputs : \E order \in orderAllocationsByPriorityAndWindow(list) :
          ordered = [i \in DOMAIN list |-> list[order[i]]]
    BY DEF Init
  <2>2. PICK order \in [DOMAIN list -> DOMAIN list] :
          ordered = [i \in DOMAIN list |-> list[order[i]]]
    BY <2>1 DEF orderAllocationsByPriorityAndWindow
  <2> QED
    BY <2>2, GrowingInputs DEF GrowingInputs, OrderedGrows
<1>2. OrderedGrows /\ [Next]_vars => OrderedGrows'
  BY DEF OrderedGrows, Next, PlanNext, Return, vars
<1> QED
  BY <1>1, <1>2, PTL DEF Spec

\* When the requests of the profiles grow from required to preferred and max,
\* no accepted plan leaves a workload below its required budget.
THEOREM RequiredIsMet ==
  ASSUME GrowingInputs PROVE Spec => []RequiredMet
<1>1. PlannerInv /\ OrderedGrows => RequiredMet
  <2> SUFFICES ASSUME PlannerInv, OrderedGrows, NEW i \in Accepted
               PROVE  fits(requiredBudget(ordered[i]), plans[i].assigned)
    BY DEF RequiredMet
  <2> DEFINE active == hasAnyActiveTimeWindow(ordered, i)
             a == ordered[i]
  <2>1. i \in DOMAIN ordered /\ a \in Allocation
    BY DEF Accepted, PlannerInv, TypeOK
  <2>2. Takes(plans[i].assigned, Demand(a, active))
    BY DEF Accepted, PlannerInv, PlanOK
  <2>3. Grows(a)
    BY <2>1 DEF OrderedGrows
  <2>4. requiredBudget(a) \in ResourceSummary
    BY <2>1, BudgetTypes
  <2>5. fits(requiredBudget(a), requiredBudget(a))
    BY <2>4 DEF fits, ResourceSummary
  <2>6. isZeroResource(ZeroResource)
    BY DEF isZeroResource, ZeroResource
  <2> HIDE DEF a, active
  <2>7. fits(requiredBudget(a), plans[i].assigned)
    BY <2>2, <2>3, <2>5, <2>6 DEF Takes, Demand, Grows
  <2> QED
    BY <2>7 DEF a
<1> QED
  BY <1>1, PlannerInvariant, GrowingKept, PTL

\* Two priorities with the same rank are the same string, so the groups of
\* groupAllocationsByPriority are the ranks of the sort.
RanksAreGroups ==
  \A p, q \in Priorities : priorityRank(p) = priorityRank(q) => p = q

\* When no two priority strings share a rank, a workload outside its window
\* keeps exactly its required budget during another's peak of the same rank.
THEOREM PeakContract ==
  ASSUME RanksAreGroups PROVE Spec => []PeakKeepsRequired
<1>1. PlannerInv => PeakKeepsRequired
  <2> SUFFICES ASSUME PlannerInv, NEW i \in Accepted, NEW j \in DOMAIN ordered,
                      ordered[j].active, ~ordered[i].active,
                      rank(ordered[i]) = rank(ordered[j])
               PROVE  plans[i].assigned = requiredBudget(ordered[i])
    BY DEF PeakKeepsRequired
  <2>1. ordered \in Seq(Allocation) /\ i \in DOMAIN ordered
    BY DEF Accepted, PlannerInv, TypeOK
  <2>2. SameGroup(ordered, i, j)
    <3> SUFFICES ASSUME NEW k \in DOMAIN ordered,
                        (i <= k /\ k <= j) \/ (j <= k /\ k <= i)
                 PROVE  ordered[k].priority = ordered[i].priority
      BY DEF SameGroup
    <3>1. i \in Nat /\ j \in Nat /\ k \in Nat
      BY <2>1
    <3>2. rank(ordered[k]) = rank(ordered[i])
      <4>1. /\ rank(ordered[i]) \in 0..4
            /\ rank(ordered[j]) \in 0..4
            /\ rank(ordered[k]) \in 0..4
        BY RankType
      <4>2. \A l, m \in DOMAIN ordered : l < m => rank(ordered[l]) >= rank(ordered[m])
        BY DEF PlannerInv, Sorted
      <4>3. CASE k = i \/ k = j
        BY <4>3
      <4>4. CASE i < k /\ k < j
        BY <2>1, <4>1, <4>2, <4>4
      <4>5. CASE j < k /\ k < i
        BY <2>1, <4>1, <4>2, <4>5
      <4> QED
        BY <3>1, <4>3, <4>4, <4>5
    <3>3. ordered[k].priority \in Priorities /\ ordered[i].priority \in Priorities
      <4>1. ordered[k] \in Allocation /\ ordered[i] \in Allocation
        BY <2>1
      <4> QED
        BY <4>1 DEF Allocation
    <3> QED
      BY <3>2, <3>3, RanksAreGroups DEF RanksAreGroups, rank
  <2>3. hasAnyActiveTimeWindow(ordered, i)
    BY <2>2 DEF hasAnyActiveTimeWindow
  <2>4. Takes(plans[i].assigned, Demand(ordered[i], hasAnyActiveTimeWindow(ordered, i)))
    BY DEF Accepted, PlannerInv, PlanOK
  <2>5. isZeroResource(ZeroResource)
    BY DEF isZeroResource, ZeroResource
  <2> QED
    BY <2>3, <2>4, <2>5 DEF Takes, Demand
<1> QED
  BY <1>1, PlannerInvariant, PTL

=============================================================================
