----------------------- MODULE SchedulingCycleProofs -----------------------
(***************************************************************************)
(* What the scheduling cycle keeps true for any cluster, any profiles and  *)
(* any number of changes: the best tier is right in whatever order the     *)
(* parallel Score calls come, and Reserve sizes a reservation by what      *)
(* Filter saw.                                                             *)
(***************************************************************************)
EXTENDS SchedulingCycle, FiniteSetTheorems, TLAPS

\* The types the proofs need.
Types ==
  /\ stored \in Profiles \cup {Nil}
  /\ profile \in Profiles \cup {Nil}
  /\ actual \in [Nodes -> NodeProfiles \cup {Nil}]
  /\ nodeResources \in [Nodes -> NodeProfiles \cup {Nil}]
  /\ filtered \in [Nodes -> {Nil, "fits", "rejected"}]

\* The snapshot of a node that passed Filter is the one Filter judged, and it
\* is still the snapshot when Reserve sizes the budget.
SnapshotInv ==
  /\ \A n \in Nodes : nodeResources[n] # Nil \/ filtered[n] # "fits"
  /\ \A n \in Feasible : RunAllConstraints(profile, nodeResources[n])
  /\ pc \notin {"Idle", "Failed"} => profile \in Profiles
  /\ pc \in {"Reserve", "Reserved"} => chosen \in Feasible
  /\ pc = "Reserved" => resources = AllocationResources(profile, nodeResources[chosen])

\* best holds the largest match count so far and the nodes that reach it.
TierInv ==
  /\ best \in [matched : Int, score : Int, nodes : SUBSET Nodes]
  /\ initialScores \in [Nodes -> Int \cup {Nil}]
  /\ scoreDetails = [n \in Nodes |-> scoreDetails[n]]
  /\ best.matched >= -1
  /\ \A n \in Scored : /\ scoreDetails[n].matched \in Nat
                       /\ scoreDetails[n].matched <= best.matched
  /\ best.nodes = {n \in Scored : scoreDetails[n].matched = best.matched}
  /\ IF Scored = {} THEN best.matched = -1 ELSE best.nodes # {}

CycleInv == Types /\ SnapshotInv /\ TierInv

\* preferredMatchCount is a natural number, for there are finitely many
\* dimensions.
LEMMA MatchCountType ==
  ASSUME NEW preferred, NEW available
  PROVE  preferredMatchCount(preferred, available) \in Nat
<1>1. {d \in Dims : preferred[d] > 0 /\ available[d] >= preferred[d]} \in SUBSET Dims
  OBVIOUS
<1>2. IsFiniteSet({d \in Dims : preferred[d] > 0 /\ available[d] >= preferred[d]})
  BY <1>1, CycleAssumption, FS_Subset
<1> QED
  BY <1>2, FS_CardinalityType DEF preferredMatchCount

\* The same of the match count in the detail BuildDetail returns.
LEMMA DetailMatched ==
  ASSUME NEW p, NEW node
  PROVE  BuildDetail(p, node).matched \in Nat
BY MatchCountType DEF BuildDetail

\* nodeResourceForNode returns the cached profile of a node that has one, and
\* setNodeResource then changes nothing.
LEMMA CachedProfile ==
  ASSUME Types, NEW n \in Nodes, nodeResources[n] # Nil,
         setNodeResource(n, nodeResourceForNode(n))
  PROVE  nodeResources' = nodeResources /\ nodeResourceForNode(n) = nodeResources[n]
BY DEF Types, setNodeResource, nodeResourceForNode, Or

\* A cycle starts with an empty schedulingState.
LEMMA InitInv == Init => CycleInv
<1> SUFFICES ASSUME Init PROVE CycleInv
  OBVIOUS
<1>1. Types
  BY DEF Init, Types, None
<1>2. SnapshotInv
  BY CycleAssumption DEF Init, SnapshotInv, Feasible, None
<1>3. TierInv
  BY DEF Init, TierInv, Scored, None, NewBest
<1> QED
  BY <1>1, <1>2, <1>3 DEF CycleInv

\* PreFilter resets the schedulingState of the cycle before.
LEMMA PreFilterInv == CycleInv /\ PreFilter => CycleInv'
<1> SUFFICES ASSUME CycleInv, PreFilter PROVE CycleInv'
  OBVIOUS
<1>1. Types'
  BY DEF CycleInv, Types, PreFilter, None, server
<1>2. SnapshotInv'
  BY CycleAssumption DEF CycleInv, Types, PreFilter, SnapshotInv, Feasible, None, server
<1>3. TierInv'
  BY DEF PreFilter, TierInv, Scored, None, NewBest
<1> QED
  BY <1>1, <1>2, <1>3 DEF CycleInv

\* Filter caches the profile it judges before it answers.
LEMMA FilterInv == \A n \in Nodes : CycleInv /\ Filter(n) => CycleInv'
<1> SUFFICES ASSUME NEW n \in Nodes, CycleInv, Filter(n) PROVE CycleInv'
  OBVIOUS
<1> DEFINE node == nodeResourceForNode(n)
<1>1. node \in NodeProfiles \cup {Nil}
  BY DEF CycleInv, Types, nodeResourceForNode
<1>2. /\ nodeResources' = [nodeResources EXCEPT ![n] = Or(node, nodeResources[n])]
      /\ filtered' = [filtered EXCEPT ![n] =
            IF node # Nil /\ RunAllConstraints(profile, node) THEN "fits" ELSE "rejected"]
      /\ UNCHANGED <<stored, actual, profile, pc, chosen, resources>>
      /\ pc = "Filter"
  BY DEF Filter, setNodeResource, server
<1> HIDE DEF node
<1>3. Types'
  BY <1>1, <1>2 DEF CycleInv, Types, Or
<1>4. SnapshotInv'
  <2>1. \A m \in Nodes \ {n} : /\ nodeResources'[m] = nodeResources[m]
                               /\ filtered'[m] = filtered[m]
    BY <1>2 DEF CycleInv, Types
  <2>2. filtered'[n] = "fits" =>
           /\ nodeResources'[n] = node /\ node # Nil /\ RunAllConstraints(profile, node)
    BY <1>2 DEF CycleInv, Types, Or
  <2>3. \A m \in Nodes : nodeResources'[m] # Nil \/ filtered'[m] # "fits"
    BY <2>1, <2>2 DEF CycleInv, SnapshotInv
  <2>4. \A m \in Feasible' : RunAllConstraints(profile, nodeResources'[m])
    BY <2>1, <2>2 DEF CycleInv, SnapshotInv, Feasible
  <2> QED
    BY <2>3, <2>4, <1>2 DEF CycleInv, SnapshotInv, Feasible
<1>5. TierInv'
  BY DEF CycleInv, TierInv, Filter, Scored
<1> QED
  BY <1>3, <1>4, <1>5 DEF CycleInv

\* recordScoreDetail replaces, extends or keeps the best tier.
LEMMA ScoreInv == \A n \in Nodes : CycleInv /\ Score(n) => CycleInv'
<1> SUFFICES ASSUME NEW n \in Nodes, CycleInv, Score(n) PROVE CycleInv'
  OBVIOUS
<1>1. nodeResources[n] # Nil
  BY DEF CycleInv, SnapshotInv, Score, Feasible
<1>2. nodeResources' = nodeResources
  BY <1>1, CachedProfile DEF CycleInv, Score
<1>3. Types'
  BY <1>2 DEF CycleInv, Types, Score, server
<1>4. SnapshotInv'
  BY <1>2 DEF CycleInv, SnapshotInv, Score, Feasible
<1>5. TierInv'
  <2> DEFINE detail == BuildDetail(profile, nodeResourceForNode(n))
  <2>1. recordScoreDetail(n, detail) /\ initialScores[n] = Nil
    BY DEF Score
  <2>2. detail.matched \in Nat
    BY DetailMatched
  <2> HIDE DEF detail
  <2>3. TierInv
    BY DEF CycleInv
  <2>4. /\ scoreDetails' = [scoreDetails EXCEPT ![n] = detail]
        /\ initialScores' \in [Nodes -> Int \cup {Nil}]
        /\ initialScores'[n] # Nil
        /\ \A m \in Nodes \ {n} : initialScores'[m] = initialScores[m]
    BY <2>1, <2>2, <2>3, CycleAssumption DEF recordScoreDetail, TierInv
  <2>5. /\ Scored' = Scored \cup {n} /\ n \notin Scored
        /\ scoreDetails'[n] = detail
        /\ \A m \in Scored : scoreDetails'[m] = scoreDetails[m]
        /\ scoreDetails' = [m \in Nodes |-> scoreDetails'[m]]
    BY <2>1, <2>3, <2>4 DEF Scored, TierInv
  <2>6. CASE detail.matched > best.matched
    <3>1. best' = [matched |-> detail.matched, score |-> best.score + 1, nodes |-> {n}]
      BY <2>1, <2>6 DEF recordScoreDetail
    <3>2. \A m \in Scored : /\ scoreDetails'[m].matched \in Nat
                             /\ scoreDetails'[m].matched < detail.matched
      BY <2>2, <2>3, <2>5, <2>6 DEF TierInv
    <3>3. {n} = {m \in Scored' : scoreDetails'[m].matched = detail.matched}
      BY <2>2, <2>5, <3>2
    <3>4. /\ best' \in [matched : Int, score : Int, nodes : SUBSET Nodes]
          /\ best'.matched = detail.matched /\ best'.nodes = {n}
      BY <3>1, <2>2, <2>3 DEF TierInv
    <3> QED
      BY <3>2, <3>3, <3>4, <2>2, <2>4, <2>5 DEF TierInv
  <2>7. CASE detail.matched = best.matched
    <3>1. best' = [best EXCEPT !.nodes = @ \cup {n}]
      BY <2>1, <2>2, <2>3, <2>7 DEF recordScoreDetail, TierInv
    <3> QED
      BY <3>1, <2>2, <2>3, <2>4, <2>5, <2>7 DEF TierInv
  <2>8. CASE detail.matched < best.matched
    <3>1. best' = best
      BY <2>1, <2>2, <2>3, <2>8 DEF recordScoreDetail, TierInv
    <3>2. Scored # {}
      BY <2>2, <2>3, <2>8 DEF TierInv
    <3> QED
      BY <3>1, <3>2, <2>2, <2>3, <2>4, <2>5, <2>8 DEF TierInv
  <2> QED
    BY <2>2, <2>3, <2>6, <2>7, <2>8 DEF TierInv
<1> QED
  BY <1>3, <1>4, <1>5 DEF CycleInv

\* Reserve sizes the budget by the snapshot of the chosen node.
LEMMA ReserveInv == CycleInv /\ Reserve => CycleInv'
<1> SUFFICES ASSUME CycleInv, Reserve PROVE CycleInv'
  OBVIOUS
<1>1. chosen \in Nodes /\ nodeResources[chosen] # Nil
  BY DEF CycleInv, SnapshotInv, Reserve, Feasible
<1>2. nodeResources' = nodeResources /\ nodeResourceForNode(chosen) = nodeResources[chosen]
  BY <1>1, CachedProfile DEF CycleInv, Reserve
<1>3. Types'
  BY <1>2 DEF CycleInv, Types, Reserve, server
<1>4. SnapshotInv'
  BY <1>2 DEF CycleInv, SnapshotInv, Reserve, Feasible
<1>5. TierInv'
  BY DEF CycleInv, TierInv, Reserve, Scored
<1> QED
  BY <1>3, <1>4, <1>5 DEF CycleInv

\* The steps of the framework and of the API server leave the schedulingState
\* of the cycle alone.
LEMMA OtherInv ==
  ASSUME CycleInv,
         \/ Error \/ FilterEnds \/ ScoreEnds \/ NormalizeScore
         \/ \E n \in Nodes : SelectHost(n)
         \/ \E p \in Profiles \cup {Nil} : ProfileChange(p)
         \/ \E n \in Nodes, node \in NodeProfiles \cup {Nil} : NodeChange(n, node)
  PROVE  CycleInv'
<1>1. CASE Error
  <2>1. Types'
    BY <1>1 DEF CycleInv, Types, Error, server
  <2>2. SnapshotInv'
    BY <1>1 DEF CycleInv, SnapshotInv, Error, Feasible
  <2>3. TierInv'
    BY <1>1 DEF CycleInv, TierInv, Error, Scored
  <2> QED
    BY <2>1, <2>2, <2>3 DEF CycleInv
<1>2. CASE FilterEnds
  <2>1. Types'
    BY <1>2 DEF CycleInv, Types, FilterEnds, server
  <2>2. SnapshotInv'
    BY <1>2 DEF CycleInv, SnapshotInv, FilterEnds, Feasible
  <2>3. TierInv'
    BY <1>2 DEF CycleInv, TierInv, FilterEnds, Scored
  <2> QED
    BY <2>1, <2>2, <2>3 DEF CycleInv
<1>3. CASE ScoreEnds
  <2>1. Types'
    BY <1>3 DEF CycleInv, Types, ScoreEnds, server
  <2>2. SnapshotInv'
    BY <1>3 DEF CycleInv, SnapshotInv, ScoreEnds, Feasible
  <2>3. TierInv'
    BY <1>3 DEF CycleInv, TierInv, ScoreEnds, Scored
  <2> QED
    BY <2>1, <2>2, <2>3 DEF CycleInv
<1>4. CASE NormalizeScore
  <2>1. Types'
    BY <1>4 DEF CycleInv, Types, NormalizeScore, server
  <2>2. SnapshotInv'
    BY <1>4 DEF CycleInv, SnapshotInv, NormalizeScore, Feasible
  <2>3. TierInv'
    BY <1>4 DEF CycleInv, TierInv, NormalizeScore, Scored
  <2> QED
    BY <2>1, <2>2, <2>3 DEF CycleInv
<1>5. CASE \E n \in Nodes : SelectHost(n)
  <2>1. PICK n \in Nodes : SelectHost(n)
    BY <1>5
  <2>2. Types'
    BY <2>1 DEF CycleInv, Types, SelectHost, server
  <2>3. SnapshotInv'
    BY <2>1 DEF CycleInv, SnapshotInv, SelectHost, Feasible
  <2>4. TierInv'
    BY <2>1 DEF CycleInv, TierInv, SelectHost, Scored
  <2> QED
    BY <2>2, <2>3, <2>4 DEF CycleInv
<1>6. CASE \E p \in Profiles \cup {Nil} : ProfileChange(p)
  <2>1. PICK p \in Profiles \cup {Nil} : ProfileChange(p)
    BY <1>6
  <2>2. Types'
    BY <2>1 DEF CycleInv, Types, ProfileChange
  <2>3. SnapshotInv'
    BY <2>1 DEF CycleInv, SnapshotInv, ProfileChange, Feasible
  <2>4. TierInv'
    BY <2>1 DEF CycleInv, TierInv, ProfileChange, Scored
  <2> QED
    BY <2>2, <2>3, <2>4 DEF CycleInv
<1>7. CASE \E n \in Nodes, node \in NodeProfiles \cup {Nil} : NodeChange(n, node)
  <2>1. PICK n \in Nodes, node \in NodeProfiles \cup {Nil} : NodeChange(n, node)
    BY <1>7
  <2>2. Types'
    BY <2>1 DEF CycleInv, Types, NodeChange
  <2>3. SnapshotInv'
    BY <2>1 DEF CycleInv, SnapshotInv, NodeChange, Feasible
  <2>4. TierInv'
    BY <2>1 DEF CycleInv, TierInv, NodeChange, Scored
  <2> QED
    BY <2>2, <2>3, <2>4 DEF CycleInv
<1> QED
  BY <1>1, <1>2, <1>3, <1>4, <1>5, <1>6, <1>7

\* Every step of the cycle keeps the invariant.
LEMMA StepInv == CycleInv /\ [Next]_vars => CycleInv'
<1> SUFFICES ASSUME CycleInv, [Next]_vars PROVE CycleInv'
  OBVIOUS
<1>1. CASE UNCHANGED vars
  BY <1>1 DEF CycleInv, Types, SnapshotInv, TierInv, Feasible, Scored, vars
<1>2. CASE Next
  BY <1>2, PreFilterInv, FilterInv, ScoreInv, ReserveInv, OtherInv DEF Next, Cycle
<1> QED
  BY <1>1, <1>2

\* The invariant holds throughout.
LEMMA CycleInvariant == Spec => []CycleInv
BY InitInv, StepInv, PTL DEF Spec

\* For every cluster, however the parallel Score calls are ordered, the nodes
\* recordScoreDetail keeps are those that match the most preferred dimensions.
THEOREM BestTierIsRight == Spec => []BestTier
<1>1. CycleInv => BestTier
  <2> SUFFICES ASSUME TierInv PROVE BestTier
    BY DEF CycleInv
  <2>1. \A n \in best.nodes : n \in Scored /\ scoreDetails[n].matched = best.matched
    BY DEF TierInv
  <2>2. \A n \in Scored :
          n \in best.nodes <=> \A m \in Scored :
                                 scoreDetails[m].matched <= scoreDetails[n].matched
    <3> SUFFICES ASSUME NEW n \in Scored
                 PROVE  n \in best.nodes <=> \A m \in Scored :
                          scoreDetails[m].matched <= scoreDetails[n].matched
      OBVIOUS
    <3>1. CASE n \in best.nodes
      BY <2>1, <3>1 DEF TierInv
    <3>2. CASE n \notin best.nodes
      <4>1. PICK b \in best.nodes : TRUE
        BY DEF TierInv
      <4>2. b \in Scored /\ scoreDetails[b].matched = best.matched
        BY <2>1
      <4>3. ~(scoreDetails[b].matched <= scoreDetails[n].matched)
        BY <4>2, <3>2 DEF TierInv
      <4> QED
        BY <3>2, <4>2, <4>3
    <3> QED
      BY <3>1, <3>2
  <2> QED
    BY <2>1, <2>2 DEF BestTier
<1> QED
  BY <1>1, CycleInvariant, PTL

\* For every cluster and whatever changes between Filter and Reserve, what
\* Reserve enters in the ledger fits the availability Filter approved, and it
\* covers the requirement if profiles prefer no less than they require.
THEOREM ReservationsFit ==
  ASSUME GrowingProfiles
  PROVE  Spec => []ReservationFits
<1>1. CycleInv => ReservationFits
  <2> SUFFICES ASSUME Types, SnapshotInv, pc = "Reserved"
               PROVE  /\ nodeResources[chosen].available # Nil
                      /\ fits(resources, nodeResources[chosen].available)
                      /\ fits(requiredResources(profile), resources)
    BY DEF CycleInv, ReservationFits
  <2> DEFINE node == nodeResources[chosen]
             required == requiredResources(profile)
             preferred == preferredResources(profile)
  <2>1. /\ profile \in Profiles /\ chosen \in Nodes /\ node \in NodeProfiles
        /\ RunAllConstraints(profile, node)
        /\ resources = AllocationResources(profile, node)
    BY DEF SnapshotInv, Feasible, Types
  <2>2. node.available # Nil /\ fits(required, node.available)
    BY <2>1 DEF RunAllConstraints, Base, RequiredResourceFit
  <2>3. /\ node.available \in ResourceSummary
        /\ required \in ResourceSummary /\ preferred \in ResourceSummary
    BY <2>1, <2>2, CycleAssumption
  <2>4. resources = [d \in Dims |-> allocationResourceValue(required[d], preferred[d],
                                                            node.available[d])]
    BY <2>1, <2>2 DEF AllocationResources
  <2>5. \A d \in Dims : preferred[d] = 0 \/ required[d] <= preferred[d]
    BY <2>1 DEF GrowingProfiles
  <2> HIDE DEF node, required, preferred
  <2>6. ASSUME NEW d \in Dims
        PROVE  resources[d] <= node.available[d] /\ required[d] <= resources[d]
    <3>1. node.available[d] \in Nat /\ required[d] \in Nat /\ preferred[d] \in Nat
      BY <2>3 DEF ResourceSummary
    <3>2. required[d] <= node.available[d]
      BY <2>2 DEF fits
    <3> QED
      BY <2>4, <2>5, <3>1, <3>2 DEF allocationResourceValue
  <2> QED
    BY <2>2, <2>6 DEF fits, node, required
<1> QED
  BY <1>1, CycleInvariant, PTL

=============================================================================
