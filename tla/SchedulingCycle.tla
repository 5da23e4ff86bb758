-------------------------- MODULE SchedulingCycle --------------------------
(***************************************************************************)
(* One pod after another through the scheduler plugin's part of the        *)
(* scheduling cycle (internal/scheduler/plugin: filter.go, score.go,       *)
(* resolver.go, state.go, and the first half of Reserve), while the agents *)
(* go on updating the node profiles and a user edits the workload profile. *)
(* The framework runs Filter and Score over the nodes in parallel.  The    *)
(* schedulingState of the cycle is shared by these calls under its mutex:  *)
(* a call is one step, for it touches the state once and otherwise reads   *)
(* what no other call writes.                                              *)
(*                                                                         *)
(* The write of the reservation is the module AllocationLedger.            *)
(***************************************************************************)
EXTENDS ScorePolicy, FiniteSets

CONSTANTS Nodes,         \* the nodes of the cluster
          Profiles,      \* the contents the workload's AIWorkloadProfile may have
          NodeProfiles,  \* the contents an AINodeResourceProfile may have
          MaxChanges     \* bound: changes of API objects during the run

ASSUME CycleAssumption ==
  /\ IsFiniteSet(Dims)
  /\ Nil \notin Profiles \cup NodeProfiles \cup Int \cup {"fits", "rejected"}
  /\ \A p \in Profiles : /\ requiredResources(p) \in ResourceSummary
                         /\ preferredResources(p) \in ResourceSummary
  /\ \A n \in NodeProfiles : n.available \in ResourceSummary \cup {Nil}

\* No profile prefers less than it requires of a dimension it has a preference for.
GrowingProfiles ==
  \A p \in Profiles, d \in Dims :
    preferredResources(p)[d] = 0 \/ requiredResources(p)[d] <= preferredResources(p)[d]

VARIABLES pc,             \* where the cycle is
          stored,         \* the AIWorkloadProfile on the API server, or Nil
          actual,         \* the AINodeResourceProfiles there, Nil where there is none
          changes,        \* how many times these changed
          profile,        \* schedulingState.profile
          nodeResources,  \* schedulingState.nodeResources
          filtered,       \* Filter's answer for each node
          scoreDetails,   \* schedulingState.scoreDetails
          best,           \* bestPreferredMatched, bestPreferredScore, bestPreferredNodes
          initialScores,  \* what Score returned for each node
          scores,         \* what NormalizeScore made of it
          chosen,         \* the node the framework chose
          resources       \* the budget Reserve enters in the ledger

server == <<stored, actual, changes>>
vars == <<pc, stored, actual, changes, profile, nodeResources, filtered, scoreDetails, best,
          initialScores, scores, chosen, resources>>

None == [n \in Nodes |-> Nil]

\* newSchedulingState: below any match count, and one below the first score.
NewBest == [matched |-> -1, score |-> 1, nodes |-> {}]

Feasible == {n \in Nodes : filtered[n] = "fits"}

\* Types of the state of a scheduling cycle: the best tier has only nodes that
\* passed Filter, and NormalizeScore leaves every score in the range 0 to
\* MaxNodeScore that the framework insists on.
TypeOK ==
  /\ pc \in {"Idle", "Filter", "Score", "Normalize", "Select", "Reserve", "Reserved", "Failed"}
  /\ stored \in Profiles \cup {Nil} /\ profile \in Profiles \cup {Nil}
  /\ actual \in [Nodes -> NodeProfiles \cup {Nil}]
  /\ nodeResources \in [Nodes -> NodeProfiles \cup {Nil}]
  /\ filtered \in [Nodes -> {Nil, "fits", "rejected"}]
  /\ best.nodes \subseteq Feasible
  /\ scores \in [Nodes -> (0..MaxNodeScore) \cup {Nil}]
  /\ chosen \in Nodes \cup {Nil}
  /\ resources \in ResourceSummary \cup {Nil}

-----------------------------------------------------------------------------
(* The API server. *)

ProfileChange(p) ==
  /\ changes < MaxChanges
  /\ changes' = changes + 1
  /\ stored' = p
  /\ UNCHANGED <<pc, actual, profile, nodeResources, filtered, scoreDetails, best,
                 initialScores, scores, chosen, resources>>

NodeChange(n, node) ==
  /\ changes < MaxChanges
  /\ changes' = changes + 1
  /\ actual' = [actual EXCEPT ![n] = node]
  /\ UNCHANGED <<pc, stored, profile, nodeResources, filtered, scoreDetails, best,
                 initialScores, scores, chosen, resources>>

-----------------------------------------------------------------------------
(* The extension points. *)

Init ==
  /\ pc = "Idle"
  /\ stored \in Profiles \cup {Nil}
  /\ actual \in [Nodes -> NodeProfiles \cup {Nil}]
  /\ changes = 0
  /\ profile = Nil /\ chosen = Nil /\ resources = Nil
  /\ nodeResources = None /\ filtered = None /\ scoreDetails = None
  /\ initialScores = None /\ scores = None
  /\ best = NewBest

\* PreFilter: resolveProfile and a new schedulingState.  A profile that is not
\* found, or an error, ends the cycle.
PreFilter ==
  /\ pc \in {"Idle", "Reserved", "Failed"}
  /\ \/ pc' = "Filter" /\ stored # Nil /\ profile' = stored
     \/ pc' = "Failed" /\ profile' = Nil
  /\ chosen' = Nil /\ resources' = Nil
  /\ nodeResources' = None /\ filtered' = None /\ scoreDetails' = None
  /\ initialScores' = None /\ scores' = None
  /\ best' = NewBest
  /\ UNCHANGED server

\* Variant: the API server is asked every time.
nodeResourceAlwaysLive(n) == actual[n]

\* nodeResourceForNode: from the schedulingState, or else from the API server.
nodeResourceForNode(n) == IF nodeResources[n] # Nil THEN nodeResources[n] ELSE actual[n]

\* setNodeResource: what was found is kept.
setNodeResource(n, node) ==
  nodeResources' = [nodeResources EXCEPT ![n] = Or(node, nodeResources[n])]

Filter(n) ==
  /\ pc = "Filter" /\ filtered[n] = Nil
  /\ LET node == nodeResourceForNode(n) IN
     /\ setNodeResource(n, node)
     /\ filtered' = [filtered EXCEPT ![n] =
                       IF node # Nil /\ RunAllConstraints(profile, node)
                         THEN "fits" ELSE "rejected"]
  /\ UNCHANGED <<pc, server, profile, scoreDetails, best, initialScores, scores, chosen,
                 resources>>

\* A Get that fails, in Filter or in the write of Reserve, ends the cycle.
Error ==
  /\ pc \in {"Filter", "Reserve"}
  /\ pc' = "Failed"
  /\ UNCHANGED <<server, profile, nodeResources, filtered, scoreDetails, best,
                 initialScores, scores, chosen, resources>>

\* The framework scores only if there is a choice.
FilterEnds ==
  /\ pc = "Filter"
  /\ \A n \in Nodes : filtered[n] # Nil
  /\ pc' = IF Feasible = {} THEN "Failed"
           ELSE IF \E n \in Nodes : Feasible = {n} THEN "Select" ELSE "Score"
  /\ UNCHANGED <<server, profile, nodeResources, filtered, scoreDetails, best,
                 initialScores, scores, chosen, resources>>

\* Variant: a better node joins the tier it should replace.
recordIntoOldTier(n, detail) ==
  LET improved == detail.matched > best.matched
      tier     == IF improved
                    THEN [matched |-> detail.matched, score |-> best.score + 1,
                          nodes |-> best.nodes \cup {n}]
                  ELSE IF detail.matched = best.matched
                    THEN [best EXCEPT !.nodes = @ \cup {n}]
                  ELSE best
  IN  /\ scoreDetails' = [scoreDetails EXCEPT ![n] = detail]
      /\ best' = tier
      /\ initialScores' = [initialScores EXCEPT ![n] =
                             IF detail.matched < best.matched THEN best.score - 1 ELSE tier.score]

\* recordScoreDetail: more matched dimensions replace the best tier, as many
\* join it, and fewer score one less.
recordScoreDetail(n, detail) ==
  LET tier == IF detail.matched > best.matched
                THEN [matched |-> detail.matched, score |-> best.score + 1, nodes |-> {n}]
              ELSE IF detail.matched = best.matched
                THEN [best EXCEPT !.nodes = @ \cup {n}]
              ELSE best
  IN  /\ scoreDetails' = [scoreDetails EXCEPT ![n] = detail]
      /\ best' = tier
      /\ initialScores' = [initialScores EXCEPT ![n] =
                             IF detail.matched < best.matched THEN best.score - 1 ELSE tier.score]

\* Score of a node that passed Filter, whose profile is in the schedulingState.
Score(n) ==
  /\ pc = "Score" /\ n \in Feasible /\ initialScores[n] = Nil
  /\ LET node == nodeResourceForNode(n) IN
     /\ node # Nil
     /\ recordScoreDetail(n, BuildDetail(profile, node))
     /\ setNodeResource(n, node)
  /\ UNCHANGED <<pc, server, profile, filtered, scores, chosen, resources>>

ScoreEnds ==
  /\ pc = "Score"
  /\ \A n \in Feasible : initialScores[n] # Nil
  /\ pc' = "Normalize"
  /\ UNCHANGED <<server, profile, nodeResources, filtered, scoreDetails, best,
                 initialScores, scores, chosen, resources>>

\* Variant: half of the best score, not of the worst in the best tier.
halfOfBestScore(decisions) == IF decisions = {} THEN 0 ELSE Max(decisions) \div 2

\* nonBestPreferredTierScore.
nonBestPreferredTierScore(decisions) ==
  IF decisions = {} \/ Min(decisions) <= 0 THEN 0 ELSE Min(decisions) \div 2

NormalizeScore ==
  /\ pc = "Normalize"
  /\ LET decision(n) == Normalize(scoreDetails[n])
         loserScore == nonBestPreferredTierScore({decision(n) : n \in best.nodes})
     IN  scores' = [n \in Nodes |-> IF n \notin Feasible THEN Nil
                                    ELSE IF n \in best.nodes THEN decision(n)
                                    ELSE IF scoreDetails[n] # Nil THEN loserScore
                                    ELSE 0]
  /\ pc' = IF best.nodes = {} THEN "Failed" ELSE "Select"
  /\ UNCHANGED <<server, profile, nodeResources, filtered, scoreDetails, best,
                 initialScores, chosen, resources>>

\* The framework adds the scores of the other plugins: any feasible node may win.
SelectHost(n) ==
  /\ pc = "Select" /\ n \in Feasible
  /\ chosen' = n
  /\ pc' = "Reserve"
  /\ UNCHANGED <<server, profile, nodeResources, filtered, scoreDetails, best,
                 initialScores, scores, resources>>

\* Reserve up to the write of the ledger.
Reserve ==
  /\ pc = "Reserve"
  /\ LET node == nodeResourceForNode(chosen) IN
     /\ node # Nil
     /\ resources' = AllocationResources(profile, node)
     /\ setNodeResource(chosen, node)
  /\ pc' = "Reserved"
  /\ UNCHANGED <<server, profile, filtered, scoreDetails, best, initialScores, scores, chosen>>

Cycle ==
  \/ PreFilter \/ Error \/ FilterEnds \/ ScoreEnds \/ NormalizeScore \/ Reserve
  \/ \E n \in Nodes : Filter(n) \/ Score(n) \/ SelectHost(n)

Next ==
  \/ Cycle
  \/ \E p \in Profiles \cup {Nil} : ProfileChange(p)
  \/ \E n \in Nodes, node \in NodeProfiles \cup {Nil} : NodeChange(n, node)

Spec == Init /\ [][Next]_vars

-----------------------------------------------------------------------------
(* Properties. *)

Scored == {n \in Nodes : initialScores[n] # Nil}

\* The best tier is the set of scored nodes that match the most preferred
\* dimensions, in whatever order the parallel Score calls came in.
BestTier ==
  /\ best.nodes = {n \in Scored : \A m \in Scored :
                     scoreDetails[m].matched <= scoreDetails[n].matched}
  /\ \A n \in best.nodes : scoreDetails[n].matched = best.matched

\* Nodes below the best tier are scored below it in normalization: one that
\* matches fewer preferred dimensions gets less than every node of the best tier.
LosersBelow ==
  \A n \in Scored \ best.nodes, b \in best.nodes :
    scores[n] # Nil => scores[n] < scores[b]

\* A reservation fits the availability by which Filter let the node pass and
\* covers what the profile requires, though both the node's profile and the
\* workload's may have changed between Filter and Reserve.
ReservationFits ==
  pc = "Reserved" => /\ nodeResources[chosen].available # Nil
                     /\ fits(resources, nodeResources[chosen].available)
                     /\ fits(requiredResources(profile), resources)

=============================================================================
