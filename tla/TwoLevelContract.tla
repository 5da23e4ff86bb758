-------------------------- MODULE TwoLevelContract --------------------------
(***************************************************************************)
(* The two levels together on one node: the scheduler's Filter admits      *)
(* workloads by the status the node last reported, and Reserve sizes their *)
(* entries; the agent's passes report the entries they list, share the     *)
(* node among them, record plan by plan, and report what was applied.  The *)
(* scheduler does not wait for the agent: it may admit at any point of a   *)
(* pass, by a report that does not have what it admitted before.  Any call *)
(* of the agent may fail and end the pass; its cache lags.                 *)
(*                                                                         *)
(* The API server accepts the reports (see TwoEntries in AgentReconcile).  *)
(* The writes of one plan are one step: the scheduler does not read them,  *)
(* and the agent's next reads are after the last of them.                  *)
(***************************************************************************)
EXTENDS ScorePolicy, FiniteSets

CONSTANTS GPU,        \* the GPU count dimension
          Workloads,  \* the workloads
          Profile,    \* the profile of each
          Capacity,   \* what the node can allocate
          MaxAdmitted,  \* bound: workloads that come
          MaxLeft,      \* bound: workloads that leave
          MaxFailures   \* bound: calls of the agent that fail, and its restarts

ASSUME ContractAssumption ==
  /\ Capacity \in ResourceSummary
  /\ \A w \in Workloads : Profile[w].windows \subseteq Window
  /\ \A w \in Workloads : Profile[w].required # Nil
  /\ \A w \in Workloads : "Evictable" \notin Profile[w].policy   \* migrations: AgentReconcile

VARIABLES ledger,    \* the ledger object: its entries, oldest first, and status.workloads
          cached,    \* the object as the agent's cache still may have it
          pc,        \* what the agent's pass does next
          listed,    \* the object as the pass listed it
          plans,     \* the plans not carried out yet, in planning order
          reported,  \* the items in the AINodeResourceProfile's status
          informed,  \* those admitted by a report that had all of their rank
          departed,  \* workloads that have left so far
          failures   \* calls failed so far

pass == <<pc, listed, plans>>
vars == <<ledger, cached, pass, reported, informed, departed, failures>>

\* An object without entries does not exist (Unreserve deletes it).
Absent == [entries |-> <<>>, statuses |-> <<>>]

Names(items) == {items[i].name : i \in DOMAIN items}

admitted == Names(ledger.entries)

PriorityName == [rank \in 0..4 |-> <<"", "low", "medium", "high", "critical">>[rank + 1]]

Planner == INSTANCE LocalPlanner
  WITH Priorities <- {PriorityName[r] : r \in 0..4},
       Lower      <- [p \in {PriorityName[r] : r \in 0..4} |-> p],
       GPUDims    <- Dims \ TokenDims,
       KVDims     <- {},
       Inputs     <- {},
       Nodes      <- {},
       ordered    <- <<>>,
       capacity   <- Capacity,
       remaining  <- Capacity,
       plans      <- <<>>

-----------------------------------------------------------------------------
(* The agent. *)

\* allocationWorkloadSpec and allocationActions, as expandNodeAllocationLedgers
\* hands the entry to the planner.  The budget Reserve sized is not needed, for
\* the planner looks at it only when nothing is required.
Allocation(w, minute) ==
  [priority  |-> PriorityName[Profile[w].rank],
   active    |-> activeTimeWindow(Profile[w].windows, minute),
   actions   |-> Profile[w].policy \cap {"Throttleable", "Pauseable", "Evictable"},
   required  |-> Profile[w].required,
   preferred |-> Profile[w].preferred,
   max       |-> Profile[w].max,
   resources |-> Nil]

\* The ledgers there may be, oldest entry first (an enumerated set, so that TLC
\* evaluates BuildPlans once).
Ledgers == {list : list \in SetToAllKPermutations(Workloads)}

\* orderAllocationsByPriorityAndWindow for the entries of a ledger.
Ordered(list, minute) ==
  LET allocations == [i \in DOMAIN list |-> Allocation(list[i], minute)]
      order == CHOOSE o \in Planner!orderAllocationsByPriorityAndWindow(allocations) : TRUE
  IN  [i \in DOMAIN list |-> list[order[i]]]

\* BuildPlans: the entries of a ledger in planning order, each with its plan.
BuildPlans ==
  [list \in Ledgers, minute \in Minutes |->
     LET ordered == Ordered(list, minute)
         built   == Planner!PlansOf([i \in DOMAIN list |-> Allocation(ordered[i], minute)],
                                    Capacity)
     IN  [i \in DOMAIN list |-> [name |-> ordered[i], plan |-> built[i]]]]

buildHourlyForecast ==
  [w \in Workloads |-> [hour \in Hours |->
     IF /\ hourInForecastWindows(Profile[w].windows, hour)
        /\ ~isZeroResource(maxResources(Profile[w]))
       THEN maxResources(Profile[w]) ELSE requiredResources(Profile[w])]]

\* expandNodeAllocationLedgers: each entry with its own status, or (phase "") with
\* the budget Reserve sized only.
Items(o) ==
  [i \in DOMAIN o.entries |->
     LET own == SelectSeq(o.statuses, LAMBDA s : s.name = o.entries[i].name)
     IN  IF own = <<>> THEN [name |-> o.entries[i].name, phase |-> "",
                             budget |-> o.entries[i].budget]
         ELSE own[1]]

\* nodeAllocationStatuses for one item.
NodeAllocation(e) ==
  LET planned == e.phase # ""
      w == e.name
  IN  [type |-> Profile[w].type, rank |-> Profile[w].rank, shape |-> Profile[w].shape,
       windows |-> Profile[w].windows, actions |-> Allocation(w, 0).actions,
       request |-> Profile[w],
       forecast |-> IF planned THEN buildHourlyForecast[w] ELSE Nil,
       current |-> IF planned THEN e.budget ELSE Nil, resources |-> e.budget]

Sum(values) == FoldLeft(addResource, ZeroResource, values)

\* hourlyForecastFromAllocations for one of them: without a forecast it counts
\* for every hour what it has now.
ForecastOf(e, hour) == IF e.phase # "" THEN buildHourlyForecast[e.name][hour] ELSE e.budget

\* Snapshot: the status for these entries.
Snapshot(entries) ==
  LET allocated == Sum([i \in DOMAIN entries |-> entries[i].budget]) IN
  [ready        |-> TRUE,
   allocatable  |-> Capacity,
   allocated    |-> allocated,
   available    |-> subtractResource(Capacity, allocated),
   forecast     |-> [hour \in Hours |->
                       Sum([i \in DOMAIN entries |-> ForecastOf(entries[i], hour)])],
   allocations  |-> [i \in DOMAIN entries |-> NodeAllocation(entries[i])],
   supports     |-> {"KVCache", "TokenThroughput"},
   capabilities |-> {"Borrowing", "Reclaim", "Throttling", "PauseResume", "Eviction"}]

\* Of a status only the phase Applied is told from the others (PendingApply,
\* Applying, Failed: "Unapplied").
Status == [name : Workloads, phase : {"Applied", "Unapplied"}, budget : ResourceSummary]

\* Types of the state of the two levels: the object goes with its last entry, and
\* it has at most one entry and one status of a workload.
TypeOK ==
  /\ \A o \in {ledger, cached, listed} :
       /\ o.entries \in Seq([name : Workloads, budget : ResourceSummary])
       /\ o.statuses \in Seq(Status)
       /\ o.entries = <<>> => o = Absent
       /\ Cardinality(Names(o.entries)) = Len(o.entries)
       /\ Cardinality(Names(o.statuses)) = Len(o.statuses)
  /\ pc \in {"List", "Sync", "Apply"}
  /\ Names(plans) \subseteq Names(listed.entries)
  /\ Names(reported) \subseteq Workloads
  /\ informed \subseteq admitted

-----------------------------------------------------------------------------
(* The scheduler. *)

Init ==
  /\ ledger = Absent /\ cached = Absent /\ informed = {} /\ departed = 0 /\ failures = 0
  /\ pc = "List" /\ listed = Absent /\ plans = <<>> /\ reported = <<>>

\* The report has the peaks of every admitted workload of w's rank.
ReportHasRankOf(w) ==
  \A v \in admitted :
    Profile[v].rank = Profile[w].rank
      => \E i \in DOMAIN reported : reported[i].name = v /\ reported[i].phase # ""

\* Filter lets w in by the report, and Reserve sizes and appends its entry.  Pods
\* come with new names: w is used again only where no trace of it is left.
Admit(w) ==
  /\ departed + Len(ledger.entries) < MaxAdmitted
  /\ w \notin Names(reported)
  /\ \A o \in {ledger, cached, listed} : w \notin Names(o.entries) \cup Names(o.statuses)
  /\ LET node == Snapshot(reported) IN
     /\ RunAllConstraints(Profile[w], node)
     /\ ledger' = [ledger EXCEPT !.entries =
                     Append(@, [name |-> w, budget |-> AllocationResources(Profile[w], node)])]
  /\ informed' = IF ReportHasRankOf(w) THEN informed \cup {w} ELSE informed
  /\ UNCHANGED <<cached, pass, reported, departed, failures>>

\* Variant: the object outlives its last entry.
LeaveKeepsObject(w) ==
  /\ w \in admitted /\ departed < MaxLeft
  /\ ledger' = [ledger EXCEPT !.entries = SelectSeq(@, LAMBDA e : e.name # w)]
  /\ informed' = informed \ {w} /\ departed' = departed + 1
  /\ UNCHANGED <<cached, pass, reported, failures>>

\* w's entry is removed; its status stays as long as the object.
Leave(w) ==
  /\ w \in admitted /\ departed < MaxLeft
  /\ ledger' = IF admitted = {w} THEN Absent
               ELSE [ledger EXCEPT !.entries = SelectSeq(@, LAMBDA e : e.name # w)]
  /\ informed' = informed \ {w} /\ departed' = departed + 1
  /\ UNCHANGED <<cached, pass, reported, failures>>

-----------------------------------------------------------------------------
(* A pass of the agent. *)

Failure == failures < MaxFailures /\ failures' = failures + 1

EndPass == pc' = "List" /\ listed' = Absent /\ cached' = Absent /\ plans' = <<>>

\* reconcileNode: a pass lists the entries.
List ==
  /\ pc = "List"
  /\ pc' = "Sync" /\ listed' = ledger /\ cached' = ledger
  /\ UNCHANGED <<ledger, plans, reported, informed, departed, failures>>

\* syncNodeStatus reports all of them, and BuildPlans plans them.  No more than a
\* minute passes from one pass to the next unless they fail; here it is any time.
Sync(minute) ==
  /\ pc = "Sync"
  /\ pc' = "Apply" /\ reported' = Items(listed)
  /\ plans' = BuildPlans[[i \in DOMAIN listed.entries |-> listed.entries[i].name], minute]
  /\ UNCHANGED <<ledger, cached, listed, informed, departed, failures>>

\* The status the pass listed for w, if there was one.
Own(w) == SelectSeq(listed.statuses, LAMBDA s : s.name = w)

\* mergeWorkloadStatus.
mergeWorkloadStatus(statuses, status) ==
  IF status.name \in Names(statuses)
    THEN [i \in DOMAIN statuses |-> IF statuses[i].name = status.name THEN status
                                                                      ELSE statuses[i]]
    ELSE Append(statuses, status)

\* The ledger after a write for w.  The item of an entry with a status has the
\* statuses of all entries; w's is merged into them and the FIRST is written.
Recorded(w, phase, budget) ==
  LET status == [name |-> w, phase |-> phase, budget |-> budget]
      first  == Head(mergeWorkloadStatus(IF Own(w) = <<>> THEN <<>> ELSE listed.statuses, status))
  IN  [ledger EXCEPT !.statuses = mergeWorkloadStatus(@, first)]

\* The writes of updateAllocationStatus for one plan.  Each needs a cache that has
\* the one before it, so only the last may be missing from the cache afterwards.
\* An object that is gone is no error.
updateAllocationStatus(before, after) ==
  IF ledger = Absent THEN UNCHANGED <<ledger, cached>>
  ELSE cached' = before /\ ledger' = after

\* applyPlan's first check.
UpToDate(w, plan) ==
  Own(w) = <<[name |-> w, phase |-> "Applied", budget |-> plan.assigned]>>

\* applyPlan for the first plan left, without an error: nothing for one that is
\* applied already, one write for a plan that failed, else PendingApply, Applying,
\* the backend's Apply, Applied.
ApplyPlan ==
  /\ pc = "Apply" /\ plans # <<>>
  /\ LET w == plans[1].name
         plan == plans[1].plan
         unapplied == Recorded(w, "Unapplied", plan.assigned)
     IN  IF UpToDate(w, plan) THEN UNCHANGED <<ledger, cached>>
         ELSE IF plan.phase = "Failed" THEN updateAllocationStatus(ledger, unapplied)
         ELSE updateAllocationStatus(unapplied, Recorded(w, "Applied", plan.assigned))
  /\ plans' = Tail(plans)
  /\ UNCHANGED <<pc, listed, reported, informed, departed, failures>>

\* applyPlan fails after a first write, or the backend does and markFailed records
\* it; the plans after it are not carried out.
ApplyFails ==
  /\ pc = "Apply" /\ plans # <<>>
  /\ LET w == plans[1].name
         plan == plans[1].plan
     IN  /\ ~UpToDate(w, plan) /\ plan.phase # "Failed"
         /\ ledger' = IF ledger = Absent THEN Absent ELSE Recorded(w, "Unapplied", plan.assigned)
  /\ Failure /\ EndPass
  /\ UNCHANGED <<reported, informed, departed>>

\* Any other call fails, or the agent restarts.
GiveUp == pc # "List" /\ Failure /\ EndPass /\ UNCHANGED <<ledger, reported, informed, departed>>

\* refreshNodeStatus lists anew, perhaps without the last write, and reports the
\* entries in phase Applied.
Refresh(lags) ==
  /\ pc = "Apply" /\ plans = <<>>
  /\ LET o == IF lags THEN cached ELSE ledger IN
     reported' = SelectSeq(Items(o), LAMBDA e : e.phase = "Applied")
  /\ EndPass
  /\ UNCHANGED <<ledger, informed, departed, failures>>

Next ==
  \/ List \/ ApplyPlan \/ ApplyFails \/ GiveUp
  \/ \E minute \in Minutes : Sync(minute)
  \/ \E lags \in BOOLEAN : Refresh(lags)
  \/ \E w \in Workloads : Admit(w) \/ Leave(w)

Spec == Init /\ [][Next]_vars

-----------------------------------------------------------------------------
(* Properties. *)

\* The demand the envelope check is about: the peak budget in an active
\* window, the required budget outside.
Demand ==
  [w \in Workloads |-> [minute \in Minutes |->
     IF activeTimeWindow(Profile[w].windows, minute)
       THEN maxResources(Profile[w]) ELSE requiredResources(Profile[w])]]

\* The online workloads with windows and w's rank admitted up to w.
PeersUpTo(w) ==
  LET entries == ledger.entries
      upto == SubSeq(entries, 1, CHOOSE i \in DOMAIN entries : entries[i].name = w)
  IN  SelectSeq(upto, LAMBDA e : /\ Profile[e.name].rank = Profile[w].rank
                                 /\ isOnlineWorkload(Profile[e.name].type)
                                 /\ Profile[e.name].windows # {})

\* The peak contract of the two levels: whatever was admitted, in any order, at
\* any time of day and at any point of the agent's passes, an online workload
\* with windows admitted by a report that had its peers leaves room for every
\* peak: its own and those of such peers before it fit the node at every minute
\* of the day.
PeakFits ==
  \A w \in informed :
    LET peers == PeersUpTo(w) IN
    w \in Names(peers) =>
      \A minute \in Minutes :
        fits(Sum([i \in DOMAIN peers |-> Demand[peers[i].name][minute]]), Capacity)

\* The agent aligns with the placement decision: if all workloads of the highest
\* priority that a pass plans were admitted by a report that had their peers, its
\* plans give each of them at least its required budget, whatever the records
\* it started from.
AdmittedServed ==
  LET planned == Names(listed.entries)
      highest == {w \in planned : \A v \in planned : Profile[v].rank <= Profile[w].rank}
  IN  highest \subseteq informed
        => \A i \in DOMAIN plans : plans[i].name \in highest => plans[i].plan.phase # "Failed"

=============================================================================
