-------------------------- MODULE AgentReconcile --------------------------
(***************************************************************************)
(* The reconcile loop of the node agent (internal/agent: controller.go,    *)
(* allocation_ledger.go, status_recorder.go) over the ledger object of its *)
(* node.  A pass lists the ledger from the informer's cache, reports the   *)
(* entries in the node profile, plans every entry, and carries the plans   *)
(* out one by one: each records phases in the object's status, calls the   *)
(* backend, or migrates the pod.  At the end it reports the entries that   *)
(* are applied.  One worker runs the passes; meanwhile the scheduler adds  *)
(* and removes entries, the cache lags, pods start and end, and any call   *)
(* may fail.                                                               *)
(*                                                                         *)
(* Which plan an entry gets is LocalPlanner's; here it is any of a set.    *)
(* Of the node profile's status only the workloads counted in it are here; *)
(* the quantities are in TwoLevelContract, the rest in NodeReport.         *)
(***************************************************************************)
EXTENDS Naturals, SequencesExt, FiniteSets

CONSTANTS Order,     \* the names of the workload entries, in planning order
          Settings,  \* the settings a behaviour may have, by name
          None       \* no budget, no workload

Workloads == Range(Order)

\* Phase Failed stands for PlanPhaseFailed; its action is the fallback.
PlanType == [phase : {"PendingApply", "Failed"},
             action : {"apply", "throttle", "pause", "evict"}, assigned : Nat]

\* A setting is what does not change in a behaviour: the plans an entry may get;
\* whether the API server rejects a list map that repeats a key (listKeys); and, as
\* bounds, the workloads that may have an entry at the start (early), those the
\* scheduler may add (late), those whose pods start and end (moving), how many
\* entries the scheduler adds or removes, and how many calls fail or restarts of
\* the agent there are.
ASSUME AgentAssumption ==
  /\ IsInjective(Order)
  /\ None \notin Workloads \cup Nat
  /\ \A n \in DOMAIN Settings :
       LET s == Settings[n] IN
       /\ s.plans \subseteq PlanType
       /\ s.listKeys \in BOOLEAN
       /\ s.early \cup s.late \cup s.moving \subseteq Workloads
       /\ s.maxEdits \in Nat /\ s.maxFailures \in Nat

Phases == {"PendingApply", "Applying", "Applied", "Migrating", "Released", "Failed"}

VARIABLES setting,   \* the setting, which no step changes
          object,    \* the ledger object: entries, status.phase, status.workloads
          cached,    \* what the informer's cache has of it
          fresh,     \* the cache has the current resourceVersion
          edits,     \* entries added or removed so far
          failures,  \* calls failed so far
          pc,        \* the call the worker makes next
          listed,    \* the object as the pass listed it
          todo,      \* the entries still to be carried out, in planning order
          plan,      \* plan[w]: the plan of this pass
          reported,  \* the workloads counted in the node profile's status
          enforced,  \* enforced[w]: the budget the backend enforces for w's pod
          pods,      \* pods[w]: its source and its replacement pod
          seen       \* what the pod cache has of them

ledgerVars == <<object, cached, fresh, edits>>
passVars == <<listed, todo, plan>>
workerVars == <<passVars, reported>>
podVars == <<enforced, pods, seen>>
vars == <<setting, ledgerVars, failures, pc, workerVars, podVars>>

Budgets == {p.assigned : p \in Settings[setting].plans} \cup {0}

\* An object without entries does not exist (the scheduler deletes it).
Absent == [spec |-> {}, phase |-> "", statuses |-> <<>>]

Exists(o) == o.spec # {}

Pod == [source : {"running", "terminating", "gone"},
        replacement : {"none", "pending", "failed", "running", "ended"}]

\* Types of the state of the reconcile loop: an object without entries keeps no
\* status, a cache that is up to date equals the object, and the worker is at a
\* call of applyPlan only with an entry left to carry out.
TypeOK ==
  /\ \A o \in {object, cached, listed} :
       /\ o.spec \subseteq Workloads
       /\ o.phase \in Phases \cup {""}
       /\ o.statuses \in Seq([name : Workloads, phase : Phases, applied : Budgets])
       /\ ~Exists(o) => o = Absent
  /\ fresh \in BOOLEAN /\ (fresh => cached = object)
  /\ edits \in 0..Settings[setting].maxEdits /\ failures \in 0..Settings[setting].maxFailures
  /\ pc \in {"List", "Sync", "Refresh", "Begin", "PendingApply", "Applying", "Apply", "Applied", "Failed",
             "PlanFailed", "Migrating", "Source", "Replacement", "Created", "Delete", "Released"}
  /\ todo \in Seq(Workloads) /\ (pc \notin {"List", "Sync", "Refresh"} => todo # <<>>)
  /\ plan \in [Workloads -> Settings[setting].plans \cup {None}]
  /\ reported \subseteq Workloads
  /\ enforced \in [Workloads -> Budgets \cup {None}]
  /\ pods \in [Workloads -> Pod] /\ seen \in [Workloads -> Pod]

Init ==
  /\ setting \in DOMAIN Settings
  /\ \E spec \in SUBSET Settings[setting].early : object = [Absent EXCEPT !.spec = spec]
  /\ cached = object /\ fresh = TRUE /\ edits = 0 /\ failures = 0
  /\ pc = "List" /\ listed = Absent /\ todo = <<>>
  /\ plan = [w \in Workloads |-> None] /\ reported = {}
  /\ enforced = [w \in Workloads |-> None]
  /\ pods = [w \in Workloads |-> [source |-> "running", replacement |-> "none"]]
  /\ seen = pods

-----------------------------------------------------------------------------
(* The scheduler, the caches and the pods. *)

\* Reserve of a pod of this name: an entry, its pod not yet limited.
Reserve(w) ==
  /\ edits < Settings[setting].maxEdits /\ w \in Settings[setting].late \ object.spec
  /\ object' = [object EXCEPT !.spec = @ \cup {w}]
  /\ fresh' = FALSE /\ edits' = edits + 1
  /\ enforced' = [enforced EXCEPT ![w] = None]
  /\ UNCHANGED <<cached, failures, pc, workerVars, pods, seen>>

\* Variant: the object outlives its last entry.
UnreserveKeepsStatus(w) ==
  /\ edits < Settings[setting].maxEdits /\ w \in object.spec
  /\ object' = [object EXCEPT !.spec = @ \ {w}]
  /\ fresh' = FALSE /\ edits' = edits + 1
  /\ enforced' = [enforced EXCEPT ![w] = None]
  /\ UNCHANGED <<cached, failures, pc, workerVars, pods, seen>>

\* Unreserve, after which the pod is elsewhere or gone.
Unreserve(w) ==
  /\ edits < Settings[setting].maxEdits /\ w \in object.spec
  /\ object' = IF object.spec = {w} THEN Absent ELSE [object EXCEPT !.spec = @ \ {w}]
  /\ fresh' = FALSE /\ edits' = edits + 1
  /\ enforced' = [enforced EXCEPT ![w] = None]
  /\ UNCHANGED <<cached, failures, pc, workerVars, pods, seen>>

CacheSync ==
  /\ ~fresh
  /\ cached' = object /\ fresh' = TRUE
  /\ UNCHANGED <<object, edits, failures, pc, workerVars, podVars>>

PodSync(w) ==
  /\ seen[w] # pods[w]
  /\ seen' = [seen EXCEPT ![w] = pods[w]]
  /\ UNCHANGED <<ledgerVars, failures, pc, workerVars, enforced, pods>>

PodStep == [pending |-> {"running", "failed"}, running |-> {"ended"}]

\* A pod ends by itself or after its deletion; a replacement starts or fails.
PodChange(w) ==
  /\ w \in Settings[setting].moving
  /\ \/ /\ pods[w].source # "gone"
        /\ pods' = [pods EXCEPT ![w].source = "gone"]
     \/ /\ pods[w].replacement \in DOMAIN PodStep
        /\ \E s \in PodStep[pods[w].replacement] :
             pods' = [pods EXCEPT ![w].replacement = s]
  /\ UNCHANGED <<ledgerVars, failures, pc, workerVars, enforced, seen>>

-----------------------------------------------------------------------------
(* The entries of a pass. *)

StatusOf(o, w) == SelectSeq(o.statuses, LAMBDA s : s.name = w)

\* expandNodeAllocationLedgers: the allocation of entry w has the entry's own
\* status and, of an entry that has one, the statuses of all the others too.
Item(w) ==
  LET own == StatusOf(listed, w) IN
  IF own = <<>> THEN [phase |-> "", observed |-> None, statuses |-> <<>>]
  ELSE [phase |-> own[1].phase, observed |-> own[1].applied, statuses |-> listed.statuses]

\* Variant: every workload gets an entry of its own at the end.
mergeByAppending(statuses, entry) == Append(statuses, entry)

\* mergeWorkloadStatus.
mergeWorkloadStatus(statuses, entry) ==
  IF \E i \in DOMAIN statuses : statuses[i].name = entry.name
    THEN [i \in DOMAIN statuses |-> IF statuses[i].name = entry.name THEN entry
                                                                     ELSE statuses[i]]
    ELSE Append(statuses, entry)

\* Variant: the statuses of the whole ledger, whether w has one or not.
entryFromLedger(w, entry) == Head(mergeWorkloadStatus(listed.statuses, entry))

\* setWorkloadStatus merges w's entry into the statuses of its allocation;
\* updateAllocationStatus then writes the FIRST of them.
entryWritten(w, entry) == Head(mergeWorkloadStatus(Item(w).statuses, entry))

\* updateAllocationStatus under RetryOnConflict: the object is read from the
\* cache, so a write waits for the cache or gives up (GiveUp).
\* An object that is gone is no error.
updateAllocationStatus(w, phase, applied) ==
  \/ /\ Exists(cached) /\ fresh
     /\ object' = [object EXCEPT
          !.phase = phase,
          !.statuses = mergeWorkloadStatus(@, entryWritten(w,
                         [name |-> w, phase |-> phase, applied |-> applied]))]
     /\ fresh' = FALSE
     /\ UNCHANGED <<cached, edits>>
  \/ /\ ~Exists(cached) \/ ~Exists(object)
     /\ UNCHANGED ledgerVars

-----------------------------------------------------------------------------
(* A pass. *)

\* reconcileNode: listNodeAllocations, which skips a ledger in phase Released.
Listing(o) == IF o.phase = "Released" THEN <<>> ELSE SelectSeq(Order, LAMBDA w : w \in o.spec)

\* Variant: a node without entries needs no report.
ListUnlessEmpty ==
  /\ pc = "List"
  /\ todo' = Listing(cached)
  /\ IF todo' = <<>> THEN pc' = "List" /\ listed' = Absent ELSE pc' = "Sync" /\ listed' = cached
  /\ UNCHANGED <<ledgerVars, failures, plan, reported, podVars>>

List ==
  /\ pc = "List"
  /\ pc' = "Sync"
  /\ todo' = Listing(cached)
  /\ listed' = IF todo' = <<>> THEN Absent ELSE cached
  /\ UNCHANGED <<ledgerVars, failures, plan, reported, podVars>>

\* The pass ends or stops, and the next one lists anew.
EndPass ==
  /\ pc' = "List" /\ todo' = <<>>
  /\ listed' = Absent /\ plan' = [w \in Workloads |-> None]

\* The plan of the first entry is carried out.
PlanDone ==
  \/ /\ Len(todo) = 1
     /\ pc' = "Refresh" /\ todo' = <<>>
     /\ listed' = Absent /\ plan' = [w \in Workloads |-> None]
  \/ /\ Len(todo) > 1
     /\ pc' = "Begin" /\ todo' = Tail(todo)
     /\ plan' = [plan EXCEPT ![Head(todo)] = None]
     /\ UNCHANGED listed

\* nodeAllocationStatuses names the status of every entry after the ledger, so
\* two of them repeat the key name of the list map status.allocations.
Accepted(items) == Settings[setting].listKeys => Cardinality(items) <= 1

\* syncNodeStatus counts every entry listed, and BuildPlans follows; a rejected
\* status ends the pass.
Sync ==
  /\ pc = "Sync"
  /\ \/ /\ Accepted(Range(todo))
        /\ reported' = Range(todo)
        /\ pc' = IF todo = <<>> THEN "Refresh" ELSE "Begin"
        /\ \E chosen \in [Range(todo) -> Settings[setting].plans] :
             plan' = [w \in Workloads |-> IF w \in Range(todo) THEN chosen[w] ELSE None]
        /\ UNCHANGED <<listed, todo>>
     \/ ~Accepted(Range(todo)) /\ EndPass /\ UNCHANGED reported
  /\ UNCHANGED <<ledgerVars, failures, podVars>>

\* refreshNodeStatus lists anew and counts the entries in phase Applied.
Refresh ==
  /\ pc = "Refresh"
  /\ LET applied == {w \in Range(Listing(cached)) :
                       \E i \in DOMAIN cached.statuses :
                         cached.statuses[i].name = w /\ cached.statuses[i].phase = "Applied"}
     IN  reported' = IF Accepted(applied) THEN applied ELSE reported
  /\ EndPass
  /\ UNCHANGED <<ledgerVars, failures, podVars>>

Goto(step) == pc' = step /\ UNCHANGED passVars

Failure == failures < Settings[setting].maxFailures /\ failures' = failures + 1

\* A call fails, its retries run out, or the agent restarts.
GiveUp == pc # "List" /\ Failure /\ EndPass /\ UNCHANGED <<ledgerVars, reported, podVars>>

\* applyPlan's first check.
UpToDate(w) == Item(w).phase = "Applied" /\ Item(w).observed = plan[w].assigned

\* The worker carries out the plan of w, the first entry left, and is at this call.
At(w, step) == pc = step /\ todo # <<>> /\ w = Head(todo)

\* applyPlan up to its first call.
Begin(w) ==
  /\ At(w, "Begin")
  /\ IF UpToDate(w) THEN PlanDone
     ELSE Goto(IF plan[w].phase = "PendingApply" THEN "PendingApply"
               ELSE IF plan[w].action # "evict" THEN "PlanFailed"
               ELSE IF Item(w).phase # "Migrating" THEN "Migrating" ELSE "Source")
  /\ UNCHANGED <<ledgerVars, failures, reported, podVars>>

\* markPendingApply, markApplying, markApplied, markPlanFailed, markMigrating.
Mark(w, step, phase, next) ==
  /\ At(w, step)
  /\ updateAllocationStatus(w, phase, plan[w].assigned)
  /\ IF next = "" THEN PlanDone ELSE Goto(next)
  /\ UNCHANGED <<failures, reported, podVars>>

\* Variant: Applied is recorded without waiting for the backend.
ApplySkipped(w) ==
  /\ At(w, "Apply")
  /\ Goto("Applied")
  /\ UNCHANGED <<ledgerVars, failures, reported, podVars>>

\* backend.Apply sets the budget of the pod, or fails.
Apply(w) ==
  /\ At(w, "Apply")
  /\ \/ /\ enforced' = [enforced EXCEPT ![w] = plan[w].assigned]
        /\ Goto("Applied") /\ UNCHANGED failures
     \/ Failure /\ Goto("Failed") /\ UNCHANGED enforced
  /\ UNCHANGED <<ledgerVars, reported, pods, seen>>

\* markFailed, and the error that ends the pass.
MarkFailed(w) ==
  /\ At(w, "Failed")
  /\ updateAllocationStatus(w, "Failed", plan[w].assigned)
  /\ EndPass
  /\ UNCHANGED <<failures, reported, podVars>>

-----------------------------------------------------------------------------
(* handleMigrationPlan. *)

\* sourcePodForAllocation.
FindSource(w) ==
  /\ At(w, "Source")
  /\ Goto(IF seen[w].source = "gone" THEN "Released" ELSE "Replacement")
  /\ UNCHANGED <<ledgerVars, failures, reported, podVars>>

\* Variant: a replacement that exists is good enough.
AfterReplacementUnready(w) == Goto("Delete")

\* What follows once the replacement is known: only a running one goes on.
AfterReplacement(w) ==
  IF seen[w].replacement = "running" THEN Goto("Delete") ELSE PlanDone

\* ensureReplacementPod: found in the cache, or Create, which does not mind
\* that the pod exists.
EnsureReplacement(w) ==
  /\ At(w, "Replacement")
  /\ IF seen[w].replacement # "none"
       THEN AfterReplacement(w) /\ UNCHANGED pods
       ELSE /\ pods' = IF pods[w].replacement = "none"
                         THEN [pods EXCEPT ![w].replacement = "pending"] ELSE pods
            /\ Goto("Created")
  /\ UNCHANGED <<ledgerVars, failures, reported, enforced, seen>>

\* The Get after the Create; while the cache has no such pod, it fails.
GetCreated(w) ==
  /\ At(w, "Created")
  /\ IF seen[w].replacement = "none" THEN EndPass ELSE AfterReplacement(w)
  /\ UNCHANGED <<ledgerVars, failures, reported, podVars>>

\* Delete, of a source pod not yet seen terminating.
DeleteSource(w) ==
  /\ At(w, "Delete")
  /\ pods' = IF seen[w].source = "running" /\ pods[w].source = "running"
               THEN [pods EXCEPT ![w].source = "terminating"] ELSE pods
  /\ Goto("Released")
  /\ UNCHANGED <<ledgerVars, failures, reported, enforced, seen>>

MarkReleased(w) ==
  /\ At(w, "Released")
  /\ updateAllocationStatus(w, "Released", 0)
  /\ PlanDone
  /\ UNCHANGED <<failures, reported, podVars>>

-----------------------------------------------------------------------------

Step(w) ==
  \/ Begin(w)
  \/ Mark(w, "PendingApply", "PendingApply", "Applying")
  \/ Mark(w, "Applying", "Applying", "Apply")
  \/ Apply(w)
  \/ Mark(w, "Applied", "Applied", "")
  \/ MarkFailed(w)
  \/ Mark(w, "PlanFailed", "Failed", "")
  \/ Mark(w, "Migrating", "Migrating", "Source")
  \/ FindSource(w)
  \/ EnsureReplacement(w)
  \/ GetCreated(w)
  \/ DeleteSource(w)
  \/ MarkReleased(w)

Worker == UNCHANGED setting /\ (List \/ Sync \/ Refresh \/ \E w \in Workloads : Step(w))

LedgerSync == UNCHANGED setting /\ CacheSync

PodsSync(w) == UNCHANGED setting /\ PodSync(w)

Next ==
  \/ Worker \/ LedgerSync
  \/ UNCHANGED setting /\ GiveUp
  \/ \E w \in Workloads : PodsSync(w)
  \/ \E w \in Workloads : UNCHANGED setting /\ (Reserve(w) \/ Unreserve(w) \/ PodChange(w))

Spec == Init /\ [][Next]_vars

\* A pass asks for the next one in a minute or, when it failed, after a back-off;
\* and the caches catch up.
FairSpec ==
  /\ Spec
  /\ WF_vars(Worker)
  /\ WF_vars(LedgerSync)
  /\ \A w \in Workloads : WF_vars(PodsSync(w))

-----------------------------------------------------------------------------
(* Properties. *)

\* The status lists a workload once, however many writes merged into it.
OneStatusEach == \A i, j \in DOMAIN object.statuses :
  object.statuses[i].name = object.statuses[j].name => i = j

\* A workload in phase Applied has its budget enforced by the backend.
AppliedIsEnforced ==
  \A i \in DOMAIN object.statuses :
    LET s == object.statuses[i] IN
    s.phase = "Applied" /\ s.name \in object.spec => enforced[s.name] = s.applied

\* The agent deletes a source pod only after its replacement was running.
ReplacedBeforeDeleted ==
  [][\A w \in Workloads :
       pods[w].source = "running" /\ pods'[w].source = "terminating"
         => pods[w].replacement \in {"running", "ended"}]_vars

\* Every entry of the ledger is planned and its status recorded, unless the
\* scheduler removes it.
EveryEntryRecorded ==
  \A w \in Workloads :
    w \in object.spec ~> w \notin object.spec \/ StatusOf(object, w) # <<>>

\* The node profile follows the ledger: a reservation is counted in it at last,
\* and one that the scheduler took back is not, though a pass counts what it
\* listed before the change.  A ledger in phase Released is not listed (see
\* LedgerReleased).
ReportFollowsLedger ==
  \A w \in Workloads :
    /\ w \in object.spec ~> w \notin object.spec \/ object.phase = "Released" \/ w \in reported
    /\ w \notin object.spec ~> w \in object.spec \/ w \notin reported

=============================================================================
