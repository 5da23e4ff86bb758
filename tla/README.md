# A TLA+ verification of astra-scheduler

astra-scheduler places AI inference and batch workloads on Kubernetes nodes in two
levels. A scheduler plugin picks the node and enters a reservation in a ledger
object of that node. An agent on the node turns the ledger's entries into budgets
and has a backend enforce them. This directory models the decisions of both levels
and the protocol between them, checks them with TLC on small instances, and proves
the central results with TLAPS for every size.

## The system

Three custom resources carry everything the parts say to each other:

| resource | written by | read by |
|---|---|---|
| `AIWorkloadProfile` | the user | the scheduler plugin |
| `AINodeResourceProfile` | the agent (status) | the plugin, the agent |
| `AIResourceAllocation`, one ledger object per node | the plugin (spec entries), the agent (status) | the agent, the plugin |

A pod's way through the system:

1. `PreFilter` resolves the workload profile and starts a `schedulingState`.
   `Filter` judges each node by five hard constraints, `Score` and `NormalizeScore`
   rank the feasible ones, and the framework picks a node.
2. `Reserve` adds an entry to the node's ledger with optimistic concurrency.
   The binding cycle runs in its own goroutine. If it fails, `Unreserve` removes the
   entry and deletes the object when no entry is left.
3. The agent's single worker lists the ledger of its node from a cache, plans all
   entries (`BuildPlansAt`), and carries out the plans one after another: it records
   phases in the ledger's status, calls the backend, or replaces the pod elsewhere.
4. The agent finds or creates the node's profile and reports in it, at the beginning
   and at the end of every pass, what the node has, what it shares out and an hourly
   forecast. The next `Filter` decides from that report.

### Inventory

| part | source | module | status |
|---|---|---|---|
| Reserve, Unreserve | `internal/scheduler/plugin/reserve.go` | `AllocationLedger`, `ReservationStore` | modelled, proved |
| PreFilter, Filter, Score, NormalizeScore, cycle state | `plugin/filter.go`, `score.go`, `state.go`, `resolver.go` | `SchedulingCycle` | modelled, proved in part |
| hard constraints | `policy/filter_constraint.go`, `resource_policy.go`, `time_window_policy.go`, `simple_policy.go` | `FilterPolicy`, `TimeWindows` | modelled, time windows proved |
| scoring, size of a reservation | `policy/scorer.go`, `demand_shape.go`, `simple_policy.go` | `ScorePolicy` | modelled |
| local planner | `internal/agent/local/*.go`, `internal/agent/resources/*.go` | `LocalPlanner`, `NodeReport` | modelled, proved in part |
| reconcile loop, migration, status recorder | `internal/agent/controller.go`, `allocation_ledger.go`, `status_recorder.go` | `AgentReconcile` | modelled |
| node profile and report | `internal/agent/controller.go`, `backend/backend.go`, `resources/*.go` | `NodeReport` | modelled |
| hourly forecast | `internal/agent/hourly_forecast.go` | `TimeWindows`, `TwoLevelContract` | modelled |
| both levels on one node | Filter, reservation size, planner, forecast, reported status | `TwoLevelContract` | modelled |
| fake backend | `internal/agent/backend/fake.go` | `Backends`, `TwoLevelContract`, `AgentReconcile` | modelled |
| real backend, isolation | `internal/agent/backend/real.go`, `isolation.go`, `low_level_resource.go` | `Backends` | what it observes, not what it enforces |
| API types | `api/v1alpha1` | records of the modules | the fields that matter |
| binaries | `cmd` | none | not modelled |

`PROJECT.json` gives the source lines of every definition, the hazards of the code
with the properties that watch them, and for every property a changed definition
(marked *Variant* in the modules) that breaks it.

## The modules

`Resources` is the arithmetic of resource summaries: functions from dimensions to
naturals, or `Nil` for an absent pointer. Addition, saturating subtraction, and
`fits` are taken from the policy and the agent, which have the same three.

### AllocationLedger

The API server keeps, per node, whether the ledger object exists and which pod owns
each entry key. A key is the pod's namespace and name joined by a dash, as
`workloadEntryName` makes it. Resource versions are abstracted to the set `stale` of
clients whose copy was outdated by a later write.

| state | code |
|---|---|
| `ledger` | the `AIResourceAllocation` objects |
| `pc`, `node` | where the pod's attempt is, and on which node |
| `copy`, `stale`, `attempt` | the object `Get` returned, whether its `resourceVersion` is old, the round of `retry.RetryOnConflict` |
| `cycle` | the pod of the serial scheduling cycle |
| `abandoned` | history: pods that left a node without a successful clean-up |

Each client call is an action. `ReserveGet` and `ReserveWrite` (Create or Update),
`UnreserveGet`, `UnreserveUpdate` and `UnreserveDelete` are the good cases.
`ReserveConflict` and `UnreserveConflict` are optimistic failures, with the retry
limit. The `...Error` actions cover every other error, and through `NoEffect` also a
write that took effect although its reply was lost. Around them: `BindSucceeds`,
`BindFails`, `StatusUpdate` by the agent, `PodDeleted`, `SchedulerRestart`.
`UnreserveDelete` has no precondition on the version, because `client.Delete` in the
code has none.

`ReservationStore` is what all this amounts to: for every node the set of pods with a
reservation, changed by one pod at a time and in one step. The refinement mapping
takes `held[n]` to the pods whose own entry is in the ledger of `n` (`Held`), and `at`
to `node`. A Get, a conflict or a retry is a stutter; a write is `Reserve` or
`Withdraw`, also when its reply is lost. The unconditional Delete is why the store
needs an operation nobody would ask for, `Clear`.

### TimeWindows, FilterPolicy, ScorePolicy

Operators without state. `TimeWindows` has the scheduler's intervals
(`timeWindowIntervals`), the agent's minute test (`minuteInWindow`), and the hour
sampling of both. The length of the day is a constant. `FilterPolicy` has the five
constraints with the hourly envelope and reclaim. `ScorePolicy` has the default
scorers and multipliers with float64 rounding as exact rational arithmetic,
`Normalize`, and `AllocationResources`, the budget `Reserve` enters.

### SchedulingCycle

One pod after another through the cycle, with `Filter(n)` and `Score(n)` in any order
of nodes, each atomic because the shared state is under a mutex. `stored` and
`actual` are the API objects, which `ProfileChange` and `NodeChange` change at any
moment; `profile` and `nodeResources` are the cycle's snapshot. `FilterEnds` models
the framework: it fails without a feasible node, skips scoring with one.
`SelectHost` picks any feasible node, for other plugins add their scores.

### LocalPlanner

`BuildPlansAt` as a loop: `Init` takes any list of `Inputs` and sorts it stably by rank
and active window, as the code does, `PlanNext` is one iteration (group, demand,
`ledger.reserve`, `Validate` of the three resource managers, the constraint between
tokens and GPUs, release on failure), `Return` the end. `PlansOf` is the same loop as
a function, for the modules that compose the planner.

### TwoLevelContract

`FilterPolicy`, `ScorePolicy` and `LocalPlanner` (by `INSTANCE`) on one node, connected
by the report as in the code.

| state | code |
|---|---|
| `ledger` | the ledger object: its entries, oldest first, and `status.workloads` |
| `cached` | the object as the agent's cache still may have it |
| `pc`, `listed`, `plans` | the agent's pass, the object as it listed it, and the plans not carried out yet |
| `reported` | the items from which the profile's status was last computed |
| `informed` | history: workloads admitted by a report with the forecasts of all their peers |
| `departed`, `failures` | counters for the bounds |

`Admit(w)` is Filter by the last report and Reserve with the size that report gives.
`Leave(w)` removes an entry; its status stays as long as the object. A pass is `List`,
`Sync` (the report of all entries listed, and `BuildPlans` at any minute of the day),
one `ApplyPlan` per plan, and `Refresh` (the entries Applied, perhaps from a cache that
has not the last write). A write goes where the code sends it: `Recorded` merges the
*first* status of the item, as `AgentReconcile` has it call by call. `ApplyFails` is an
error in a plan after its first write, `GiveUp` any other error or a restart; both end
the pass and leave the later plans undone. The scheduler acts between any two of these
steps, so it admits by reports that have not yet what it reserved before, that have it
without its peak (`ForecastOf` of an entry that is not planned), or that left it out.

### NodeReport, Backends

Where the capacities come from. `Backends` has `Snapshot` of both backends: the fake
one takes the spec's resources and a ConfigMap's overrides; the real one reads
`nvidia-smi`, converts MiB to GiB, grades the risk, and falls back to the spec.

| state | code |
|---|---|
| `profiles`, `seen`, `fresh` | the `AINodeResourceProfile` under the node's key and one under another, the cache's copies, and which are current |
| `source` | the ConfigMap's entry, or what `nvidia-smi` prints |
| `awake` | whether an event has called `Reconcile` at all |
| `pc`, `key`, `node` | the pass, the profile it uses, and that profile as it was read |
| `planned` | the capacity of the last `BuildPlans` |
| `passes` | history: passes in a row that nothing disturbed |

`getNodeProfile` and `GetCreated` find or create the profile, `Report` is
`syncNodeStatus` and `refreshNodeStatus`, and `Plan` computes the capacity the planner
observes from the profile *as it was read before* the first report. Around them the
profile is created, edited, hidden or deleted, the source changes, calls fail and the
agent restarts.

### AgentReconcile

| state | code |
|---|---|
| `object`, `cached`, `fresh` | the ledger object, the informer's copy, whether that is current |
| `pc`, `listed`, `todo`, `plan` | the worker: its next call, the object it listed, the entries left, their plans |
| `reported` | the workloads counted in the node profile's status |
| `enforced` | the budget the backend enforces for each pod |
| `pods`, `seen` | the source and replacement pods, and the pod cache |

`List`, `Sync` and `Refresh` are `reconcileNode` with its two reports, `Begin` the head
of `applyPlan`. `Mark` is `markPendingApply`, `markApplying`, `markApplied`,
`markPlanFailed` and `markMigrating`; `Apply` is the backend call; `FindSource` to
`MarkReleased` are `handleMigrationPlan`. `updateAllocationStatus` writes what the code
writes: the *first* status of the item that `expandNodeAllocationLedgers` made.
`GiveUp` is a call that fails for good and equally a restart of the agent, since
nothing but the status is kept. A behaviour has one of the `Settings`: the plans an
entry may get (`LocalPlanner` decides which), which entries there are at first and
which come later, and whose pods move. With `listKeys` the API server rejects a report
of two entries, as the list map `status.allocations` in the API types demands; without
it the module says what holds once the entries are named apart.

## The runs

`tlc -config X.cfg M` for the configuration X and the module M. Deadlock is checked
in all of them.

### Properties that hold

**AllocationLedger** (`MCAllocationLedger`, three pods in one namespace, one node, two
rounds of retry). `FreshCopy`: a copy about to be written back equals the object, or
the server will reject the write. `OthersKept`: no step of one pod takes another's
entry out of an object that is kept. `NoStrayEntry`: an entry has an attempt behind
it, or its clean-up failed for a named reason. `NoEmptyLedger`: an object exists
exactly while it has entries. `ImplementsStore`: every behaviour is one of
`ReservationStore`. `AttemptEnds`: every attempt ends bound or queued again.

**SchedulingCycle** (`MCSchedulingCycle`, three nodes, five node profiles from no
match to full match, two workload profiles, one change of an API object at any
moment). `BestTier`: the best tier is the set of scored nodes with the most preferred
matches, whatever the order of the parallel calls. `LosersBelow`: a node below it
scores less than every node in it, here where the nodes of the best tier have headroom
(`TiersTie` has one that does not). `ReservationFits`: a reservation fits
the availability Filter saw and covers the requirement. `TypeOK` includes that scores
stay between 0 and 100.

**LocalPlanner** (`MCLocalPlanner`, all lists of up to three of nine allocations, two
dimensions, four nodes: one that a peak fills, one with a little more,
one whose status is not set yet, one without GPUs). `NoOvercommit`:
granted budgets and the remainder add up to the capacity. `RequiredMet`: no accepted
plan is below the required budget. `PeakKeepsRequired`: during a peer's peak, a
workload outside its window has exactly its required budget. `HigherPriorityFirst`:
lower ranks never change the plans of higher ones. `DegradedOnlyWithoutGPU`: the
second check refuses nothing that the ledger granted.

**TwoLevelContract** (`MCTwoLevelContract`, four workloads with windows on the hour: a
day's peak that fits beside either of two others, these two overlapping because one
goes over midnight, and a batch job that peaks may reclaim from; a day of three
hours).
`PeakFits`: whatever was admitted, in whichever order and at whichever point of the
passes, a workload admitted by a report that had its peers leaves room for all their
peaks at every minute. `AdmittedServed`: if the workloads of the highest priority in a
pass were admitted so, the pass plans at least the required budget for each, whatever
is recorded of them. Both are about what is admitted and planned. The plans of one pass
fit the node together (`NoOvercommit`); the records and the budgets enforced need not,
because they mix passes: plans are carried out one by one, a pass may stop between two
of them, and a write may go to the status of another entry.

**NodeReport** (`MCNodeReport`, both backends, profiles of one and two GPUs, sources that
fail, change a dimension or set it to zero, two edits and one failure at any step).
`SecondPassPlansCurrent`: after any change the second undisturbed pass shares out what
the node has now; the first may not. `NodeComesBack`: a profile that was edited, or
deleted even between the steps of a pass, in the end exists and says what the node
has. `RiskFollows`: the risk scoring reads follows the one the backend sees.

**AgentReconcile** (`MCAgentReconcile`, three settings: one entry that is resized or
throttled, with two failures; one that is evicted while its pods start and end; two
entries named apart, granted or throttled; one edit by the scheduler in each).
`AppliedIsEnforced`: a workload in phase Applied has that budget enforced.
`ReplacedBeforeDeleted`: the agent deletes a source pod only when its replacement has
been running. `OneStatusEach`: the status lists a workload once. `EveryEntryRecorded`:
every entry eventually has a status, unless the scheduler removes it.
`ReportFollowsLedger`: an entry is counted in the node profile at last, unless its
ledger is in phase Released, which the agent skips; one that was removed is not counted.

### Disagreements between the code and its documents

Each of these runs ends with a counterexample to one statement.

| run | property | what happens |
|---|---|---|
| `ReservationLost` | `ReservationKept` | Unreserve's Get sees only its own entry; another pod's Reserve adds one; the Delete, without a precondition, takes both. The second pod binds without a reservation. |
| `ElasticPeer` | `AdmittedServed` | Outside peaks a peer is granted its preferred budget before the next one's required budget is looked at; the next one, admitted, is rejected on the node. |
| `TiersTie` | `LosersBelow` | A node that matches every preferred dimension to the last unit has no headroom and scores 0 in the best tier; a node that matches none of them gets 0 as well. |
| `FirstStatus` | `AppliedIsEnforced` | The status of a removed entry stays first in the list, and writes for the entry after it carry that one. Its own status stays Applied with a budget that is no longer enforced. |
| `LedgerReleased` | `EveryEntryRecorded` | One entry's `Released` becomes the phase of the whole ledger, which the agent then skips for ever. |
| `TwoEntries` | `EveryEntryRecorded` | The report names every entry after the ledger. With two, the API server rejects it for the repeated key, and every pass ends before a plan is made. |

### Conditions the passing runs and the theorems rest on

- *Keys differ* (`DistinctKeys`). `team/web-1` and `team-web/1` have the same entry
  key; for them one Reserve overwrites the other's entry.
- *Requests grow* (`GrowingInputs`, `GrowingProfiles`). A preferred or max budget that
  leaves out a dimension asks for zero of it, and a plan at that tier is then below
  the required budget. The API types do not forbid it.
- *One spelling per rank* (`RanksAreGroups`). The planner sorts by rank but cuts
  groups by the priority string, so `High` and `high` are two groups, and a peak in
  one does not hold back the other.
- *Windows on the hour.* Envelope and forecast sample the first minute of each hour,
  while the planner grants max from the window's first minute; `PeakFits` fails for
  windows that start at half past.
- *Entries named apart* (`listKeys` false for the two entries of `AgentReconcile`; the
  reports accepted in `TwoLevelContract`). `TwoEntries` shows what the code does now.
- *No name reused within a pass* (one edit in `AgentReconcile`; new names in
  `Admit`). `markApplied` finds the
  entry by name: when a pod leaves and one of its name is reserved during a pass,
  `AppliedIsEnforced` fails, for the new pod is recorded with the old one's budget.
- *Admission was informed* (`informed`). For a workload admitted by a report without its
  peers neither property of `TwoLevelContract` says anything; the repository's README
  lists reservations that count before the agent's report as not implemented yet.
- *A first event* (`awake`). An agent on a node with no profile, ledger or ConfigMap is
  never called, and does not create the profile. A profile under another key keeps it
  from creating the one the scheduler reads (`Undisturbed` excludes both).
- *No zero.* The planner takes a reported zero as not set and uses the spec's value;
  `SecondPassPlansCurrent` leaves out dimensions observed at zero.
- *A risk is set.* Without a runtime section in the ConfigMap the fake backend keeps the
  last risk; `RiskFollows` is about sources that have one.
- *One time zone.* The planner converts a window's zone; the envelope and the
  forecast do not.
- *Headroom in the best tier.* A best-tier node without it, or with no more than the
  risk penalty takes, scores 0, and `LosersBelow` fails (`TiersTie`).
- *A pass lists the current ledger* in `TwoLevelContract`, where the cache lags only at
  the refresh; `AgentReconcile` has a cache that lags at any read.
- The field `applied` is written with phases PendingApply and Applying too, before
  the backend is called. `AppliedIsEnforced` asks only about phase Applied.

### Bounds

Three pods on one ledger are the least at which an Update from an old copy could drop
an entry: one pod's Unreserve keeps a second one's entry while a third one's Reserve
adds its own. Every action touches one ledger only; a pod that moves between two nodes
is in `ReservationLost` and in the theorems. Two rounds of retry have a last round and
one before it; the code makes five. For the safety properties of this module the
theorems remove the bounds.
Three nodes are the least at which a best tier is replaced after having grown.
Three allocations give a group of two with one above or below it.
A day of three hours has windows that touch, overlap and cross midnight; with windows
on the hour a minute per hour suffices (`AlignedSampling`), and the theorems on windows
hold for every length. In `TwoLevelContract` three workloads come (`MaxAdmitted`), one
leaves (`MaxLeft`) and one call fails (`MaxFailures`), at any points; three are a peak,
a peer that overlaps and one that does not, or a batch job.
`MaxEdits`, `MaxFailures` and `MaxChanges`, in `AgentReconcile` fields of a setting,
bound events from outside: in `NodeReport`
two edits are a delete and a create, or an edit and a change of the source, at any
points of one pass or of several; in `AgentReconcile` an edit and a failure fit between
any two calls. Passes themselves are not bounded. Symmetry is not used.

### Fairness

`AllocationLedger`: weak fairness for the scheduler's steps of each pod, because the
goroutine of an attempt runs until it returns and every client call returns with a
result or an error. Starting an attempt, restarts and status writes are not fair. The
retry limit, and not fairness, bounds the conflicts with the agent's writes.

`AgentReconcile` and `NodeReport`: weak fairness for the worker, which the manager keeps
running and which `RequeueAfter` wakes a minute after a pass, or the queue's back-off
after a pass that failed; and for the caches, which the informers keep up to date. In
`NodeReport` passes are possible only after a first event (`Wake`, not fair). Pods and
the scheduler owe no progress. Failures are finite
(`MaxFailures`): a backend that fails for ever would hold up every later entry.

## The proofs

`tlapm M.tla` checks each of the four modules.

**AllocationLedgerProofs**, for any pods, nodes, keys and retry limit. The inductive
invariant is

    LedgerInv == TypeOK /\ FreshCopy /\ NoEmptyLedger /\ AbsentCopy /\ NoStrayEntry

`FreshCopy` is the heart of it: with it, `ReserveWrites` and `UnreserveWrites` show
that an accepted write is the current object plus or minus the writer's own entry, although
it was computed from a copy. `AbsentCopy` is needed because a Create starts from a
copy of nothing. The steps are sorted by their effect on ledgers (`StepCases`): nine
kinds leave them alone and share one lemma, the rest are done one by one.
`TypeCorrect`, `CopiesAreFresh`, `NoLedgerIsEmpty` and `NoEntryIsStray` follow;
`OthersAreKept` also assumes `DistinctKeys`, and so does `LedgerIsStore`, the refinement:
under the same invariant each kind of step is shown to be a step of `ReservationStore`
or a stutter, with distinct keys needed so that a pod's write changes nobody else's
membership in `Held`. The assumption on the constants is that
`NoPod` and `NoNode` are neither pods nor nodes and the limit is positive.

**LocalPlannerProofs**, for any dimensions, inputs and nodes. `PlannerInv` says the
ledger is between zero and the capacity, the list is sorted, and every plan made so
far takes either the budget that had to fit or a nonzero candidate of its demand
(`PlanOK`, `Takes`). Sortedness is needed for groups to be contiguous, so that an
active peer of the same rank is found in the group. Results: `PlannerTypeCorrect`,
`ValidationIsRedundant`, `RequiredIsMet` (assuming `GrowingInputs`), `PeakContract`
(assuming `RanksAreGroups`).

**TimeWindowsProofs**, for any length of hour and day. `IntervalsAreWindow`: the
scheduler's intervals and the agent's test are the same set of minutes. `SameHours`:
envelope and forecast count a peak in the same hours. `OverlapIsCommonMinute`:
`timeWindowsOverlap` is exact, also over midnight. `AlignedSampling`: on windows with
full hours one sample decides the hour, so that the envelope and the planner agree.

**SchedulingCycleProofs**, for any cluster, profiles and number of changes.
`CycleInv == Types /\ SnapshotInv /\ TierInv`: a node that passed Filter has its
profile in the snapshot, by which its constraints held, and the tier is the set of
maximal nodes among those scored so far. `BestTierIsRight` and `ReservationsFit`
(assuming `GrowingProfiles`) follow.

Only model-checked: `AttemptEnds`, `EveryEntryRecorded`, `ReportFollowsLedger`,
`NodeComesBack` and `RiskFollows`, which are liveness;
`NoOvercommit` and `HigherPriorityFirst`, which are about sums and plans computed by
recursion on the list; `LosersBelow`; and the properties of `TwoLevelContract`,
`NodeReport` and `AgentReconcile`.

## Not modelled

- `Apply` of the real backend and the isolation command: a program that is run, if one
  is configured, and no state of the agent's. Without a command `Apply` succeeds and
  enforces nothing; `AgentReconcile` has a backend that enforces what it accepts.
- The utilisation percentages in the reported pressure, and the summary (sums, counts)
  in the ledger's status: no decision of the code reads them.
- `RuntimeActionCapability`: the planner calls it with the action apply only, for which
  it asks nothing. The fallback chosen later is not compared with the capabilities.
- The phase of the node profile, which both reports set to Ready whatever `Snapshot` says.
- Parsing of times and zones, names beyond the key, labels, messages, events, metrics.
- Binaries, generated code, scorers given by options, and `AllocationType`, which only
  labels an entry.

## Plan

What is left is mainly proof.

1. `OneStatusEach`, `ReplacedBeforeDeleted` and, for one entry, `AppliedIsEnforced` of
   `AgentReconcile`; `TypeOK` and `SecondPassPlansCurrent` of `NodeReport`.
2. `LosersBelow` for a best tier with headroom, and the envelope argument behind
   `PeakFits` on aligned windows.
3. An abstract assignment of budgets (any that fits and serves ranks in order) that
   `LocalPlanner` implements.
