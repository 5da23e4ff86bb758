----------------------------- MODULE NodeReport -----------------------------
(***************************************************************************)
(* How the resources of a node reach the scheduler and the planner: every  *)
(* pass of the agent finds or creates the AINodeResourceProfile of the     *)
(* node, has the backend take a snapshot, writes it to the profile's       *)
(* status, plans by the profile it read at the beginning, and writes a     *)
(* second snapshot (reconcileNode in internal/agent/controller.go).        *)
(* Meanwhile the profile is edited, deleted or hidden by one with another  *)
(* name, the observation changes, the cache lags, and calls fail.          *)
(*                                                                         *)
(* The plans themselves are in LocalPlanner and AgentReconcile.            *)
(***************************************************************************)
EXTENDS Backends

CONSTANTS Specs,        \* Specs[k]: the specs an operator may give the profile of key k
          Sources,      \* Sources[b]: what backend b may find
          MaxEdits,     \* bound: edits of the profiles and changes of the source
          MaxFailures   \* bound: calls that fail, and restarts of the agent

\* The profile under the key of the node, and one for the node under another.
Keys == {"own", "other"}

ASSUME ReportAssumption ==
  /\ GPUCount \in Dims /\ GPUMemory \in Dims
  /\ DOMAIN Specs = Keys /\ \A k \in Keys : Specs[k] \subseteq NodeSpec
  /\ DOMAIN Sources = {"fake", "real"}

VARIABLES backend,   \* the backend the agent was started with
          source,    \* the ConfigMap's entry, or the output of nvidia-smi
          profiles,  \* profiles[k]: the object at the API server, or Nil
          seen,      \* what the agent's cache has of it
          fresh,     \* the keys whose cached object has the current version
          edits,     \* edits and changes so far
          failures,  \* failures so far
          awake,     \* the agent's queue has had a request
          pc,        \* what the pass does next
          key,       \* the key of the profile this pass uses
          node,      \* the profile as the pass read it
          planned,   \* the capacity of the last BuildPlans, or Nil
          passes     \* passes in a row by a fresh cached profile, not disturbed

world == <<backend, source, profiles, seen, fresh>>
vars == <<world, edits, failures, awake, pc, key, node, planned, passes>>

Snapshot(profile) ==
  IF backend = "fake" THEN FakeSnapshot(profile, source) ELSE RealSnapshot(profile, source)

\* Types of the state of the node's report; a profile the cache has in its
\* current version is the API server's.
TypeOK ==
  /\ backend \in DOMAIN Sources /\ source \in Sources[backend]
  /\ profiles \in [Keys -> Profile \cup {Nil}]
  /\ seen \in [Keys -> Profile \cup {Nil}]
  /\ fresh \subseteq Keys /\ \A k \in fresh : seen[k] = profiles[k]
  /\ edits \in 0..MaxEdits /\ failures \in 0..MaxFailures
  /\ awake \in BOOLEAN /\ (pc # "Get" => awake)
  /\ pc \in {"Get", "Created", "Sync", "Plan", "Refresh"}
  /\ key \in Keys /\ node \in Profile \cup {Nil}
  /\ pc \in {"Sync", "Plan", "Refresh"} => node # Nil
  /\ planned \in ResourceSummary \cup {Nil}
  /\ passes \in 0..2

Unreported(spec) == [spec |-> spec, status |-> Nil]

\* When the agent starts, the objects there are have it make a pass; if there
\* is no profile, the ledger of the node or the ConfigMap may.
Started == {wakes \in BOOLEAN : (\E k \in Keys : profiles[k] # Nil) => wakes}

Init ==
  /\ backend \in DOMAIN Sources /\ source \in Sources[backend]
  /\ \E own \in {Unreported(spec) : spec \in Specs["own"]} \cup {Nil},
        other \in {Unreported(spec) : spec \in Specs["other"]} \cup {Nil} :
       profiles = [k \in Keys |-> IF k = "own" THEN own ELSE other]
  /\ seen = profiles /\ fresh = Keys
  /\ edits = 0 /\ failures = 0 /\ awake \in Started
  /\ pc = "Get" /\ key = "own" /\ node = Nil /\ planned = Nil /\ passes = 0

-----------------------------------------------------------------------------
(* The operator, the cluster and the cache. *)

Edit ==
  /\ edits < MaxEdits /\ edits' = edits + 1
  /\ passes' = 0
  /\ UNCHANGED <<backend, seen, failures, awake, pc, key, node, planned>>

\* A profile is created or its spec edited, which leaves its status.
Put(k, spec) ==
  /\ Edit
  /\ profiles' = [profiles EXCEPT ![k] = IF @ = Nil THEN Unreported(spec)
                                                     ELSE [@ EXCEPT !.spec = spec]]
  /\ fresh' = fresh \ {k}
  /\ UNCHANGED source

Delete(k) ==
  /\ Edit
  /\ profiles[k] # Nil
  /\ profiles' = [profiles EXCEPT ![k] = Nil]
  /\ fresh' = fresh \ {k}
  /\ UNCHANGED source

\* The ConfigMap the cache has, or what nvidia-smi prints, is another.
SourceChange ==
  /\ Edit
  /\ source' \in Sources[backend] \ {source}
  /\ UNCHANGED <<profiles, fresh>>

\* The cache catches up, and a profile that came, went or changed is an event.
CacheSync(k) ==
  /\ k \notin fresh
  /\ seen' = [seen EXCEPT ![k] = profiles[k]] /\ fresh' = fresh \cup {k}
  /\ awake' = TRUE
  /\ UNCHANGED <<backend, source, profiles, edits, failures, pc, key, node, planned, passes>>

\* An event of the ledger or of the ConfigMap.
Wake ==
  /\ ~awake /\ awake' = TRUE
  /\ UNCHANGED <<world, edits, failures, pc, key, node, planned, passes>>

-----------------------------------------------------------------------------
(* A pass. *)

\* The pass goes on with the profile the cache has under k.
Use(k) ==
  /\ key' = k /\ node' = seen[k] /\ pc' = "Sync"
  /\ passes' = IF k \notin fresh THEN 0
               ELSE IF k # key THEN 1 ELSE IF passes = 2 THEN 2 ELSE passes + 1

\* The pass stops with an error, and the next one begins.
Stop == pc' = "Get" /\ node' = Nil /\ passes' = 0 /\ UNCHANGED key

\* Variant: a node without a profile waits for one.
getNodeProfileOrWait ==
  /\ pc = "Get" /\ awake
  /\ IF seen["own"] # Nil THEN Use("own")
     ELSE IF seen["other"] # Nil THEN Use("other") ELSE Stop
  /\ UNCHANGED <<world, edits, failures, awake, planned>>

\* getNodeProfile: the profile under the node's key, else any that names the
\* node, else Create, which does not mind that the object exists.
getNodeProfile ==
  /\ pc = "Get" /\ awake
  /\ IF seen["own"] # Nil THEN Use("own") /\ UNCHANGED <<profiles, fresh>>
     ELSE IF seen["other"] # Nil THEN Use("other") /\ UNCHANGED <<profiles, fresh>>
     ELSE /\ IF profiles["own"] = Nil
               THEN /\ profiles' = [profiles EXCEPT !["own"] =
                          Unreported([gpus |-> <<>>, runtime |-> [d \in RuntimeDims |-> 0]])]
                    /\ fresh' = fresh \ {"own"}
               ELSE UNCHANGED <<profiles, fresh>>
          /\ pc' = "Created"
          /\ UNCHANGED <<key, node, passes>>
  /\ UNCHANGED <<backend, source, seen, edits, failures, awake, planned>>

\* The Get after the Create; while the cache has no such profile, it fails.
GetCreated ==
  /\ pc = "Created"
  /\ IF seen["own"] # Nil THEN Use("own") ELSE Stop
  /\ UNCHANGED <<world, edits, failures, awake, planned>>

\* Variant: the object is written without having been read.
updateWithoutGet(status) ==
  /\ profiles' = [profiles EXCEPT ![key] = [spec |-> IF @ = Nil THEN Nil ELSE @.spec,
                                            status |-> status]]
  /\ fresh' = fresh \ {key}

\* updateNodeProfileStatus under RetryOnConflict: the object is read from the
\* cache, so the write waits for the cache or gives up (GiveUp).
updateNodeProfileStatus(status) ==
  /\ seen[key] # Nil /\ key \in fresh
  /\ profiles' = [profiles EXCEPT ![key].status = status]
  /\ fresh' = fresh \ {key}

\* syncNodeStatus and refreshNodeStatus, which count different allocations and
\* are otherwise the same.  A snapshot that fails, or a profile that is gone,
\* stops the pass.
Report(step, next) ==
  /\ pc = step
  /\ \/ /\ Snapshot(node) # Nil
        /\ updateNodeProfileStatus(Snapshot(node))
        /\ pc' = next /\ node' = IF next = "Get" THEN Nil ELSE node
        /\ UNCHANGED <<key, passes>>
     \/ /\ Snapshot(node) = Nil \/ seen[key] = Nil \/ profiles[key] = Nil
        /\ Stop
        /\ UNCHANGED <<profiles, fresh>>
  /\ UNCHANGED <<backend, source, seen, edits, failures, awake, planned>>

\* Observe of the three resource managers: what status.allocatable has, or the
\* spec where that is zero or not set.
OrSpec(profile, d, value) ==
  IF profile.status = Nil \/ profile.status.allocatable[d] = 0
    THEN value ELSE profile.status.allocatable[d]

GPUObserve(profile, d) == OrSpec(profile, d, allocatableFromNode(profile.spec)[d])

RuntimeObserve(profile, d) == OrSpec(profile, d, profile.spec.runtime[d])

\* BuildPlans: observe and capacityFromState, of the profile as it was read
\* before syncNodeStatus wrote to it.
Plan ==
  /\ pc = "Plan"
  /\ pc' = "Refresh"
  /\ planned' = [d \in Dims |-> IF d \in RuntimeDims THEN RuntimeObserve(node, d)
                                                     ELSE GPUObserve(node, d)]
  /\ UNCHANGED <<world, edits, failures, awake, key, node, passes>>

\* A call fails, its retries run out, or the agent restarts.
GiveUp ==
  /\ pc # "Get" /\ failures < MaxFailures
  /\ failures' = failures + 1
  /\ Stop
  /\ awake' \in Started
  /\ UNCHANGED <<world, edits, planned>>

Pass ==
  getNodeProfile \/ GetCreated \/ Report("Sync", "Plan") \/ Plan \/ Report("Refresh", "Get")

Next ==
  \/ Pass \/ GiveUp \/ SourceChange \/ Wake
  \/ \E k \in Keys : CacheSync(k) \/ Delete(k) \/ \E spec \in Specs[k] : Put(k, spec)

Spec == Init /\ [][Next]_vars

\* A pass asks for the next one in a minute or, when it failed, after a back-off;
\* and the cache catches up.
FairSpec == Spec /\ WF_vars(Pass) /\ \A k \in Keys : WF_vars(CacheSync(k))

-----------------------------------------------------------------------------
(* Properties. *)

\* What the node has: as observed or configured, else as in the spec.
NodeHas(spec) ==
  LET rows == queryNvidiaSMI(source) IN
  IF backend = "real"
    THEN IF rows = Nil THEN allocatableFromNode(spec) ELSE observedAllocatable(spec, rows)
  ELSE IF source \in {Nil, Broken} \/ source.allocatable = Nil
    THEN allocatableFromNode(spec) ELSE source.allocatable

\* Whatever changed on the node, the second undisturbed pass after it shares
\* out the resources the node has now: BuildPlans goes by the status read
\* before this pass wrote it, so the first may still use the old ones.  A
\* dimension the observation has at zero is not covered, for the planner takes
\* the spec's instead.
SecondPassPlansCurrent ==
  pc = "Refresh" /\ passes = 2
    => \A d \in Dims : NodeHas(profiles[key].spec)[d] # 0
                         => planned[d] = NodeHas(profiles[key].spec)[d]

\* The profile the scheduler reads says what the node has.
Reported ==
  /\ profiles["own"] # Nil /\ profiles["own"].status # Nil
  /\ profiles["own"].status.allocatable = NodeHas(profiles["own"].spec)

\* The agent was called once, the backend works, and no profile under another
\* key hides a missing one.
Undisturbed == awake /\ source # Broken /\ profiles["other"] = Nil

\* A node comes back: edited, or deleted even between the steps of a pass, its
\* profile in the end exists and has the current resources of the node.
NodeComesBack == <>[]Undisturbed => <>[]Reported

\* The risk the backend sees: nvidia-smi's, unknown without it, or the
\* ConfigMap's, if that sets one.
CurrentRisk ==
  LET rows == queryNvidiaSMI(source) IN
  IF backend = "real" THEN IF rows = Nil THEN "unknown" ELSE observedRisk(rows)
  ELSE IF source \in {Nil, Broken} THEN Nil ELSE source.risk

ReportedRisk ==
  IF profiles["own"] = Nil \/ profiles["own"].status = Nil THEN Nil ELSE profiles["own"].status.risk

\* The risk the scheduler scores the node by follows the one the backend sees,
\* up as well as down, as long as it sees one.
RiskFollows == <>[](Undisturbed /\ CurrentRisk # Nil) => <>[](ReportedRisk = CurrentRisk)
=============================================================================
