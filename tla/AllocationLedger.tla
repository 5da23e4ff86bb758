-------------------------- MODULE AllocationLedger --------------------------
(***************************************************************************)
(* The scheduler side of the per-node AIResourceAllocation ledger: the     *)
(* Reserve and Unreserve extension points of the AstraScheduler plugin     *)
(* (internal/scheduler/plugin/reserve.go) as a protocol between scheduling *)
(* cycles, binding cycles, the node agents and the API server.             *)
(*                                                                         *)
(* One ledger object per node lists the workload entries reserved on it.   *)
(* Every client call is a step of its own.  The scheduling cycle is serial *)
(* (the framework schedules one pod at a time), a binding cycle runs in    *)
(* its own goroutine, so Unreserve after a failed bind interleaves with    *)
(* the Reserve of later pods.                                              *)
(***************************************************************************)
EXTENDS Naturals, Sequences

CONSTANTS Pods,        \* the pods that use this scheduler
          Nodes,       \* the nodes, one ledger object each
          Namespace,   \* the namespace of each pod, split at its dashes
          PodName,     \* the name of each pod, split at its dashes
          RetrySteps,  \* calls retry.RetryOnConflict makes at most (5)
          NoPod,       \* the owner of a key that has no entry
          NoNode       \* the node of a queued pod

ASSUME LedgerAssumption ==
  /\ NoPod \notin Pods
  /\ NoNode \notin Nodes
  /\ RetrySteps \in Nat \ {0}

\* workloadEntryName: sanitizeName turns the slash of "namespace/name" into a
\* dash, so the key no longer shows where the namespace ends.
workloadEntryName == [p \in Pods |-> Namespace[p] \o PodName[p]]

Names == {workloadEntryName[p] : p \in Pods}

\* The keys tell the pods apart.
DistinctKeys ==
  \A p, q \in Pods : workloadEntryName[p] = workloadEntryName[q] => p = q

VARIABLES ledger,     \* ledger[n]: the object of node n at the API server
          pc,         \* pc[p]: where pod p's scheduling attempt is
          node,       \* node[p]: the node the framework picked for p, or NoNode
          copy,       \* copy[p]: the object p's last Get returned
          stale,      \* pods whose copy no longer has the resourceVersion
          attempt,    \* attempt[p]: the number of the running retry
          cycle,      \* the pod of the running scheduling cycle, or NoPod
          abandoned   \* <<p, n>>: p left n without a clean-up that succeeded

vars == <<ledger, pc, node, copy, stale, attempt, cycle, abandoned>>

NoEntries == [e \in Names |-> NoPod]

\* The object does not exist.
Absent == [exists |-> FALSE, workloads |-> NoEntries]

Ledgers == [exists : BOOLEAN, workloads : [Names -> Pods \cup {NoPod}]]

Steps == {"Queued", "ReserveGet", "ReserveWrite", "Binding", "Bound",
          "UnreserveGet", "UnreserveWrite"}

\* Types of the state of Reserve and Unreserve; a pod has a node exactly while
\* an attempt of it is under way or it is bound.
TypeOK ==
  /\ ledger \in [Nodes -> Ledgers]
  /\ pc \in [Pods -> Steps]
  /\ node \in [Pods -> Nodes \cup {NoNode}]
  /\ copy \in [Pods -> Ledgers]
  /\ stale \subseteq Pods
  /\ attempt \in [Pods -> 1..RetrySteps]
  /\ cycle \in Pods \cup {NoPod}
  /\ abandoned \subseteq Pods \X Nodes
  /\ \A p \in Pods : pc[p] = "Queued" <=> node[p] = NoNode

Init ==
  /\ ledger = [n \in Nodes |-> Absent]
  /\ pc = [p \in Pods |-> "Queued"]
  /\ node = [p \in Pods |-> NoNode]
  /\ copy = [p \in Pods |-> Absent]
  /\ stale = {}
  /\ attempt = [p \in Pods |-> 1]
  /\ cycle = NoPod
  /\ abandoned = {}

-----------------------------------------------------------------------------
(* A definition marked Variant changes the next one the way a bug in the   *)
(* code would; no action uses it.  The properties are tested against them. *)

-----------------------------------------------------------------------------
(* Entries of a ledger. *)

\* upsertAllocationWorkload, through fillAllocation: replace the entry with
\* this key, or append it.
Upsert(workloads, p) == [workloads EXCEPT ![workloadEntryName[p]] = p]

\* removeAllocationWorkload: drop the entry with this pod's key.
Remove(workloads, p) == [workloads EXCEPT ![workloadEntryName[p]] = NoPod]

\* Pod p has its own entry in the ledger of node n.
HasEntry(p, n) == ledger[n].workloads[workloadEntryName[p]] = p

-----------------------------------------------------------------------------
(* The API server. *)

\* A write to the object of node n: every other client that is between its
\* Get and its write now holds an outdated resourceVersion.  A write that
\* changes nothing keeps the resourceVersion.
InFlight(n) ==
  {q \in Pods : node[q] = n /\ pc[q] \in {"ReserveWrite", "UnreserveWrite"}}

Put(p, n, object) ==
  /\ ledger' = [ledger EXCEPT ![n] = object]
  /\ copy' = [copy EXCEPT ![p] = Absent]
  /\ stale' = IF object = ledger[n] THEN stale \ {p}
                                    ELSE (stale \cup InFlight(n)) \ {p}

\* A call of p that changes nothing at the server; the closure returns.
NoEffect(p) ==
  /\ copy' = [copy EXCEPT ![p] = Absent]
  /\ stale' = stale \ {p}
  /\ UNCHANGED ledger

\* Update of an object that was written since p's Get.
Conflict(p) == ledger[node[p]].exists /\ p \in stale

-----------------------------------------------------------------------------
(* How an attempt of pod p moves on. *)

Goto(p, step) == pc' = [pc EXCEPT ![p] = step]

EndCycle(p) == cycle' = IF cycle = p THEN NoPod ELSE cycle

\* Reserve returns an error: the framework calls Unreserve in the same cycle.
ReserveFails(p) ==
  /\ Goto(p, "UnreserveGet")
  /\ attempt' = [attempt EXCEPT ![p] = 1]
  /\ UNCHANGED <<node, cycle, abandoned>>

\* Reserve returns success: the scheduling cycle ends, the binding cycle runs.
ReserveSucceeds(p) ==
  /\ Goto(p, "Binding")
  /\ EndCycle(p)
  /\ attempt' = [attempt EXCEPT ![p] = 1]
  /\ UNCHANGED <<node, abandoned>>

\* Variant: the pod is queued but keeps the node of the failed attempt.
UnreserveKeepsNode(p, failed) ==
  /\ Goto(p, "Queued")
  /\ attempt' = [attempt EXCEPT ![p] = 1]
  /\ EndCycle(p)
  /\ abandoned' = IF failed THEN abandoned \cup {<<p, node[p]>>} ELSE abandoned
  /\ UNCHANGED node

\* Unreserve returns and the pod goes back to the scheduling queue.  An error
\* is dropped, so an entry that is still there stays there.
UnreserveReturns(p, failed) ==
  /\ Goto(p, "Queued")
  /\ attempt' = [attempt EXCEPT ![p] = 1]
  /\ EndCycle(p)
  /\ node' = [node EXCEPT ![p] = NoNode]
  /\ abandoned' = IF failed THEN abandoned \cup {<<p, node[p]>>} ELSE abandoned

\* Variant: a retry loop without a limit.
RetryForever(p, get) ==
  /\ Goto(p, get)
  /\ UNCHANGED <<attempt, node, cycle, abandoned>>

\* RetryOnConflict: the closure returned a Conflict and is run again, up to
\* RetrySteps calls in all.
RetryOnConflict(p, get) ==
  /\ attempt[p] < RetrySteps
  /\ attempt' = [attempt EXCEPT ![p] = @ + 1]
  /\ Goto(p, get)
  /\ UNCHANGED <<node, cycle, abandoned>>

\* The Conflict of the last call is what RetryOnConflict returns.
RetriesExhausted(p) == attempt[p] = RetrySteps

-----------------------------------------------------------------------------
(* Reserve. *)

\* Filter and Score picked node n for p; Reserve starts.
StartReserve(p, n) ==
  /\ pc[p] = "Queued"
  /\ cycle = NoPod
  /\ cycle' = p
  /\ node' = [node EXCEPT ![p] = n]
  /\ Goto(p, "ReserveGet")
  /\ abandoned' = abandoned \ {<<p, n>>}
  /\ UNCHANGED <<ledger, copy, stale, attempt>>

ReserveGet(p) ==
  /\ pc[p] = "ReserveGet"
  /\ copy' = [copy EXCEPT ![p] = ledger[node[p]]]
  /\ stale' = stale \ {p}
  /\ Goto(p, "ReserveWrite")
  /\ UNCHANGED <<ledger, node, attempt, cycle, abandoned>>

\* The Get found no object: Create one with p's entry.
\* The Get found one: Update it with p's entry.
\* Either way the reply may be lost after the write took effect.
ReserveWrite(p) ==
  /\ pc[p] = "ReserveWrite"
  /\ IF copy[p].exists THEN ledger[node[p]].exists /\ p \notin stale
                       ELSE ~ledger[node[p]].exists
  /\ Put(p, node[p], [exists |-> TRUE, workloads |-> Upsert(copy[p].workloads, p)])
  /\ ReserveSucceeds(p) \/ ReserveFails(p)

\* Variant: the retry takes the new resourceVersion but keeps the old copy.
ReserveRetriesOldCopy(p) ==
  /\ pc[p] = "ReserveWrite"
  /\ IF copy[p].exists THEN Conflict(p) ELSE ledger[node[p]].exists
  /\ RetryOnConflict(p, "ReserveWrite") \/ (RetriesExhausted(p) /\ ReserveFails(p))
  /\ stale' = stale \ {p}
  /\ UNCHANGED <<ledger, copy>>

\* Update conflicts, or Create finds that the object exists by now, which
\* Reserve turns into a Conflict.
ReserveConflict(p) ==
  /\ pc[p] = "ReserveWrite"
  /\ IF copy[p].exists THEN Conflict(p) ELSE ledger[node[p]].exists
  /\ RetryOnConflict(p, "ReserveGet") \/ (RetriesExhausted(p) /\ ReserveFails(p))
  /\ NoEffect(p)

\* Any other error of Get, Create or Update, among them NotFound from Update
\* when the object was deleted since the Get.
ReserveError(p) ==
  /\ pc[p] \in {"ReserveGet", "ReserveWrite"}
  /\ ReserveFails(p)
  /\ NoEffect(p)

-----------------------------------------------------------------------------
(* The binding cycle of a reserved pod. *)

BindSucceeds(p) ==
  /\ pc[p] = "Binding"
  /\ Goto(p, "Bound")
  /\ UNCHANGED <<ledger, node, copy, stale, attempt, cycle, abandoned>>

BindFails(p) ==
  /\ pc[p] = "Binding"
  /\ Goto(p, "UnreserveGet")
  /\ UNCHANGED <<ledger, node, copy, stale, attempt, cycle, abandoned>>

-----------------------------------------------------------------------------
(* Unreserve. *)

UnreserveGet(p) ==
  /\ pc[p] = "UnreserveGet"
  /\ ledger[node[p]].exists
  /\ copy' = [copy EXCEPT ![p] = ledger[node[p]]]
  /\ stale' = stale \ {p}
  /\ Goto(p, "UnreserveWrite")
  /\ UNCHANGED <<ledger, node, attempt, cycle, abandoned>>

\* The Get finds no object: there is nothing to clean up.
UnreserveNotFound(p) ==
  /\ pc[p] = "UnreserveGet"
  /\ ~ledger[node[p]].exists
  /\ UnreserveReturns(p, FALSE)
  /\ NoEffect(p)

\* Variant: the object is kept when its last entry goes.
UnreserveKeepsObject(p) ==
  /\ pc[p] = "UnreserveWrite"
  /\ Remove(copy[p].workloads, p) = NoEntries
  /\ ledger[node[p]].exists /\ p \notin stale
  /\ Put(p, node[p], [exists |-> TRUE, workloads |-> NoEntries])
  /\ \E failed \in BOOLEAN : UnreserveReturns(p, failed)

\* p's entry was the last one of the copy: Delete the object, by name and
\* without a precondition on its resourceVersion.  NotFound is success.
UnreserveDelete(p) ==
  /\ pc[p] = "UnreserveWrite"
  /\ Remove(copy[p].workloads, p) = NoEntries
  /\ Put(p, node[p], Absent)
  /\ \E failed \in BOOLEAN : UnreserveReturns(p, failed)

\* Variant: the Update writes the entries back without removing p's.
UnreserveRemovesNothing(p) ==
  /\ pc[p] = "UnreserveWrite"
  /\ Remove(copy[p].workloads, p) # NoEntries
  /\ ledger[node[p]].exists /\ p \notin stale
  /\ Put(p, node[p], copy[p])
  /\ \E failed \in BOOLEAN : UnreserveReturns(p, failed)

\* Variant: the object is written back whatever its resourceVersion.
UnreserveOverwrites(p) ==
  /\ pc[p] = "UnreserveWrite"
  /\ Remove(copy[p].workloads, p) # NoEntries
  /\ ledger[node[p]].exists
  /\ Put(p, node[p], [exists |-> TRUE, workloads |-> Remove(copy[p].workloads, p)])
  /\ \E failed \in BOOLEAN : UnreserveReturns(p, failed)

\* Other entries remain: Update.
UnreserveUpdate(p) ==
  /\ pc[p] = "UnreserveWrite"
  /\ Remove(copy[p].workloads, p) # NoEntries
  /\ ledger[node[p]].exists /\ p \notin stale
  /\ Put(p, node[p], [exists |-> TRUE, workloads |-> Remove(copy[p].workloads, p)])
  /\ \E failed \in BOOLEAN : UnreserveReturns(p, failed)

UnreserveGivesUp(p) == UnreserveReturns(p, TRUE)

UnreserveConflict(p) ==
  /\ pc[p] = "UnreserveWrite"
  /\ Remove(copy[p].workloads, p) # NoEntries
  /\ Conflict(p)
  /\ RetryOnConflict(p, "UnreserveGet") \/ (RetriesExhausted(p) /\ UnreserveGivesUp(p))
  /\ NoEffect(p)

\* Any other error of Get, Delete or Update: Unreserve drops it.
UnreserveError(p) ==
  /\ pc[p] \in {"UnreserveGet", "UnreserveWrite"}
  /\ UnreserveGivesUp(p)
  /\ NoEffect(p)

-----------------------------------------------------------------------------
(* The rest of the cluster. *)

\* The agent of node n updates the status subresource: the entries stay, the
\* resourceVersion changes.
StatusUpdate(n) ==
  /\ ledger[n].exists
  /\ stale' = stale \cup InFlight(n)
  /\ UNCHANGED <<ledger, pc, node, copy, attempt, cycle, abandoned>>

\* A bound pod ends; a pod of the same name may be scheduled later.  Nothing
\* removes the entry: no component watches pods.
PodDeleted(p) ==
  /\ pc[p] = "Bound"
  /\ Goto(p, "Queued")
  /\ node' = [node EXCEPT ![p] = NoNode]
  /\ abandoned' = abandoned \cup {<<p, node[p]>>}
  /\ UNCHANGED <<ledger, copy, stale, attempt, cycle>>

\* The scheduler process restarts: every unbound pod is queued again and
\* Unreserve does not run for it.
SchedulerRestart ==
  LET unbound == {p \in Pods : pc[p] \notin {"Queued", "Bound"}} IN
  /\ unbound # {}
  /\ pc' = [p \in Pods |-> IF p \in unbound THEN "Queued" ELSE pc[p]]
  /\ node' = [p \in Pods |-> IF p \in unbound THEN NoNode ELSE node[p]]
  /\ copy' = [p \in Pods |-> Absent]
  /\ stale' = {}
  /\ attempt' = [p \in Pods |-> 1]
  /\ cycle' = NoPod
  /\ abandoned' = abandoned \cup {<<p, node[p]>> : p \in unbound}
  /\ UNCHANGED ledger

\* A step of the scheduler for pod p, its reservation under way.
SchedulerStep(p) ==
  \/ ReserveGet(p)
  \/ ReserveWrite(p)
  \/ ReserveConflict(p)
  \/ ReserveError(p)
  \/ BindSucceeds(p)
  \/ BindFails(p)
  \/ UnreserveGet(p)
  \/ UnreserveNotFound(p)
  \/ UnreserveDelete(p)
  \/ UnreserveUpdate(p)
  \/ UnreserveConflict(p)
  \/ UnreserveError(p)

Next ==
  \/ \E p \in Pods : SchedulerStep(p)
  \/ \E p \in Pods, n \in Nodes : StartReserve(p, n)
  \/ \E n \in Nodes : StatusUpdate(n)
  \/ \E p \in Pods : PodDeleted(p)
  \/ SchedulerRestart

Spec == Init /\ [][Next]_vars

\* The goroutine of an attempt runs on until it returns.
FairSpec == Spec /\ \A p \in Pods : WF_vars(SchedulerStep(p))

-----------------------------------------------------------------------------
(* Properties. *)

Reserved == {p \in Pods : pc[p] \in {"Binding", "Bound"}}

\* Optimistic concurrency at work: the copy a client is about to write back is
\* the object as it is now, unless the server will reject the write.
FreshCopy ==
  \A p \in Pods :
    pc[p] \in {"ReserveWrite", "UnreserveWrite"} /\ p \notin stale
      => copy[p] = ledger[node[p]]

\* No step of one pod's Reserve or Unreserve takes another pod's entry out of
\* a ledger or overwrites it, as long as the ledger object itself is kept.
OthersKept ==
  [][\A q \in Pods, n \in Nodes :
       HasEntry(q, n) /\ ~HasEntry(q, n)'
         => \/ ~ledger'[n].exists
            \/ pc[q] = "UnreserveWrite" /\ node[q] = n]_vars

\* No stray entries: an entry belongs to a pod whose attempt on that node is
\* under way or bound, unless Unreserve returned an error, the scheduler
\* restarted or the pod ended, for none of which anything cleans up.
NoStrayEntry ==
  \A p \in Pods, n \in Nodes :
    HasEntry(p, n) => node[p] = n \/ <<p, n>> \in abandoned

\* A ledger object that exists has an entry (the agent would read an object
\* without entries as one allocation in its legacy top-level fields).
NoEmptyLedger ==
  \A n \in Nodes : ledger[n].exists <=> ledger[n].workloads # NoEntries

\* Every scheduling attempt ends, whatever the conflicts: the pod is bound or
\* queued again, and the scheduling cycle is free for the next pod.
AttemptEnds ==
  \A p \in Pods :
    pc[p] \notin {"Queued", "Bound"} ~> pc[p] \in {"Queued", "Bound"}

\* Reserve and Unreserve keep the reservation record of every pod that is
\* reserved: it is created by Reserve and cleaned up only by its own Unreserve.
ReservationKept == \A p \in Reserved : HasEntry(p, node[p])

-----------------------------------------------------------------------------
(* The abstract specification. *)

\* The pods that have their entry in the ledger of each node.
Held == [n \in Nodes |-> {p \in Pods : HasEntry(p, n)}]

Store == INSTANCE ReservationStore WITH held <- Held, at <- node

\* The ledgers are a store of reservations: though Reserve and Unreserve read
\* an object and write it back later, retry on conflicts and may lose replies,
\* each call adds or removes the reservation of its own pod, or does nothing,
\* as if in one step, but for the Delete, which removes all of the node.
ImplementsStore == Store!Spec

=============================================================================
