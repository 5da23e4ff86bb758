------------------------------ MODULE Backends ------------------------------
(***************************************************************************)
(* What a backend of the agent (internal/agent/backend) makes of a node:   *)
(* Snapshot of the fake backend, which takes the resources from the        *)
(* profile's spec or a ConfigMap, and of the real one, which asks          *)
(* nvidia-smi.  Of the status only the allocatable resources and the SLO   *)
(* risk are here; nothing reads the utilisation percentages, and what is   *)
(* counted as allocated is in TwoLevelContract.                            *)
(***************************************************************************)
EXTENDS Resources, SequencesExt

CONSTANTS GPUCount, GPUMemory,  \* the dimensions a GPU contributes to
          Nil,                  \* a pointer that is nil, a command that failed
          Broken                \* a ConfigMap that is missing or cannot be parsed

Risks == {"low", "medium", "high", "unknown"}

RuntimeDims == Dims \ {GPUCount, GPUMemory}

\* The spec: the memory of each GPU in GiB, and the runtime capacity, which is
\* zero where the spec leaves it out.
NodeSpec == [gpus : Seq(Nat), runtime : [RuntimeDims -> Nat]]

Status == [allocatable : ResourceSummary, risk : Risks]

Profile == [spec : NodeSpec, status : Status \cup {Nil}]

allocatableFromNode(spec) ==
  [d \in Dims |-> IF d = GPUCount THEN Len(spec.gpus)
                  ELSE IF d = GPUMemory THEN FoldLeft(LAMBDA sum, g : sum + g, 0, spec.gpus)
                  ELSE spec.runtime[d]]

-----------------------------------------------------------------------------
(* The fake backend. *)

\* Variant: a value the status has already is kept.
FakeSnapshotKept(node, config) ==
  IF config = Broken THEN Nil
  ELSE IF node.status # Nil THEN node.status
  ELSE [allocatable |-> IF config # Nil /\ config.allocatable # Nil
                          THEN config.allocatable ELSE allocatableFromNode(node.spec),
        risk |-> IF config # Nil /\ config.risk # Nil THEN config.risk ELSE "low"]

\* Variant: the risk is set only where there is none.
FakeSnapshotFirstRisk(node, config) ==
  IF config = Broken THEN Nil
  ELSE [allocatable |-> IF config # Nil /\ config.allocatable # Nil
                          THEN config.allocatable ELSE allocatableFromNode(node.spec),
        risk |-> IF node.status # Nil THEN node.status.risk
                 ELSE IF config # Nil /\ config.risk # Nil THEN config.risk ELSE "low"]

\* FakeBackend.Snapshot: the ConfigMap's entry for the node, if it has one,
\* overrides the spec.  Without a runtime section (risk Nil) the runtime status
\* is the one there was before, and fakePressure's, with risk low, when there was
\* none; a section without pressure stands for risk low.
FakeSnapshot(node, config) ==
  IF config = Broken THEN Nil
  ELSE [allocatable |-> IF config # Nil /\ config.allocatable # Nil
                          THEN config.allocatable ELSE allocatableFromNode(node.spec),
        risk |-> IF config # Nil /\ config.risk # Nil THEN config.risk
                 ELSE IF node.status # Nil THEN node.status.risk ELSE "low"]

-----------------------------------------------------------------------------
(* The real backend. *)

\* A row of nvidia-smi: memory in MiB, utilisation in percent.
Row == [total : Nat, used : Nat, utilization : Nat]

\* parseNvidiaSMI: a line that cannot be parsed (Nil) spoils all of it, and so
\* does an output without rows.
parseNvidiaSMI(lines) == IF lines = <<>> \/ Nil \in Range(lines) THEN Nil ELSE lines

\* queryNvidiaSMI and Observe: the rows, or Nil when the command fails.
queryNvidiaSMI(output) == IF output = Nil THEN Nil ELSE parseNvidiaSMI(output)

mibToGiB(value) == (value + 1023) \div 1024

\* The runtime capacity nvidia-smi says nothing about is the spec's.
observedAllocatable(spec, rows) ==
  allocatableFromNode([spec EXCEPT !.gpus = [i \in DOMAIN rows |-> mibToGiB(rows[i].total)]])

observedSLORisk(utilization, memory) ==
  IF utilization >= 90 \/ memory >= 90 THEN "high"
  ELSE IF utilization >= 70 \/ memory >= 75 THEN "medium" ELSE "low"

percent(value, total) == IF total <= 0 THEN 0 ELSE (value * 100) \div total

average(total, count) == IF count <= 0 THEN 0 ELSE total \div count

\* observedRuntimeStatus.
observedRisk(rows) ==
  LET used        == FoldLeft(LAMBDA sum, r : sum + r.used, 0, rows)
      total       == FoldLeft(LAMBDA sum, r : sum + r.total, 0, rows)
      utilization == FoldLeft(LAMBDA sum, r : sum + r.utilization, 0, rows)
  IN  observedSLORisk(average(utilization, Len(rows)), percent(used, total))

\* RealBackend.Snapshot: without an observation it falls back to the spec, and
\* the risk is unknown.  The phase Degraded it sets then is overwritten by
\* syncNodeStatus and refreshNodeStatus.
RealSnapshot(node, output) ==
  LET rows == queryNvidiaSMI(output) IN
  IF rows = Nil THEN [allocatable |-> allocatableFromNode(node.spec), risk |-> "unknown"]
  ELSE [allocatable |-> observedAllocatable(node.spec, rows), risk |-> observedRisk(rows)]
=============================================================================
