--------------------------- MODULE MCNodeReport ---------------------------
(* Small instances of NodeReport: one and two GPUs, three dimensions. *)
EXTENDS NodeReport, TLC

R(gpus, memory, kv) == GPUCount :> gpus @@ GPUMemory :> memory @@ "kv" :> kv

OneGPU == [gpus |-> <<2>>, runtime |-> "kv" :> 1]

TwoGPUs == [gpus |-> <<2, 2>>, runtime |-> "kv" :> 0]

SmallSpecs == "own" :> {OneGPU, TwoGPUs} @@ "other" :> {OneGPU}

\* No entry, none to be had, a node that is drained of its GPUs and at risk,
\* and one that only has its risk set.
Configs ==
  {Nil, Broken,
   [allocatable |-> R(0, 1, 2), risk |-> "high"],
   [allocatable |-> Nil, risk |-> "low"]}

\* No command, a line that is no row, a busy GPU just over 1 GiB, and two GPUs
\* at the threshold of a medium risk.
Outputs ==
  {Nil, <<Nil>>,
   <<[total |-> 1025, used |-> 1000, utilization |-> 40]>>,
   <<[total |-> 2048, used |-> 1536, utilization |-> 0],
     [total |-> 2048, used |-> 1536, utilization |-> 100]>>}

SmallSources == "fake" :> Configs @@ "real" :> Outputs
=============================================================================
