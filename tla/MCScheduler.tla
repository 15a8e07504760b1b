----------------------------- MODULE MCScheduler ----------------------------
(* The scheduler's loop with three athena pods, one other pod and two      *)
(* nodes of the same PM.                                                   *)
EXTENDS Scheduler, TLC

MCResource == {"cpu", "memory"}
MCPortNo   == {-1, 80}
MCAthena   == {"a", "b", "c"}
MCPod      == {"a", "b", "c", "x"}
MCNodeName == {"rubin3", "rubin4", "master"}
MCPmName   == {"PM2", ""}
MCRackName == {"R1", ""}
MCStart    == [rack |-> "R1", pm |-> "PM2", vm |-> "rubin3"]

(* "athena" sorts before "kube-system", and after "ambassador".            *)
AthenaFirst == <<"a", "b", "c", "x">>
AthenaLast  == <<"x", "a", "b", "c">>

M == INSTANCE Machines WITH Resource <- MCResource, PortNo <- MCPortNo

(* Pod a has two containers, pod b is behind a service, and the memory     *)
(* limit of c, 1500m, is not a whole number.                               *)
Services == << [selector |-> "b", ports |-> <<80>>], [selector |-> "", ports |-> <<80>>] >>
Cpu(n)   == "cpu" :> [milli |-> n]
Mem(w)   == "memory" :> [units |-> 1, whole |-> w]

PodSpec ==
  "a" :> [labels |-> <<>>, containers |-> <<Cpu(1000) @@ Mem(TRUE), Cpu(1000)>>] @@
  "b" :> [labels |-> [server |-> "b"], containers |-> <<Cpu(1000) @@ Mem(TRUE)>>] @@
  "c" :> [labels |-> [app |-> "c"], containers |-> <<Cpu(1000) @@ Mem(FALSE)>>] @@
  "x" :> [labels |-> <<>>, containers |-> << <<>> >>]

MCLimits == [p \in MCPod |-> M!getPodCPUMemLim(PodSpec[p], Services)]

(* The two queries answer with all nodes and their labels; or rubin4 has   *)
(* lost its RACK label; or the listing of the nodes fails and leaves none. *)
Labels(name, pm, rack) == M!host :> name @@ "PM" :> pm @@ "RACK" :> rack
Vector(samples) == [type |-> "vector", value |-> samples]
Reported(cpu, mem) == M!getNodeCPUMem(<<"rubin3", "rubin4">>, cpu, mem)

CpuQuery  == Vector(<< [metric |-> Labels("rubin3", "PM2", "R1"), value |-> 3000],
                       [metric |-> Labels("rubin4", "PM2", "R1"), value |-> 2000] >>)
Rubin3    == [metric |-> Labels("rubin3", "PM2", "R1"), value |-> 2]
MemQuery  == Vector(<< Rubin3, [metric |-> Labels("rubin4", "PM2", "R1"), value |-> 2] >>)
NoRack    == Vector(<< Rubin3, [metric |-> M!host :> "rubin4" @@ "PM" :> "PM2", value |-> 2] >>)

AllReported == Reported(CpuQuery, MemQuery)
MCNodeLists == {AllReported, Reported(CpuQuery, NoRack),
                M!getNodeCPUMem(<<>>, CpuQuery, MemQuery)}
OneNodeList == {AllReported}

(* Pod x is there from the start and stays; the others come and go.        *)
MCInit == SchedInit /\ podNode["x"] = Unbound /\ podNode["a"] = Unbound

MCPods == \E p \in {"b", "c"} : CreatePod(p) \/ PodDeleted(p)

MCSpec == MCInit /\ [][Step \/ Crash \/ Restart \/ MCPods]_schedVars /\ SchedFairness

(* The same without a crash.                                               *)
NoCrashSpec == MCInit /\ [][Step \/ MCPods]_schedVars /\ SchedFairness
=============================================================================
