------------------------------ MODULE Machines ------------------------------
(***************************************************************************)
(* What a round reads of pods, services and nodes before it plans:         *)
(* getPodCPUMemLim, ListService and getNodeCPUMem of                       *)
(* kubernetes-client/utils.go, with ToSample and GetValue of the           *)
(* prometheus_json_parser they go through.                                 *)
(*                                                                         *)
(* A metric is a function from the label names it has to their values; ""  *)
(* is the empty string, which a Go map yields for a key it does not have.  *)
(***************************************************************************)
EXTENDS Integers, Sequences, FiniteSetsExt

CONSTANTS Resource, PortNo

(* The results that are not vectors convert to no samples.                 *)
ToSample(result) == IF result.type = "vector" THEN result.value ELSE <<>>

(* GetValue does not find the metric's name; the names asked for here are  *)
(* valid label names.                                                      *)
Has(metric, label) == label # "__name__" /\ label \in DOMAIN metric

host == "kubernetes_io_hostname"

-----------------------------------------------------------------------------
(* getNodeCPUMem: each map keeps the last sample that has something to     *)
(* store for the node, and a node without one gets Go's zero value.        *)
Stores(samples, name, labels) ==
  {i \in DOMAIN samples : /\ \A l \in labels \cup {host} : Has(samples[i].metric, l)
                          /\ samples[i].metric[host] = name}

Amount(samples, name) ==
  LET from == Stores(samples, name, {})
  IN IF from = {} THEN 0 ELSE samples[Max(from)].value

(* Mutant: the PM is stored although the rack is missing.                  *)
PlaceLabel_Single(samples, name, label) ==
  LET from == Stores(samples, name, {label})
  IN IF from = {} THEN "" ELSE samples[Max(from)].metric[label]

(* PM and RACK are stored together or not at all.                          *)
PlaceLabel(samples, name, label) ==
  LET from == Stores(samples, name, {"PM", "RACK"})
  IN IF from = {} THEN "" ELSE samples[Max(from)].metric[label]

(* The disk of a node is never set, so it is 0.                            *)
getNodeCPUMem(nodeList, cpuResult, memResult) ==
  LET cpu == ToSample(cpuResult)
      mem == ToSample(memResult)
  IN [n \in 0 .. (Len(nodeList) - 1) |->
        LET name == nodeList[n + 1]
        IN [Name  |-> name,
            PM    |-> PlaceLabel(mem, name, "PM"),
            Rack  |-> PlaceLabel(mem, name, "RACK"),
            free  |-> [r \in Resource |-> CASE r = "cpu"    -> Amount(cpu, name)
                                          [] r = "memory" -> Amount(mem, name)
                                          [] r = "disk"   -> 0],
            ports |-> [p \in PortNo |-> 0]]]

-----------------------------------------------------------------------------
(* ListService: the ports of the athena services that select the label; a  *)
(* service without a "server" selector selects "".                         *)
ListService(services, label) ==
  LET selected == {s \in DOMAIN services : services[s].selector = label}
  IN [p \in PortNo |->
        MapThenSumSet(LAMBDA s : Cardinality({i \in DOMAIN services[s].ports :
                                                services[s].ports[i] = p}), selected)]

(* getPodCPUMemLim: the limits of all containers.  A container without a   *)
(* limit counts 0, and so does a quantity that is no whole number (AsInt64 *)
(* says so, and is not asked); cpu is counted in thousandths.              *)
Quantity(limits, r) ==
  CASE r \notin DOMAIN limits -> 0
    [] r = "cpu" -> limits[r].milli
    [] OTHER -> IF limits[r].whole THEN limits[r].units ELSE 0

getPodCPUMemLim(pod, services) ==
  [res   |-> [r \in Resource |->
                MapThenSumSet(LAMBDA c : Quantity(pod.containers[c], r),
                              DOMAIN pod.containers)],
   ports |-> IF "server" \in DOMAIN pod.labels
             THEN ListService(services, pod.labels["server"])
             ELSE [p \in PortNo |-> 0]]
=============================================================================
