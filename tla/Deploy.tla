------------------------------- MODULE Deploy -------------------------------
(***************************************************************************)
(* One scheduling round: Deploy_clusters of kubernetes-client/scheduler.go *)
(* over the clusters, services and nodes that Update_clusters left in the  *)
(* program's global variables, and the Kubernetes API it binds pods with.  *)
(*                                                                         *)
(* The clusters of a dendrogram are tried from the last one, which holds   *)
(* every service, down to the single services.  A cluster some node can    *)
(* take is placed whole; its sub-clusters are then marked deployed.  The   *)
(* calls that bind pods are network calls, so each is a step of its own.   *)
(***************************************************************************)
EXTENDS RackSearch, FiniteSetsExt

CONSTANTS Pod,          \* the pods of the Kubernetes cluster
          NodeName, PmName, RackName,
          Unbound, Gone \* a pod that waits for a node; a pod that was deleted

C == INSTANCE Clusters

VARIABLES
  curServices, \* service id -> the pod, its limits and its ports (curServices)
  curNodes,    \* node id -> name, place, free capacity, ports in use (curNodes)
  rackMap,     \* the node records as generateRackMap copied them (rackMap)
  curClusters, \* position -> services, profile, deployed flag (curClusters)
  cursor,      \* where the last cluster went (curRack, curPM, curVM)
  left,        \* the loop's clusters still to come: positions 0 .. left - 1
  phase,       \* "scan", "bind" (inside the loop over cluster.services), "done"
  target,      \* index_n: the node being deployed to
  todo,        \* the services of cluster.services still to bind
  sent,        \* pod -> names of the nodes it was asked to be bound to this round
  podNode      \* Kubernetes: pod -> its node, Unbound or Gone

plan    == <<curServices, rackMap, curClusters>>
vars    == <<curServices, curNodes, rackMap, curClusters, cursor, left, phase,
             target, todo, sent, podNode>>

-----------------------------------------------------------------------------
(* The shapes of the data (scheduler.go 28-72).                            *)
Ports   == [PortNo -> Nat]
Amount  == [Resource -> Nat]
Need    == [res : Amount, ports : Ports]
Service == [pod : Pod, res : Amount, ports : Ports]
Node    == [Name : NodeName, PM : PmName, Rack : RackName,
            free : [Resource -> Nat], ports : Ports]
Cluster(ids) == [services : SUBSET ids, profile : Need, deployed : BOOLEAN]
Cursor  == [rack : RackName, pm : PmName, vm : NodeName]

(* What the clustering leaves for the round: positions in the order of     *)
(* cluster ids, sub-clusters before the clusters made of them, and two     *)
(* clusters nested or disjoint.                                            *)
Hierarchy(cl) ==
  /\ \A c \in DOMAIN cl : cl[c].services # {}
  /\ \A c, d \in DOMAIN cl :
        c < d => \/ cl[c].services \subseteq cl[d].services
                 \/ cl[c].services \cap cl[d].services = {}

(* ListPod returns each pod once and ListNode each node once.              *)
OncePerPod(svcs) == \A s, t \in DOMAIN svcs : svcs[s].pod = svcs[t].pod => s = t
OncePerNode(nds) == \A m, n \in DOMAIN nds : nds[m].Name = nds[n].Name => m = n

-----------------------------------------------------------------------------
(* The start of a round, for the values Update_clusters stored.            *)
RoundStart ==
  /\ left = Cardinality(DOMAIN curClusters)
  /\ phase = "scan"
  /\ target = 0
  /\ todo = {}
  /\ sent = [p \in Pod |-> {}]
  /\ rackMap = curNodes

Current == curClusters[left - 1]

(* `if(!cluster.deployed)' is false: a larger cluster took it along.       *)
SkipCluster ==
  /\ phase = "scan" /\ left > 0
  /\ Current.deployed
  /\ left' = left - 1
  /\ UNCHANGED <<plan, curNodes, cursor, phase, target, todo, sent, podNode>>

(* No node: the cluster is logged and the loop goes on to smaller ones.    *)
(* Mutant: the refused cluster is tried again.                             *)
RefuseCluster_Retry ==
  /\ phase = "scan" /\ left > 0
  /\ ~Current.deployed
  /\ getNextAvailableNode(rackMap, curNodes, cursor, Current.profile) = {}
  /\ UNCHANGED vars

RefuseCluster ==
  /\ phase = "scan" /\ left > 0
  /\ ~Current.deployed
  /\ getNextAvailableNode(rackMap, curNodes, cursor, Current.profile) = {}
  /\ left' = left - 1
  /\ UNCHANGED <<plan, curNodes, cursor, phase, target, todo, sent, podNode>>

(* A node is found: the cluster and all clusters inside it are marked.     *)
(* Mutants: only the placed cluster is marked; the arguments of subset     *)
(* are swapped.                                                            *)
MarkDeployed_Itself(cl, c) == [cl EXCEPT ![c].deployed = TRUE]
MarkDeployed_Swapped(cl, c) ==
  [d \in DOMAIN cl |->
     [cl[d] EXCEPT !.deployed = @ \/ cl[c].services \subseteq cl[d].services]]

MarkDeployed(cl, c) ==
  [d \in DOMAIN cl |->
     [cl[d] EXCEPT !.deployed = @ \/ cl[d].services \subseteq cl[c].services]]

(* Mutant: capacities are read from the rack map's copies of the nodes.    *)
ChooseNode_StaleCopy(n) ==
  /\ phase = "scan" /\ left > 0
  /\ ~Current.deployed
  /\ n \in getNextAvailableNode(rackMap, rackMap, cursor, Current.profile)
  /\ curClusters' = MarkDeployed(curClusters, left - 1)
  /\ target' = n
  /\ todo' = Current.services
  /\ phase' = "bind"
  /\ UNCHANGED <<curServices, curNodes, rackMap, cursor, left, sent, podNode>>

ChooseNode(n) ==
  /\ phase = "scan" /\ left > 0
  /\ ~Current.deployed
  /\ n \in getNextAvailableNode(rackMap, curNodes, cursor, Current.profile)
  /\ curClusters' = MarkDeployed(curClusters, left - 1)
  /\ target' = n
  /\ todo' = Current.services
  /\ phase' = "bind"
  /\ UNCHANGED <<curServices, curNodes, rackMap, cursor, left, sent, podNode>>

(* The API's answer to a Binding: a pod that is gone or has a node is      *)
(* refused, and any call may fail.  BindPodToNode only prints the error.   *)
Binding(p, name) ==
  \/ podNode' = podNode
  \/ podNode[p] = Unbound /\ podNode' = [podNode EXCEPT ![p] = name]

BindPod(s) ==
  /\ phase = "bind"
  /\ s \in todo
  /\ LET p == curServices[s].pod
         name == curNodes[target].Name
     IN /\ sent' = [sent EXCEPT ![p] = @ \cup {name}]
        /\ Binding(p, name)
  /\ todo' = todo \ {s}
  /\ UNCHANGED <<plan, curNodes, cursor, left, phase, target>>

(* After the loop of binds: the profile is taken off the node, whatever    *)
(* the API answered, and the cursor moves to the node.                     *)
(* Mutant: the ports are appended, the resources not subtracted.           *)
Charge_PortsOnly(node, need) ==
  [node EXCEPT !.ports = [p \in PortNo |-> @[p] + need.ports[p]]]

Charge(node, need) ==
  [node EXCEPT !.free = [r \in Resource |-> @[r] - need.res[r]],
               !.ports = [p \in PortNo |-> @[p] + need.ports[p]]]

(* Mutant: curRack keeps its value.                                        *)
CursorAt_OldRack(node) == [rack |-> cursor.rack, pm |-> node.PM, vm |-> node.Name]

CursorAt(node) == [rack |-> node.Rack, pm |-> node.PM, vm |-> node.Name]

ChargeNode ==
  /\ phase = "bind"
  /\ todo = {}
  /\ curNodes' = [curNodes EXCEPT ![target] = Charge(@, Current.profile)]
  /\ cursor' = CursorAt(curNodes[target])
  /\ left' = left - 1
  /\ phase' = "scan"
  /\ UNCHANGED <<plan, target, todo, sent, podNode>>

Finish ==
  /\ phase = "scan" /\ left = 0
  /\ phase' = "done"
  /\ UNCHANGED <<plan, curNodes, cursor, left, target, todo, sent, podNode>>

DeployStep ==
  \/ SkipCluster
  \/ RefuseCluster
  \/ \E n \in DOMAIN curNodes : ChooseNode(n)
  \/ \E s \in DOMAIN curServices : BindPod(s)
  \/ ChargeNode
  \/ Finish

(* Kubernetes on its own: a pod is deleted while the round goes on.        *)
DeletePod(p) ==
  /\ podNode[p] # Gone
  /\ podNode' = [podNode EXCEPT ![p] = Gone]
  /\ UNCHANGED <<plan, curNodes, cursor, left, phase, target, todo, sent>>

Next == DeployStep \/ \E p \in Pod : DeletePod(p)

(* Init is every round Update_clusters can leave: the clusters are a       *)
(* hierarchy (module Linkage), each with the profile of its services, none *)
(* is deployed yet, capacities are what Prometheus reported and no node    *)
(* has a port in use.                                                      *)
Init ==
  /\ curServices \in [DOMAIN curServices -> Service]
  /\ curNodes \in [DOMAIN curNodes -> Node]
  /\ curClusters \in [DOMAIN curClusters -> Cluster(DOMAIN curServices)]
  /\ cursor \in Cursor
  /\ podNode \in [Pod -> NodeName \cup {Unbound, Gone}]
  /\ IsFiniteSet(DOMAIN curServices)
  /\ DOMAIN curNodes \subseteq Nat
  /\ left \in Nat
  /\ DOMAIN curClusters = 0 .. (left - 1)
  /\ \A c \in DOMAIN curClusters :
        /\ curClusters[c].profile = C!Profile(curServices, curClusters[c].services)
        /\ ~curClusters[c].deployed
  /\ \A n \in DOMAIN curNodes, p \in PortNo : curNodes[n].ports[p] = 0
  /\ OncePerPod(curServices)
  /\ OncePerNode(curNodes)
  /\ Hierarchy(curClusters)
  /\ RoundStart

(* The loop runs on by itself, and each API call returns an answer.        *)
Fairness == WF_vars(DeployStep)

Spec == Init /\ [][Next]_vars

-----------------------------------------------------------------------------
(* No PM spans two racks, and the cursor points into the rack map.  A      *)
(* round that starts so stays so.                                          *)
Oriented == Regular(rackMap) /\ CursorOK(rackMap, cursor)

(* The type invariant: the globals keep the shapes scheduler.go declares,  *)
(* and no capacity of a node ever becomes negative.                        *)
TypeOK ==
  /\ curServices \in [DOMAIN curServices -> Service]
  /\ curNodes \in [DOMAIN curNodes -> Node]
  /\ rackMap \in [DOMAIN curNodes -> Node]
  /\ curClusters \in [DOMAIN curClusters -> Cluster(DOMAIN curServices)]
  /\ cursor \in Cursor
  /\ left \in Nat
  /\ phase \in {"scan", "bind", "done"}
  /\ phase = "bind" => target \in DOMAIN curNodes
  /\ todo \subseteq DOMAIN curServices
  /\ sent \in [Pod -> SUBSET NodeName]
  /\ podNode \in [Pod -> NodeName \cup {Unbound, Gone}]

(* The nodes a service went to or is being sent to in this round, as ids.  *)
Host(s) ==
  {n \in DOMAIN curNodes : \/ curNodes[n].Name \in sent[curServices[s].pod]
                           \/ phase = "bind" /\ s \in todo /\ n = target}

(* The services on a node, and what each service needs of a resource.      *)
Here(n) == {s \in DOMAIN curServices : n \in Host(s)}
Demand(r) == [s \in DOMAIN curServices |-> curServices[s].res[r]]

(* The clusters the loop is through with and could not place.              *)
Refused(c) == c \in DOMAIN curClusters /\ c >= left /\ ~curClusters[c].deployed

(* A pod is asked to be bound at most once in a round: a service is in     *)
(* many clusters, and the sub-clusters of a placed one must be out of the  *)
(* loop before it reaches them (scheduler.go 343-349).                     *)
OneRequestPerPod ==
  \A p \in Pod :
     /\ \A m, n \in sent[p] : m = n
     /\ \A s \in todo : curServices[s].pod = p => sent[p] = {}

(* A cluster marked deployed is placed whole: all its services go to one   *)
(* node, those of sub-clusters that were only marked included.             *)
DeployedTogether ==
  \A c \in DOMAIN curClusters :
     curClusters[c].deployed =>
        \E n \in DOMAIN curNodes : \A s \in curClusters[c].services : Host(s) = {n}

(* The limits of the services sent to a node never add up to more than the *)
(* node had when the round began, and the master gets none: the profiles   *)
(* that are compared and subtracted (335-362) account for each service     *)
(* once.                                                                   *)
PlanFits ==
  \A n \in DOMAIN curNodes :
     /\ \A r \in Resource : SumFunctionOnSet(Demand(r), Here(n)) <= rackMap[n].free[r]
     /\ curNodes[n].Name = masterNode => Here(n) = {}

(* A cluster that was refused although a node could take it.               *)
FitsAfterAll(c) == Refused(c) /\ Candidates(curNodes, curClusters[c].profile) # {}

(* utils.go 103: a cluster that was refused fits no node.                  *)
NothingLeftFits == \A c \in DOMAIN curClusters : ~FitsAfterAll(c)

(* The search is exhaustive (utils.go 36-105): while the rack map is       *)
(* regular and the cursor points into it, a cluster that is refused fits   *)
(* no node, and what later clusters take and where the cursor goes never   *)
(* lets a refused cluster fit again.                                       *)
ExhaustiveSearch ==
  [][Oriented => \A c \in DOMAIN curClusters : FitsAfterAll(c)' => FitsAfterAll(c)]_vars

(* The services of a refused cluster are not together on one node.         *)
NeverSplitInVain ==
  \A c \in DOMAIN curClusters :
     Refused(c) => \A n \in DOMAIN curNodes :
                      \E s \in curClusters[c].services : Host(s) # {n}

(* In a round that starts oriented a cluster is broken up only when needed:*)
(* no sequence of smaller placements (scheduler.go 330-380) ends with its  *)
(* services together on one node after all.                                *)
NoVainSplit == Oriented => []NeverSplitInVain

(* `getting next available nodes in the rack hierarchy': a cluster goes to *)
(* a node no farther from the previous one than any node that could take   *)
(* it, whenever the rack map and the cursor agree.                         *)
ClosestFirst ==
  [][Oriented /\ phase = "scan" /\ phase' = "bind" =>
       \A n \in Candidates(curNodes, Current.profile) :
          Distance(curNodes[target'], cursor) <= Distance(curNodes[n], cursor)]_vars

(* utils.go 103 says of a search that found nothing: "no node has enough   *)
(* capacities".                                                            *)
RefusedForCapacity ==
  [][left' = left - 1 /\ ~Current.deployed /\ phase = "scan" =>
       \A n \in DOMAIN curNodes :
          \/ curNodes[n].Name = masterNode
          \/ \E r \in Resource : curNodes[n].free[r] < Current.profile.res[r]]_vars

(* Every round comes to an end, however many clusters are refused and      *)
(* however the API answers.                                                *)
RoundEnds == <>(phase = "done")

(* Seen from outside, a round only places sets of services on nodes, each  *)
(* within what the node has left (module Placement).                       *)
Placement == INSTANCE Placement WITH
  demand <- [s \in DOMAIN curServices |-> curServices[s].res],
  room   <- [n \in DOMAIN curNodes |-> rackMap[n].free],
  open   <- {n \in DOMAIN curNodes : curNodes[n].Name # masterNode},
  host   <- [s \in DOMAIN curServices |-> Host(s)]

PlacesWithinCapacity == Placement!Spec
=============================================================================
