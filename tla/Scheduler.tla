----------------------------- MODULE Scheduler ------------------------------
(***************************************************************************)
(* The scheduler's life: Schedule's endless loop of Update_clusters,       *)
(* Deploy_clusters (module Deploy) and sleep, next to a Kubernetes cluster *)
(* whose pods come and go, with a process that may die and be started      *)
(* again.  Everything but the cursor is listed afresh in each round, while *)
(* the pods the previous rounds bound keep running.                        *)
(***************************************************************************)
EXTENDS Deploy, Sequences

CONSTANTS Athena,      \* the pods of namespace "athena"
          Listing,     \* all pods in the API's order, by namespace and name
          Limits,      \* pod -> its limits and ports (getPodCPUMemLim)
          NodeLists,   \* what ListNode may return (module Machines)
          StartCursor  \* the values main gives curRack, curPM, curVM

(* The API lists a pod once, in the order of its namespace and name, and   *)
(* each node once; a node is listed with no port in use.                   *)
ASSUME SchedulerAssumption ==
  /\ Athena \subseteq Pod
  /\ Listing \in Seq(Pod)
  /\ \A i, j \in DOMAIN Listing : Listing[i] = Listing[j] => i = j
  /\ Limits \in [Pod -> Need]
  /\ StartCursor \in Cursor
  /\ \A nodes \in NodeLists :
        /\ nodes \in [DOMAIN nodes -> Node] /\ DOMAIN nodes \subseteq Nat
        /\ OncePerNode(nodes)
        /\ \A n \in DOMAIN nodes, p \in PortNo : nodes[n].ports[p] = 0

VARIABLE pc            \* where Schedule is: "pods", "nodes", "clusters" (inside
                       \* Update_clusters), "deploy", "sleep", or "dead"

schedVars == <<vars, pc>>

(* The globals Deploy_clusters works on, and its place in the loop.        *)
round == <<curServices, curNodes, rackMap, curClusters, left, phase, target, todo, sent>>

SchedInit ==
  /\ podNode \in [Pod -> {Unbound, Gone}]
  /\ curServices = <<>> /\ curNodes = <<>> /\ rackMap = <<>> /\ curClusters = <<>>
  /\ cursor = StartCursor
  /\ left = 0 /\ phase = "done" /\ target = 0 /\ todo = {}
  /\ sent = [p \in Pod |-> {}]
  /\ pc = "pods"

-----------------------------------------------------------------------------
(* ListPod: every pod of every namespace, whether it waits or runs.  Its   *)
(* Id is its place in the list: how many pods are listed before it.        *)
Existing == {i \in DOMAIN Listing : podNode[Listing[i]] # Gone}

Id(i) == Cardinality({j \in Existing : j < i})

PodWithId(k) == Listing[CHOOSE i \in Existing : Id(i) = k]

ListPod ==
  /\ pc = "pods"
  /\ curServices' = [k \in {Id(i) : i \in Existing} |->
                        [pod   |-> PodWithId(k),
                         res   |-> Limits[PodWithId(k)].res,
                         ports |-> Limits[PodWithId(k)].ports]]
  /\ pc' = "nodes"
  /\ UNCHANGED <<curNodes, rackMap, curClusters, cursor, left, phase, target, todo,
                 sent, podNode>>

(* ListNode and generateRackMap: what the machines have in all, not what   *)
(* is left of it.  An error of the API is dropped and leaves no node; a    *)
(* node that Prometheus does not report has no capacity and no place.      *)
ListNode(nodes) ==
  /\ pc = "nodes"
  /\ curNodes' = nodes
  /\ rackMap' = nodes
  /\ pc' = "clusters"
  /\ UNCHANGED <<curServices, curClusters, cursor, left, phase, target, todo, sent,
                 podNode>>

(* The Ids of the athena pods, and the size of the service map.            *)
AthenaIds == {i \in DOMAIN curServices : curServices[i].pod \in Athena}

(* Mutant: the service map has a row for every pod.                        *)
MapSize_AllPods == Cardinality(DOMAIN curServices)

MapSize == Cardinality(AthenaIds)

(* Mutant: the clusters of the round before stay in curClusters.           *)
UpdateClusters_Append ==
  /\ pc = "clusters"
  /\ MapSize >= 2
  /\ \E file \in C!Files(MapSize) :
       LET fresh == C!LoadClusters(curServices, file)
           old   == Cardinality(DOMAIN curClusters)
       IN curClusters' = [c \in 0 .. (old + 2 * MapSize - 2) |->
                            IF c < old THEN curClusters[c] ELSE fresh[c - old]]
  /\ pc' = "deploy"
  /\ left' = Cardinality(DOMAIN curClusters')
  /\ phase' = "scan"
  /\ target' = 0
  /\ todo' = {}
  /\ sent' = [p \in Pod |-> {}]
  /\ UNCHANGED <<curServices, curNodes, rackMap, cursor, podNode>>

(* Mutant: when the script fails, the clusters of the round before are     *)
(* used again.                                                             *)
UpdateClusters_Reuse ==
  /\ pc = "clusters"
  /\ \/ /\ MapSize >= 2
        /\ \E file \in C!Files(MapSize) : curClusters' = C!LoadClusters(curServices, file)
     \/ /\ MapSize < 2
        /\ curClusters' = curClusters
  /\ pc' = "deploy"
  /\ left' = Cardinality(DOMAIN curClusters')
  /\ phase' = "scan"
  /\ target' = 0
  /\ todo' = {}
  /\ sent' = [p \in Pod |-> {}]
  /\ UNCHANGED <<curServices, curNodes, rackMap, cursor, podNode>>

(* servicemap_generator, high.py and the loading of its file.  Clusters    *)
(* name services 0 .. MapSize - 1, and those index curServices.            *)
UpdateClusters ==
  /\ pc = "clusters"
  /\ MapSize >= 2
  /\ \E file \in C!Files(MapSize) : curClusters' = C!LoadClusters(curServices, file)
  /\ pc' = "deploy"
  /\ left' = 2 * MapSize - 1
  /\ phase' = "scan"
  /\ target' = 0
  /\ todo' = {}
  /\ sent' = [p \in Pod |-> {}]
  /\ UNCHANGED <<curServices, curNodes, rackMap, cursor, podNode>>

(* A pod whose Id is beyond the service map had traffic: serviceMap_temp   *)
(* is indexed out of range.  With fewer than two athena pods high.py fails *)
(* and log.Fatal ends the process.                                         *)
Fail ==
  /\ pc = "clusters"
  /\ MapSize < 2 \/ \E i \in AthenaIds : i >= MapSize
  /\ pc' = "dead"
  /\ UNCHANGED vars

Deploy_clusters ==
  /\ pc = "deploy"
  /\ DeployStep
  /\ UNCHANGED pc

Sleep ==
  /\ pc = "deploy"
  /\ phase = "done"
  /\ pc' = "sleep"
  /\ UNCHANGED vars

(* Mutant: the pods are not listed again.                                  *)
Wake_StalePods ==
  /\ pc = "sleep"
  /\ pc' = "nodes"
  /\ UNCHANGED vars

Wake ==
  /\ pc = "sleep"
  /\ pc' = "pods"
  /\ UNCHANGED vars

Step ==
  \/ ListPod
  \/ \E nodes \in NodeLists : ListNode(nodes)
  \/ UpdateClusters
  \/ Fail
  \/ Deploy_clusters
  \/ Sleep
  \/ Wake

-----------------------------------------------------------------------------
(* The process dies at any point, on an error of ListPod or of Prometheus  *)
(* among others; someone may start it again, and main sets the cursor.     *)
Crash ==
  /\ pc # "dead"
  /\ pc' = "dead"
  /\ UNCHANGED vars

Restart ==
  /\ pc = "dead"
  /\ pc' = "pods"
  /\ cursor' = StartCursor
  /\ curServices' = <<>> /\ curNodes' = <<>> /\ rackMap' = <<>> /\ curClusters' = <<>>
  /\ left' = 0 /\ phase' = "done" /\ target' = 0 /\ todo' = {}
  /\ sent' = [p \in Pod |-> {}]
  /\ UNCHANGED podNode

(* A pod is created, or created again under the name of a deleted one.     *)
CreatePod(p) ==
  /\ podNode[p] = Gone
  /\ podNode' = [podNode EXCEPT ![p] = Unbound]
  /\ UNCHANGED <<round, cursor, pc>>

PodDeleted(p) ==
  /\ DeletePod(p)
  /\ UNCHANGED pc

Pods == \E p \in Pod : CreatePod(p) \/ PodDeleted(p)

SchedNext == Step \/ Crash \/ Restart \/ Pods

SchedSpec == SchedInit /\ [][SchedNext]_schedVars

(* The loop runs on: every call it waits for returns, if only with an      *)
(* error.  A call that is made again and again does not fail each time:    *)
(* the listing of the nodes with the queries for their capacities and      *)
(* places, and the binding of a pod that waits.  Nothing is assumed of the *)
(* pods, and nobody has to start a dead process again.                     *)
NodesListed ==
  /\ pc = "nodes"
  /\ \E nodes \in NodeLists :
       /\ DOMAIN nodes # {}
       /\ \A n \in DOMAIN nodes : nodes[n].Rack # ""
       /\ ListNode(nodes)

Bound(p) ==
  /\ podNode[p] = Unbound
  /\ phase = "bind" /\ Deploy_clusters
  /\ podNode'[p] # Unbound

SchedFairness ==
  /\ WF_schedVars(Step)
  /\ SF_schedVars(NodesListed)
  /\ \A p \in Athena : SF_schedVars(Bound(p))

-----------------------------------------------------------------------------
(* The type invariant: between the rounds some globals are those of the    *)
(* new round and some still of the old one; together they fit during       *)
(* Deploy_clusters and until the next listing.                             *)
SchedTypeOK ==
  /\ pc \in {"pods", "nodes", "clusters", "deploy", "sleep", "dead"}
  /\ pc \in {"deploy", "sleep"} => TypeOK
  /\ cursor \in Cursor
  /\ podNode \in [Pod -> NodeName \cup {Unbound, Gone}]

(* Every round, the first of a process and the later ones alike, begins in *)
(* a state module Deploy starts from, whatever the rounds before left in   *)
(* the globals Update_clusters sets one by one (scheduler.go 209-316).     *)
RoundsStartFresh ==
  [][pc = "clusters" /\ pc' = "deploy" => Init']_schedVars

(* Seen from outside, the loop is a sequence of rounds, each a placement   *)
(* of all listed pods, running ones included (scheduler.go 401), and only  *)
(* what waits is bound, to the node its round put it on (module Rounds).   *)
InRound == pc \in {"deploy", "sleep"}

Rounds == INSTANCE Rounds WITH
  demand <- IF InRound THEN [s \in DOMAIN curServices |-> curServices[s].res] ELSE <<>>,
  room   <- IF InRound THEN [n \in DOMAIN curNodes |-> rackMap[n].free] ELSE <<>>,
  open   <- IF InRound THEN {n \in DOMAIN curNodes : curNodes[n].Name # masterNode} ELSE {},
  host   <- IF InRound THEN [s \in DOMAIN curServices |-> Host(s)] ELSE <<>>,
  pod    <- IF InRound THEN [s \in DOMAIN curServices |-> curServices[s].pod] ELSE <<>>,
  name   <- IF InRound THEN [n \in DOMAIN curNodes |-> curNodes[n].Name] ELSE <<>>

ImplementsRounds == Rounds!RoundsSpec

(* However incomplete the samples are (utils.go 224-265), no PM is listed  *)
(* in two racks, which the search for a node would not survive: a node     *)
(* whose place is not known has a PM and a rack of its own, "".            *)
RacksStayRegular == pc \in {"clusters", "deploy"} => Regular(rackMap)

(* "athena" comes first among the namespaces that have pods.               *)
AthenaListedFirst ==
  \A i, j \in DOMAIN Listing : i < j /\ Listing[j] \in Athena => Listing[i] \in Athena

(* Only athena pods are asked to be bound, when their namespace is listed  *)
(* first: rows of the service map (452-459) are then Ids of athena pods,   *)
(* and the clusters index curServices with them (303-306).                 *)
OnlyAthena == \A p \in Pod : sent[p] # {} => p \in Athena

(* A pod that waits is bound in the end, as long as the process is alive:  *)
(* each round lists all pods again, so that what one round missed, because *)
(* a call failed or the pod was not there yet, a later one makes up for.   *)
(* The nodes must have room for any hierarchy of the pods.                 *)
PendingBound ==
  <>[](pc # "dead") =>
     \A p \in Athena : podNode[p] = Unbound ~> podNode[p] # Unbound

(* scheduler.go 389: "check the resource availablity and deploy": the pods *)
(* on a node stay within what it has.                                      *)
NodesNotOvercommitted ==
  \A nodes \in NodeLists : \A n \in DOMAIN nodes : \A r \in Resource :
     MapThenSumSet(LAMBDA p : Limits[p].res[r],
                   {p \in Athena : podNode[p] = nodes[n].Name}) <= nodes[n].free[r]
=============================================================================
