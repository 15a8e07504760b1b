----------------------------- MODULE Prototype ------------------------------
(***************************************************************************)
(* The first version of the scheduler, test/main.go: one round over mock   *)
(* data.  It differs from module Deploy in three ways: the clusters come   *)
(* in the order Go visits the keys of a map, the file has no clusters of   *)
(* single services, and a cluster goes to the first node that can take it. *)
(* Nothing is bound: the call is missing (main.go 283-286).                *)
(***************************************************************************)
EXTENDS Integers, FiniteSetsExt

CONSTANTS Resource, PortNo,
          services,  \* curServices: position -> limits and ports
          machines,  \* curNodes as generateMockData sets them
          rows       \* the clusters of service_clusters.json, by key

(* What a service needs, and what a node has.                              *)
Quantities == [res : [Resource -> Nat], ports : [PortNo -> Nat]]

(* Of two rows of a linkage one is inside the other, or they are disjoint. *)
ASSUME PrototypeAssumption ==
  /\ services \in [DOMAIN services -> Quantities] /\ IsFiniteSet(DOMAIN services)
  /\ machines \in [DOMAIN machines -> Quantities] /\ DOMAIN machines \subseteq Nat
  /\ rows \in [DOMAIN rows -> SUBSET DOMAIN services] /\ IsFiniteSet(DOMAIN rows)
  /\ \A c, d \in DOMAIN rows : \/ rows[c] \subseteq rows[d] \/ rows[d] \subseteq rows[c]
                              \/ rows[c] \cap rows[d] = {}

VARIABLES curNodes, curClusters, left, phase,
          place      \* position of a cluster -> nodes it was deployed on

vars == <<curNodes, curClusters, left, phase, place>>

C == INSTANCE Clusters

Init ==
  /\ curNodes = machines
  /\ curClusters = [c \in {} |-> {}]
  /\ left = 0
  /\ phase = "update"
  /\ place = [c \in {} |-> {}]

-----------------------------------------------------------------------------
(* update_clusters: the keys of the file in any order.                     *)
Orders == {o \in [0 .. (Cardinality(DOMAIN rows) - 1) -> DOMAIN rows] :
             \A c, d \in DOMAIN o : o[c] = o[d] => c = d}

update_clusters ==
  /\ phase = "update"
  /\ \E o \in Orders :
       curClusters' = C!LoadClusters(services, [c \in DOMAIN o |-> rows[o[c]]])
  /\ left' = Cardinality(DOMAIN rows)
  /\ place' = [c \in 0 .. (Cardinality(DOMAIN rows) - 1) |-> {}]
  /\ phase' = "deploy"
  /\ UNCHANGED curNodes

Current == curClusters[left - 1]

Subset(a, b) == \A p \in PortNo : a[p] <= b[p]

Fits(n, need) == /\ \A r \in Resource : need.res[r] <= curNodes[n].res[r]
                 /\ ~Subset(need.ports, curNodes[n].ports)

(* The node the loop over curNodes stops at.                               *)
(* Mutant: the loop is left after the first node.                          *)
FirstFit_First(n, need) == n = 0 /\ Fits(n, need)

FirstFit(n, need) == Fits(n, need) /\ \A m \in DOMAIN curNodes : m < n => ~Fits(m, need)

Skip ==
  /\ phase = "deploy" /\ left > 0
  /\ Current.deployed
  /\ left' = left - 1
  /\ UNCHANGED <<curNodes, curClusters, phase, place>>

Refuse ==
  /\ phase = "deploy" /\ left > 0
  /\ ~Current.deployed
  /\ \A n \in DOMAIN curNodes : ~FirstFit(n, Current.profile)
  /\ left' = left - 1
  /\ UNCHANGED <<curNodes, curClusters, phase, place>>

(* Mutant: the disk is not subtracted.                                     *)
Charge_NotDisk(node, need) ==
  [res   |-> [r \in Resource |-> IF r = "disk" THEN node.res[r]
                                 ELSE node.res[r] - need.res[r]],
   ports |-> [p \in PortNo |-> node.ports[p] + need.ports[p]]]

Charge(node, need) ==
  [res   |-> [r \in Resource |-> node.res[r] - need.res[r]],
   ports |-> [p \in PortNo |-> node.ports[p] + need.ports[p]]]

(* Mutant: only the cluster itself is marked.                              *)
Place_MarksItself(n) ==
  /\ phase = "deploy" /\ left > 0
  /\ ~Current.deployed
  /\ FirstFit(n, Current.profile)
  /\ curClusters' = [curClusters EXCEPT ![left - 1].deployed = TRUE]
  /\ curNodes' = [curNodes EXCEPT ![n] = Charge(@, Current.profile)]
  /\ place' = [place EXCEPT ![left - 1] = @ \cup {n}]
  /\ left' = left - 1
  /\ UNCHANGED phase

(* The clusters inside it are marked with it; those it is inside of, if    *)
(* they are still to come, are not.                                        *)
Place(n) ==
  /\ phase = "deploy" /\ left > 0
  /\ ~Current.deployed
  /\ FirstFit(n, Current.profile)
  /\ curClusters' = [c \in DOMAIN curClusters |->
       [curClusters[c] EXCEPT !.deployed = @ \/ curClusters[c].services \subseteq Current.services]]
  /\ curNodes' = [curNodes EXCEPT ![n] = Charge(@, Current.profile)]
  /\ place' = [place EXCEPT ![left - 1] = @ \cup {n}]
  /\ left' = left - 1
  /\ UNCHANGED phase

Return ==
  /\ phase = "deploy" /\ left = 0
  /\ phase' = "returned"
  /\ UNCHANGED <<curNodes, curClusters, left, place>>

Next ==
  \/ update_clusters
  \/ Skip
  \/ Refuse
  \/ \E n \in DOMAIN curNodes : Place(n)
  \/ Return

Spec == Init /\ [][Next]_vars /\ WF_vars(Next)

-----------------------------------------------------------------------------
Here(n)  == {c \in DOMAIN curClusters : n \in place[c]}
Share(r) == [c \in DOMAIN curClusters |-> curClusters[c].profile.res[r]]

(* What is deployed on a node, each cluster counted, was there when the    *)
(* round began: also for a service that is deployed with two clusters.     *)
WithinMachine ==
  \A n \in DOMAIN machines, r \in Resource :
     SumFunctionOnSet(Share(r), Here(n)) <= machines[n].res[r]

(* The loop over curNodes looks at all of them: a cluster that was refused *)
(* fits no node, then and later in the round.                              *)
NothingLeftFits ==
  \A c \in DOMAIN curClusters :
     c >= left /\ ~curClusters[c].deployed =>
        \A n \in DOMAIN curNodes : ~Fits(n, curClusters[c].profile)

DeployedOnce ==
  \A c, d \in DOMAIN curClusters :
     c # d /\ curClusters[c].services \cap curClusters[d].services # {} =>
        place[c] = {} \/ place[d] = {}

(* No cluster is visited before one it is inside of.                       *)
WholesFirst ==
  \A c, d \in DOMAIN curClusters :
     curClusters[d].services \subseteq curClusters[c].services => d <= c

(* When wholes come before their parts a service is deployed at most once. *)
(* In the other orders Go may choose it need not be, which is why          *)
(* kubernetes-client sorts the clusters (scheduler.go 320-325).            *)
SortedDeploysOnce == WholesFirst => DeployedOnce
=============================================================================
