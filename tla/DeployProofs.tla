---------------------------- MODULE DeployProofs ----------------------------
(***************************************************************************)
(* Theorems about a scheduling round (module Deploy), for every number of  *)
(* services and nodes, every rack map, every hierarchy of clusters and     *)
(* every cluster profile.  First the search (module RackSearch), then the  *)
(* round: what is sent, what is refused, what the nodes hold, and that it  *)
(* implements module Placement.                                            *)
(***************************************************************************)
EXTENDS Deploy, FiniteFacts

-----------------------------------------------------------------------------
(* Every node's PM has a first node, so the rack map lists every node.     *)
LEMMA FirstOfPMType ==
  ASSUME NEW map, DOMAIN map \subseteq Nat, NEW n \in DOMAIN map
  PROVE  /\ FirstOfPM(map, map[n].PM) \in DOMAIN map
         /\ map[FirstOfPM(map, map[n].PM)].PM = map[n].PM
<1> DEFINE S == {k \in DOMAIN map : map[k].PM = map[n].PM}
<1>1. S \subseteq Nat /\ S # {}
  OBVIOUS
<1>2. Lowest(S) \in S
  <2> HIDE DEF S
  <2> QED BY <1>1, LowestExists
<1> QED BY <1>2 DEF FirstOfPM

(* A walk that accepts the nodes S returns one of them, if there are any.  *)
LEMMA FirstInSome ==
  ASSUME NEW map, DOMAIN map \subseteq Nat, NEW S, S \subseteq DOMAIN map
  PROVE  /\ FirstIn(map, S) \subseteq S
         /\ S # {} => FirstIn(map, S) # {}
<1>1. FirstIn(map, S) \subseteq S
  BY DEF FirstIn
<1>2. ASSUME S # {}
      PROVE  FirstIn(map, S) # {}
  <2> DEFINE F(n) == FirstOfPM(map, map[n].PM)
             P == {F(n) : n \in S}
             p == Lowest(P)
             T == {n \in S : F(n) = p}
             t == Lowest(T)
  <2>1. \A n \in S : F(n) \in Nat
    BY FirstOfPMType
  <2>2. p \in P /\ \A q \in P : p <= q
    <3>1. P \subseteq Nat /\ P # {}
      BY <1>2, <2>1
    <3> QED BY <3>1, LowestExists
  <2>3. t \in T /\ \A m \in T : t <= m
    <3>1. T \subseteq Nat /\ T # {}
      BY <2>2
    <3> QED BY <3>1, LowestExists
  <2>4. ASSUME NEW m \in S \ {t}
        PROVE  Precedes(map, t, m)
    <3>1. F(t) = p /\ F(m) \in P
      BY <2>3
    <3>2. p <= F(m) /\ p \in Nat /\ F(m) \in Nat
      BY <2>1, <2>2, <3>1
    <3>3. CASE p = F(m)
      <4>1. m \in T /\ t <= m /\ t # m
        BY <2>3, <3>3
      <4>2. t < m
        <5>1. t \in Nat /\ m \in Nat
          BY <2>3
        <5> HIDE DEF t
        <5> QED BY <4>1, <5>1
      <4> QED BY <3>1, <3>3, <4>2 DEF Precedes
    <3>4. CASE p # F(m)
      BY <3>1, <3>2, <3>4 DEF Precedes
    <3> QED BY <3>3, <3>4
  <2>5. t \in FirstIn(map, S)
    BY <2>3, <2>4 DEF FirstIn
  <2> QED BY <2>5
<1> QED BY <1>1, <1>2

-----------------------------------------------------------------------------
(* The search is sound: what it returns can take the cluster, so the       *)
(* master is never returned and no capacity is exceeded.                   *)
THEOREM SearchSound ==
  ASSUME NEW map, NEW nodes, NEW from, NEW need,
         DOMAIN map \subseteq Nat, DOMAIN nodes = DOMAIN map
  PROVE  getNextAvailableNode(map, nodes, from, need)
           \subseteq Candidates(nodes, need)
<1> DEFINE ok(S)  == {n \in S : Fits(nodes[n], need)}
           onPM   == ok(OnPM(map, from))
           onVM   == {n \in onPM : nodes[n].Name = from.vm}
           inRack == ok(InRack(map, nodes, from))
           far    == {ok(Elsewhere(map, rack)) : rack \in Racks(map) \ {from.rack}}
           result == getNextAvailableNode(map, nodes, from, need)
<1>1. \A S \in {onVM, onPM, inRack} \cup far :
         S \subseteq DOMAIN map /\ S \subseteq Candidates(nodes, need)
  BY DEF OnPM, InRack, Elsewhere, Candidates
<1>2. \A S \in {onVM, onPM, inRack} \cup far : FirstIn(map, S) \subseteq S
  <2> HIDE DEF onVM, onPM, inRack, far
  <2> QED BY <1>1, FirstInSome
<1>3. \A n \in result : \E S \in {onVM, onPM, inRack} \cup far : n \in FirstIn(map, S)
  BY DEF getNextAvailableNode
<1> QED BY <1>1, <1>2, <1>3

(* The search is complete: when the cursor points into the map, nothing is *)
(* returned only if no node can take the cluster - what the comment of     *)
(* utils.go 103 takes for granted.                                         *)
THEOREM SearchComplete ==
  ASSUME NEW map, NEW nodes, NEW from, NEW need,
         DOMAIN map \subseteq Nat, DOMAIN nodes = DOMAIN map,
         \A n \in DOMAIN map : nodes[n].Name = map[n].Name,
         CursorOK(map, from),
         getNextAvailableNode(map, nodes, from, need) = {}
  PROVE  Candidates(nodes, need) = {}
<1> DEFINE ok(S)  == {n \in S : Fits(nodes[n], need)}
           onPM   == ok(OnPM(map, from))
           onVM   == {n \in onPM : nodes[n].Name = from.vm}
           inRack == ok(InRack(map, nodes, from))
           result == getNextAvailableNode(map, nodes, from, need)
<1>1. /\ OnPM(map, from) \subseteq DOMAIN map
      /\ InRack(map, nodes, from) \subseteq DOMAIN map
      /\ \A rack : Elsewhere(map, rack) \subseteq DOMAIN map
  BY DEF OnPM, InRack, Elsewhere
<1>2. onVM = {}
  <2>1. onVM # {} => FirstIn(map, onVM) # {}
    BY <1>1, FirstInSome
  <2>2. onVM # {} => result = FirstIn(map, onVM)
    BY DEF getNextAvailableNode
  <2> QED BY <2>1, <2>2
<1>3. onPM = {}
  <2>1. onPM # {} => FirstIn(map, onPM) # {}
    BY <1>1, FirstInSome
  <2>2. onPM # {} => result = FirstIn(map, onPM)
    BY <1>2 DEF getNextAvailableNode
  <2> QED BY <2>1, <2>2
<1>4. inRack = {}
  <2>1. inRack # {} => FirstIn(map, inRack) # {}
    BY <1>1, FirstInSome
  <2>2. inRack # {} => result = FirstIn(map, inRack)
    BY <1>2, <1>3 DEF getNextAvailableNode
  <2> QED BY <2>1, <2>2
<1>5. ASSUME NEW rack \in Racks(map) \ {from.rack}
      PROVE  ok(Elsewhere(map, rack)) = {}
  <2>1. ok(Elsewhere(map, rack)) # {} => FirstIn(map, ok(Elsewhere(map, rack))) # {}
    BY <1>1, FirstInSome
  <2>2. FirstIn(map, ok(Elsewhere(map, rack))) \subseteq result
    BY <1>2, <1>3, <1>4 DEF getNextAvailableNode
  <2> QED BY <2>1, <2>2
<1>6. ASSUME NEW n \in DOMAIN map, Fits(nodes[n], need)
      PROVE  FALSE
  <2>1. ListedRack(map, n) \in Racks(map) /\ n \in Elsewhere(map, ListedRack(map, n))
    BY DEF Racks, Elsewhere
  <2>2. CASE ListedRack(map, n) # from.rack
    BY <1>5, <1>6, <2>1, <2>2
  <2>3. CASE ListedRack(map, n) = from.rack
    <3>1. /\ OnPM(map, from) # {}
          /\ map[n].Name = from.vm => map[n].PM = from.pm
      BY <2>1, <2>3 DEF CursorOK
    <3>2. map[n].PM # from.pm
      BY <1>3, <1>6, <2>3 DEF OnPM
    <3>3. n \in inRack
      BY <1>6, <2>3, <3>1, <3>2 DEF InRack
    <3> QED BY <1>4, <3>3
  <2> QED BY <2>2, <2>3
<1> QED BY <1>6 DEF Candidates

(* The search is local: when racks are regular and the cursor points into  *)
(* the map, no node that could take the cluster is closer than the one     *)
(* returned (the order of the passes, utils.go 36-101).                    *)
THEOREM SearchClosest ==
  ASSUME NEW map, NEW nodes, NEW from, NEW need,
         DOMAIN map \subseteq Nat, DOMAIN nodes = DOMAIN map,
         \A n \in DOMAIN map : /\ nodes[n].Name = map[n].Name
                               /\ nodes[n].PM = map[n].PM
                               /\ nodes[n].Rack = map[n].Rack,
         Regular(map), CursorOK(map, from),
         NEW t \in getNextAvailableNode(map, nodes, from, need),
         NEW n \in Candidates(nodes, need)
  PROVE  Distance(nodes[t], from) <= Distance(nodes[n], from)
<1> DEFINE ok(S)  == {k \in S : Fits(nodes[k], need)}
           onPM   == ok(OnPM(map, from))
           onVM   == {k \in onPM : nodes[k].Name = from.vm}
           inRack == ok(InRack(map, nodes, from))
           result == getNextAvailableNode(map, nodes, from, need)
           D(k)   == Distance(nodes[k], from)
<1>1. /\ OnPM(map, from) \subseteq DOMAIN map
      /\ InRack(map, nodes, from) \subseteq DOMAIN map
      /\ Candidates(nodes, need) \subseteq DOMAIN map
  BY DEF OnPM, InRack, Candidates
<1>2. \A k : D(k) \in 0 .. 3
  BY DEF Distance
<1>3. \A k \in DOMAIN map : ListedRack(map, k) = nodes[k].Rack
  BY DEF Regular
<1>4. ASSUME NEW k \in onPM
      PROVE  D(k) <= 1 /\ (k \in onVM => D(k) = 0)
  BY <1>1, <1>3 DEF Distance, OnPM
<1>5. D(n) = 0 => n \in onVM
  BY <1>1, <1>3 DEF Distance, OnPM, Candidates
<1>6. D(n) <= 1 => n \in onPM
  BY <1>1, <1>3 DEF Distance, OnPM, Candidates
<1>7. CASE onVM # {}
  <2>1. t \in onVM
    BY <1>1, <1>7, FirstInSome DEF getNextAvailableNode
  <2> QED BY <1>2, <1>4, <2>1
<1>8. CASE onVM = {} /\ onPM # {}
  <2>1. t \in onPM
    BY <1>1, <1>8, FirstInSome DEF getNextAvailableNode
  <2> QED BY <1>2, <1>4, <1>5, <1>8, <2>1
<1>9. CASE onPM = {} /\ inRack # {}
  <2>1. t \in inRack
    BY <1>1, <1>9, FirstInSome DEF getNextAvailableNode
  <2>2. D(t) <= 2
    BY <1>1, <1>3, <2>1 DEF InRack, Distance
  <2> QED BY <1>2, <1>6, <1>9, <2>2
<1>10. CASE onPM = {} /\ inRack = {}
  <2>1. ASSUME D(n) <= 2
        PROVE  n \in inRack
    <3>1. nodes[n].Rack = from.rack /\ nodes[n].PM # from.pm
      BY <1>6, <1>10, <2>1 DEF Distance
    <3>2. n \in Elsewhere(map, from.rack) /\ from.rack \in Racks(map)
      BY <1>1, <1>3, <3>1 DEF Elsewhere, Racks
    <3>3. OnPM(map, from) # {} /\ nodes[n].Name # from.vm
      BY <1>1, <3>1, <3>2 DEF CursorOK
    <3> QED BY <1>1, <1>3, <3>1, <3>3 DEF InRack, Candidates
  <2> QED BY <1>2, <1>10, <2>1
<1> QED BY <1>7, <1>8, <1>9, <1>10

(* In a regular map the cursor that follows a placement points into it.    *)
LEMMA CursorFollows ==
  ASSUME NEW map, DOMAIN map \subseteq Nat, Regular(map),
         \A k, n \in DOMAIN map : map[k].Name = map[n].Name => k = n,
         NEW n \in DOMAIN map, NEW from,
         from.rack = map[n].Rack, from.pm = map[n].PM, from.vm = map[n].Name
  PROVE  CursorOK(map, from)
<1>1. n \in OnPM(map, from)
  BY DEF Regular, OnPM
<1>2. \A k \in Elsewhere(map, from.rack) : map[k].Name = from.vm => map[k].PM = from.pm
  BY DEF Elsewhere
<1> QED BY <1>1, <1>2 DEF CursorOK

-----------------------------------------------------------------------------
(* The type invariant is inductive with what the loop keeps: the positions *)
(* below left are clusters, the rack map holds the places of curNodes, and *)
(* the node chosen still has room for the cluster while its pods are bound.*)
Shape ==
  /\ DOMAIN curNodes \subseteq Nat
  /\ DOMAIN curClusters \subseteq Nat
  /\ \A c \in Nat : c < left => c \in DOMAIN curClusters
  /\ \A n \in DOMAIN curNodes : /\ curNodes[n].Name = rackMap[n].Name
                                /\ curNodes[n].PM = rackMap[n].PM
                                /\ curNodes[n].Rack = rackMap[n].Rack
  /\ phase = "bind" => /\ left > 0
                       /\ target \in DOMAIN curNodes
                       /\ Fits(curNodes[target], Current.profile)

TypeInv == TypeOK /\ Shape

LEMMA MarkType ==
  ASSUME NEW ids, NEW cl, cl \in [DOMAIN cl -> Cluster(ids)], NEW c \in DOMAIN cl
  PROVE  /\ MarkDeployed(cl, c) \in [DOMAIN cl -> Cluster(ids)]
         /\ DOMAIN MarkDeployed(cl, c) = DOMAIN cl
         /\ \A d \in DOMAIN cl :
              /\ MarkDeployed(cl, c)[d].services = cl[d].services
              /\ MarkDeployed(cl, c)[d].profile = cl[d].profile
              /\ MarkDeployed(cl, c)[d].deployed
                   <=> cl[d].deployed \/ cl[d].services \subseteq cl[c].services
<1>1. ASSUME NEW d \in DOMAIN cl
      PROVE  /\ MarkDeployed(cl, c)[d] \in Cluster(ids)
             /\ MarkDeployed(cl, c)[d].services = cl[d].services
             /\ MarkDeployed(cl, c)[d].profile = cl[d].profile
             /\ MarkDeployed(cl, c)[d].deployed
                  <=> cl[d].deployed \/ cl[d].services \subseteq cl[c].services
  BY DEF MarkDeployed, Cluster
<1>2. DOMAIN MarkDeployed(cl, c) = DOMAIN cl
  BY DEF MarkDeployed
<1> QED BY <1>1, <1>2 DEF MarkDeployed

LEMMA ChargeType ==
  ASSUME NEW node \in Node, NEW need \in Need,
         \A r \in Resource : node.free[r] >= need.res[r]
  PROVE  /\ Charge(node, need) \in Node
         /\ Charge(node, need).Name = node.Name
         /\ Charge(node, need).PM = node.PM
         /\ Charge(node, need).Rack = node.Rack
         /\ \A r \in Resource : Charge(node, need).free[r] = node.free[r] - need.res[r]
         /\ \A p \in PortNo : Charge(node, need).ports[p] = node.ports[p] + need.ports[p]
<1>1. /\ node.free \in [Resource -> Nat] /\ node.ports \in [PortNo -> Nat]
      /\ need.res \in [Resource -> Nat] /\ need.ports \in [PortNo -> Nat]
  BY DEF Node, Need, Amount, Ports
<1>2. [r \in Resource |-> node.free[r] - need.res[r]] \in [Resource -> Nat]
  BY <1>1
<1>3. [p \in PortNo |-> node.ports[p] + need.ports[p]] \in [PortNo -> Nat]
  BY <1>1
<1> QED BY <1>1, <1>2, <1>3 DEF Charge, Node, Ports

(* No step leaves the types, and no capacity becomes negative: what is     *)
(* subtracted after the binds (359-361) was compared before them (335).    *)
LEMMA TypeInit == Init => TypeInv
  BY DEF Init, TypeInv, TypeOK, Shape, RoundStart

LEMMA TypeStep == TypeInv /\ [Next]_vars => TypeInv'
<1> SUFFICES ASSUME TypeInv, [Next]_vars
             PROVE  TypeInv'
  OBVIOUS
<1> USE DEF TypeInv, TypeOK, Shape
<1>1. CASE SkipCluster
  BY <1>1 DEF SkipCluster, plan, Current
<1>2. CASE RefuseCluster
  BY <1>2 DEF RefuseCluster, plan, Current
<1>3. ASSUME NEW n \in DOMAIN curNodes, ChooseNode(n)
      PROVE  TypeInv'
  <2>1. left - 1 \in DOMAIN curClusters
    BY <1>3 DEF ChooseNode
  <2>2. /\ curClusters' \in [DOMAIN curClusters' -> Cluster(DOMAIN curServices)]
        /\ DOMAIN curClusters' = DOMAIN curClusters
        /\ Current'.profile = Current.profile
    BY <1>3, <2>1, MarkType DEF ChooseNode, Current
  <2>3. Current.services \subseteq DOMAIN curServices
    BY <2>1 DEF Current, Cluster
  <2>4. n \in Candidates(curNodes, Current.profile)
    BY <1>3, SearchSound DEF ChooseNode
  <2>5. Fits(curNodes[n], Current.profile)
    BY <2>4 DEF Candidates
  <2> HIDE DEF Current
  <2> QED BY <1>3, <2>2, <2>3, <2>5 DEF ChooseNode, Fits
<1>4. ASSUME NEW s \in DOMAIN curServices, BindPod(s)
      PROVE  TypeInv'
  <2>1. curServices[s].pod \in Pod /\ curNodes[target].Name \in NodeName
    BY <1>4 DEF BindPod, Service, Node
  <2>2. sent' \in [Pod -> SUBSET NodeName]
    BY <1>4, <2>1 DEF BindPod
  <2>3. podNode' \in [Pod -> NodeName \cup {Unbound, Gone}]
    BY <1>4, <2>1 DEF BindPod, Binding
  <2> QED BY <1>4, <2>2, <2>3 DEF BindPod, plan, Current
<1>5. CASE ChargeNode
  <2>1. left - 1 \in DOMAIN curClusters /\ Current.profile \in Need
    BY <1>5 DEF ChargeNode, Current, Cluster
  <2>2. /\ target \in DOMAIN curNodes /\ curNodes[target] \in Node
        /\ \A r \in Resource : curNodes[target].free[r] >= Current.profile.res[r]
    BY <1>5 DEF ChargeNode, Fits
  <2> DEFINE node == Charge(curNodes[target], Current.profile)
  <2>3. /\ node \in Node
        /\ node.Name = curNodes[target].Name
        /\ node.PM = curNodes[target].PM
        /\ node.Rack = curNodes[target].Rack
    BY <2>1, <2>2, ChargeType
  <2>4. curNodes' = [curNodes EXCEPT ![target] = node]
    BY <1>5 DEF ChargeNode
  <2> HIDE DEF node
  <2>5. curNodes' \in [DOMAIN curNodes -> Node] /\ DOMAIN curNodes' = DOMAIN curNodes
    BY <2>2, <2>3, <2>4
  <2>6. cursor' \in Cursor
    BY <1>5, <2>2 DEF ChargeNode, CursorAt, Node, Cursor
  <2> QED BY <1>5, <2>2, <2>3, <2>4, <2>5, <2>6 DEF ChargeNode, plan
<1>6. CASE Finish
  BY <1>6 DEF Finish, plan, Current
<1>7. ASSUME NEW p \in Pod, DeletePod(p)
      PROVE  TypeInv'
  BY <1>7 DEF DeletePod, plan, Current
<1>8. CASE UNCHANGED vars
  BY <1>8 DEF vars, Current
<1> QED BY <1>1, <1>2, <1>3, <1>4, <1>5, <1>6, <1>7, <1>8 DEF Next, DeployStep

THEOREM TypeCorrect == Spec => []TypeOK
<1>1. Init => TypeInv
  BY TypeInit
<1>2. TypeInv /\ [Next]_vars => TypeInv'
  BY TypeStep
<1>3. TypeInv => TypeOK
  BY DEF TypeInv
<1> QED BY <1>1, <1>2, <1>3, PTL DEF Spec

-----------------------------------------------------------------------------
(* Why no pod is asked for twice.  The inductive invariant says that a     *)
(* cluster the loop has yet to consider is untouched unless it is marked:  *)
(* the clusters are nested or disjoint and come larger first, so what a    *)
(* placed cluster has in common with a later one, the later one is part of *)
(* and was marked with it.                                                 *)
Listed ==
  /\ Hierarchy(curClusters)
  /\ OncePerPod(curServices)
  /\ OncePerNode(curNodes)

(* The clusters whose turn has not come: all below left - 1 while the      *)
(* cluster at left - 1 is being bound.                                     *)
Ahead(c) == c \in DOMAIN curClusters /\ c < left /\ (phase = "bind" => c < left - 1)

Fresh(s) == sent[curServices[s].pod] = {} /\ s \notin todo

Untouched ==
  \A c \in DOMAIN curClusters :
     Ahead(c) /\ ~curClusters[c].deployed => \A s \in curClusters[c].services : Fresh(s)

(* While a cluster is bound, its services are split into those still to do *)
(* and those sent to the target.                                           *)
InHand ==
  IF phase = "bind"
  THEN /\ todo \subseteq Current.services
       /\ \A s \in Current.services :
            sent[curServices[s].pod] =
              IF s \in todo THEN {} ELSE {curNodes[target].Name}
  ELSE todo = {}

OneNode == \A p \in Pod : \A m, n \in sent[p] : m = n

RequestInv ==
  TypeInv /\ Listed /\ Untouched /\ InHand /\ OneNode /\ DeployedTogether

(* A step that places no cluster leaves every service where it is: binding *)
(* a pod turns "to be sent to the target" into "sent to the target".       *)
LEMMA HostsKept ==
  ASSUME RequestInv, [Next]_vars, ~\E n \in DOMAIN curNodes : ChooseNode(n)
  PROVE  \A s \in DOMAIN curServices : Host(s)' = Host(s)
<1> USE DEF RequestInv, TypeInv
<1>1. ASSUME NEW b \in DOMAIN curServices, BindPod(b), NEW s \in DOMAIN curServices
      PROVE  Host(s)' = Host(s)
  <2>1. /\ phase = "bind" /\ b \in todo /\ target \in DOMAIN curNodes
        /\ todo' = todo \ {b}
        /\ UNCHANGED <<curServices, curNodes, phase, target>>
        /\ sent' = [sent EXCEPT ![curServices[b].pod] = @ \cup {curNodes[target].Name}]
    BY <1>1 DEF BindPod, plan, TypeOK
  <2>2. /\ curServices[s].pod \in Pod /\ curServices[b].pod \in Pod
        /\ sent \in [Pod -> SUBSET NodeName]
    BY DEF TypeOK, Service
  <2>3. CASE s = b
    <3>1. sent[curServices[s].pod] = {}
      BY <2>1, <2>3 DEF InHand
    <3>2. sent'[curServices[s].pod] = {curNodes[target].Name} /\ s \notin todo'
      BY <2>1, <2>2, <2>3, <3>1
    <3>3. \A n \in DOMAIN curNodes : curNodes[n].Name = curNodes[target].Name <=> n = target
      BY <2>1 DEF Listed, OncePerNode
    <3> QED BY <2>1, <2>3, <3>1, <3>2, <3>3 DEF Host
  <2>4. CASE s # b
    <3>1. sent'[curServices[s].pod] = sent[curServices[s].pod]
      BY <2>1, <2>2, <2>4 DEF Listed, OncePerPod
    <3> QED BY <2>1, <2>4, <3>1 DEF Host
  <2> QED BY <2>3, <2>4
<1>2. CASE ChargeNode
  <2>1. /\ target \in DOMAIN curNodes /\ curNodes \in [DOMAIN curNodes -> Node]
        /\ todo = {} /\ todo' = {} /\ sent' = sent /\ curServices' = curServices
        /\ curNodes' = [curNodes EXCEPT ![target] = Charge(@, Current.profile)]
    BY <1>2 DEF ChargeNode, plan, TypeOK
  <2>2. Charge(curNodes[target], Current.profile).Name = curNodes[target].Name
    BY <2>1 DEF Charge, Node
  <2>3. DOMAIN curNodes' = DOMAIN curNodes
        /\ \A n \in DOMAIN curNodes : curNodes'[n].Name = curNodes[n].Name
    BY <2>1, <2>2
  <2> QED BY <2>1, <2>3 DEF Host
<1>3. CASE SkipCluster \/ RefuseCluster \/ Finish \/ \E p \in Pod : DeletePod(p)
  BY <1>3 DEF SkipCluster, RefuseCluster, Finish, DeletePod, plan, Host, InHand
<1>4. CASE UNCHANGED vars
  BY <1>4 DEF vars, Host
<1> QED BY <1>1, <1>2, <1>3, <1>4 DEF Next, DeployStep

LEMMA RequestInit == Init => RequestInv
<1> SUFFICES ASSUME Init PROVE RequestInv
  OBVIOUS
<1>1. TypeInv
  BY TypeInit
<1>2. Listed /\ InHand /\ OneNode
  BY DEF Init, RoundStart, Listed, InHand, OneNode
<1>3. Untouched /\ DeployedTogether
  BY <1>1 DEF Init, RoundStart, Untouched, Fresh, DeployedTogether, TypeInv, TypeOK, Service, Cluster
<1> QED BY <1>1, <1>2, <1>3 DEF RequestInv

LEMMA RequestStep == RequestInv /\ [Next]_vars => RequestInv'
<1> SUFFICES ASSUME RequestInv, [Next]_vars
             PROVE  RequestInv'
  OBVIOUS
<1> USE DEF RequestInv
<1>1. TypeInv'
  BY TypeStep
<1>2. ASSUME NEW n \in DOMAIN curNodes, ChooseNode(n)
      PROVE  RequestInv'
  <2> DEFINE c == left - 1
             S == curClusters[c].services
  <2>1. /\ phase = "scan" /\ phase' = "bind" /\ target' = n /\ todo' = S /\ todo = {}
        /\ UNCHANGED <<curServices, curNodes, left, sent>>
        /\ left > 0 /\ left \in Nat /\ ~curClusters[c].deployed
        /\ c \in DOMAIN curClusters /\ curClusters' = MarkDeployed(curClusters, c)
    BY <1>2 DEF ChooseNode, Current, InHand, TypeInv, TypeOK, Shape
  <2>2. /\ DOMAIN curClusters' = DOMAIN curClusters
        /\ \A d \in DOMAIN curClusters :
             /\ curClusters'[d].services = curClusters[d].services
             /\ curClusters'[d].deployed
                  <=> curClusters[d].deployed \/ curClusters[d].services \subseteq S
    BY <2>1, MarkType DEF TypeInv, TypeOK
  <2>3. Current'.services = S
    BY <2>1, <2>2 DEF Current
  <2>4. \A s \in S : s \in DOMAIN curServices /\ sent[curServices[s].pod] = {}
    BY <2>1 DEF Untouched, Ahead, Fresh, TypeInv, TypeOK, Cluster
  <2>5. Listed'
    BY <2>1, <2>2 DEF Listed, Hierarchy, OncePerPod, OncePerNode
  <2>6. Untouched'
    <3> SUFFICES ASSUME NEW d \in DOMAIN curClusters, d < left - 1,
                        ~curClusters'[d].deployed, NEW s \in curClusters[d].services
                 PROVE  Fresh(s)'
      BY <2>1, <2>2 DEF Untouched, Ahead
    <3>1. sent[curServices[s].pod] = {}
      BY <2>1, <2>2 DEF Untouched, Ahead, Fresh, TypeInv, Shape
    <3>2. s \notin S
      BY <2>1, <2>2 DEF Listed, Hierarchy
    <3> QED BY <2>1, <3>1, <3>2 DEF Fresh
  <2>7. InHand'
    BY <2>1, <2>3, <2>4 DEF InHand
  <2>8. OneNode'
    BY <2>1 DEF OneNode
  <2>9. \A s \in S : Host(s)' = {n}
    BY <2>1, <2>4 DEF Host
  <2>10. \A s \in DOMAIN curServices \ S : Host(s)' = Host(s)
    BY <2>1 DEF Host
  <2>11. \A s \in S : Host(s) = {}
    BY <2>1, <2>4 DEF Host
  <2>12. DeployedTogether'
    <3> SUFFICES ASSUME NEW d \in DOMAIN curClusters, curClusters'[d].deployed
                 PROVE  \E k \in DOMAIN curNodes :
                          \A s \in curClusters[d].services : Host(s)' = {k}
      BY <2>1, <2>2 DEF DeployedTogether
    <3>1. CASE curClusters[d].services \subseteq S
      BY <2>9, <3>1
    <3>2. CASE curClusters[d].deployed
      <4>1. PICK k \in DOMAIN curNodes : \A s \in curClusters[d].services : Host(s) = {k}
        BY <3>2 DEF DeployedTogether
      <4>2. \A s \in curClusters[d].services : s \in DOMAIN curServices /\ s \notin S
        BY <2>11, <4>1 DEF TypeInv, TypeOK, Cluster
      <4> QED BY <2>10, <4>1, <4>2
    <3> QED BY <2>2, <3>1, <3>2
  <2> QED BY <1>1, <2>5, <2>6, <2>7, <2>8, <2>12
<1>3. ASSUME ~\E n \in DOMAIN curNodes : ChooseNode(n)
      PROVE  RequestInv'
  <2>1. curClusters' = curClusters /\ curServices' = curServices
    BY <1>3 DEF Next, DeployStep, SkipCluster, RefuseCluster, BindPod, ChargeNode,
                Finish, DeletePod, plan, vars
  <2>2. DeployedTogether'
    <3>1. DOMAIN curNodes' = DOMAIN curNodes
      BY <1>3 DEF Next, DeployStep, SkipCluster, RefuseCluster, BindPod, ChargeNode,
                  Finish, DeletePod, plan, vars, TypeInv, TypeOK
    <3>2. \A s \in DOMAIN curServices : Host(s)' = Host(s)
      BY <1>3, HostsKept
    <3> QED BY <2>1, <3>1, <3>2 DEF DeployedTogether, TypeInv, TypeOK, Cluster
  <2>3. CASE SkipCluster \/ RefuseCluster
    <3>1. /\ phase = "scan" /\ left' = left - 1 /\ left \in Nat
          /\ UNCHANGED <<curNodes, phase, target, todo, sent>>
      BY <2>3 DEF SkipCluster, RefuseCluster, TypeInv, TypeOK
    <3>2. Listed' /\ InHand' /\ OneNode'
      BY <2>1, <3>1 DEF Listed, InHand, OneNode
    <3>3. Untouched'
      BY <2>1, <3>1 DEF Untouched, Ahead, Fresh, TypeInv, Shape
    <3> QED BY <1>1, <2>2, <3>2, <3>3
  <2>4. ASSUME NEW b \in DOMAIN curServices, BindPod(b)
        PROVE  RequestInv'
    <3>1. /\ phase = "bind" /\ b \in todo /\ todo' = todo \ {b}
          /\ UNCHANGED <<curNodes, phase, target, left>>
          /\ sent' = [sent EXCEPT ![curServices[b].pod] = @ \cup {curNodes[target].Name}]
          /\ sent \in [Pod -> SUBSET NodeName]
      BY <2>4 DEF BindPod, plan, TypeInv, TypeOK
    <3>2. /\ b \in Current.services /\ Current' = Current
          /\ left - 1 \in DOMAIN curClusters
          /\ \A d \in DOMAIN curClusters : curClusters[d].services \subseteq DOMAIN curServices
      BY <2>1, <3>1 DEF InHand, Current, TypeInv, TypeOK, Shape, Cluster
    <3>3. \A s \in DOMAIN curServices : curServices[s].pod \in Pod
      BY DEF TypeInv, TypeOK, Service
    <3>4. \A s \in DOMAIN curServices :
            sent'[curServices[s].pod] =
              IF s = b THEN {curNodes[target].Name} ELSE sent[curServices[s].pod]
      BY <3>1, <3>2, <3>3 DEF InHand, Listed, OncePerPod
    <3>5. Listed'
      BY <2>1, <3>1 DEF Listed
    <3>6. InHand'
      <4>1. /\ todo \subseteq Current.services
            /\ \A s \in Current.services :
                 sent[curServices[s].pod] =
                   IF s \in todo THEN {} ELSE {curNodes[target].Name}
        BY <3>1 DEF InHand
      <4>2. Current.services \subseteq DOMAIN curServices
        BY <3>2 DEF Current
      <4>3. ASSUME NEW s \in Current.services
            PROVE  sent'[curServices[s].pod] =
                     IF s \in todo' THEN {} ELSE {curNodes[target].Name}
        BY <3>1, <3>4, <4>1, <4>2, <4>3
      <4> QED BY <2>1, <3>1, <3>2, <4>1, <4>3 DEF InHand
    <3>7. Untouched'
      <4> SUFFICES ASSUME NEW d \in DOMAIN curClusters, d < left - 1,
                          ~curClusters[d].deployed, NEW s \in curClusters[d].services
                   PROVE  Fresh(s)'
        BY <2>1, <3>1 DEF Untouched, Ahead
      <4>1. Fresh(s)
        BY <3>1, <3>2 DEF Untouched, Ahead, TypeInv, TypeOK, Shape
      <4>2. s # b /\ s \in DOMAIN curServices
        BY <3>1, <3>2, <4>1 DEF Fresh
      <4> QED BY <2>1, <3>1, <3>4, <4>1, <4>2 DEF Fresh
    <3>8. OneNode'
      <4>1. sent[curServices[b].pod] = {}
        BY <3>1, <3>2 DEF InHand
      <4> QED BY <3>1, <3>3, <4>1 DEF OneNode
    <3> QED BY <1>1, <2>2, <3>5, <3>6, <3>7, <3>8
  <2>5. CASE ChargeNode
    <3>1. /\ phase = "bind" /\ phase' = "scan" /\ left' = left - 1 /\ left \in Nat
          /\ todo = {} /\ UNCHANGED <<todo, sent>>
          /\ target \in DOMAIN curNodes /\ curNodes \in [DOMAIN curNodes -> Node]
          /\ curNodes' = [curNodes EXCEPT ![target] = Charge(@, Current.profile)]
      BY <2>5 DEF ChargeNode, TypeInv, TypeOK
    <3>2. Charge(curNodes[target], Current.profile).Name = curNodes[target].Name
      BY <3>1 DEF Charge, Node
    <3>3. Listed'
      BY <2>1, <3>1, <3>2 DEF Listed, OncePerNode
    <3>4. InHand' /\ OneNode'
      BY <3>1 DEF InHand, OneNode
    <3>5. Untouched'
      BY <2>1, <3>1 DEF Untouched, Ahead, Fresh, TypeInv, Shape
    <3> QED BY <1>1, <2>2, <3>3, <3>4, <3>5
  <2>6. CASE Finish \/ (\E p \in Pod : DeletePod(p)) \/ UNCHANGED vars
    <3>1. /\ UNCHANGED <<curNodes, left, target, todo, sent>>
          /\ phase' = phase \/ (phase = "scan" /\ phase' = "done")
      BY <2>6 DEF Finish, DeletePod, plan, vars
    <3>2. Listed' /\ InHand' /\ OneNode'
      BY <2>1, <3>1 DEF Listed, InHand, OneNode, Current
    <3>3. Untouched'
      BY <2>1, <3>1 DEF Untouched, Ahead, Fresh
    <3> QED BY <1>1, <2>2, <3>2, <3>3
  <2> QED BY <1>3, <2>3, <2>4, <2>5, <2>6 DEF Next, DeployStep
<1> QED BY <1>2, <1>3

(* In every round no pod is asked to be bound twice.                       *)
THEOREM OneRequest == Spec => []OneRequestPerPod
<1>1. Init => RequestInv
  BY RequestInit
<1>2. RequestInv /\ [Next]_vars => RequestInv'
  BY RequestStep
<1>3. RequestInv => OneRequestPerPod
  BY DEF RequestInv, OneRequestPerPod, OneNode, InHand, TypeInv, Shape, TypeOK, Current, Cluster
<1> QED BY <1>1, <1>2, <1>3, PTL DEF Spec

(* In every round what is marked deployed is on one node.                  *)
THEOREM Together == Spec => []DeployedTogether
<1>1. Init => RequestInv
  BY RequestInit
<1>2. RequestInv /\ [Next]_vars => RequestInv'
  BY RequestStep
<1>3. RequestInv => DeployedTogether
  BY DEF RequestInv
<1> QED BY <1>1, <1>2, <1>3, PTL DEF Spec

-----------------------------------------------------------------------------
(* Why a refused cluster fits nowhere from then on: when it was refused    *)
(* the search had seen every node, because the cursor pointed into a       *)
(* regular map, and a node only loses capacity and only gains ports.  What *)
(* leaves the loop after its binds is marked, so it is not refused.        *)
Marked == TypeInv /\ (phase = "bind" => Current.deployed)

LEMMA ChargedFitsLess ==
  ASSUME NEW node \in Node, NEW need \in Need, NEW other \in Need,
         \A r \in Resource : node.free[r] >= need.res[r],
         Fits(Charge(node, need), other)
  PROVE  Fits(node, other)
<1>1. /\ node.free \in [Resource -> Nat] /\ node.ports \in [PortNo -> Nat]
      /\ need.res \in [Resource -> Nat] /\ need.ports \in [PortNo -> Nat]
      /\ other.res \in [Resource -> Nat] /\ other.ports \in [PortNo -> Nat]
  BY DEF Node, Need, Amount, Ports
<1>2. /\ Charge(node, need).Name = node.Name
      /\ \A r \in Resource : Charge(node, need).free[r] = node.free[r] - need.res[r]
      /\ \A p \in PortNo : Charge(node, need).ports[p] = node.ports[p] + need.ports[p]
  BY ChargeType
<1>3. ASSUME NEW r \in Resource
      PROVE  node.free[r] >= other.res[r]
  <2>1. node.free[r] \in Nat /\ need.res[r] \in Nat /\ other.res[r] \in Nat
    BY <1>1
  <2>2. Charge(node, need).free[r] >= other.res[r]
    BY DEF Fits
  <2>3. node.free[r] - need.res[r] >= other.res[r]
    BY <1>2, <2>2
  <2> QED BY <2>1, <2>3
<1>4. ~Subset(other.ports, node.ports)
  BY <1>1, <1>2 DEF Fits, Subset
<1> QED BY <1>2, <1>3, <1>4 DEF Fits

LEMMA MarkedStep ==
  ASSUME Marked, [Next]_vars
  PROVE  /\ Marked'
         /\ Oriented => \A c \in DOMAIN curClusters : FitsAfterAll(c)' => FitsAfterAll(c)
<1> USE DEF Marked, FitsAfterAll
<1> DEFINE Keeps == Oriented => \A c \in DOMAIN curClusters : FitsAfterAll(c)' => FitsAfterAll(c)
<1>1. TypeInv'
  BY TypeStep
<1>2. CASE SkipCluster
  <2>1. /\ phase = "scan" /\ left' = left - 1 /\ left \in Nat /\ Current.deployed
        /\ UNCHANGED <<curServices, rackMap, curClusters, curNodes, cursor, phase>>
    BY <1>2 DEF SkipCluster, plan, TypeInv, TypeOK
  <2> QED BY <1>1, <2>1 DEF Refused, Current, TypeInv, Shape
<1>3. CASE RefuseCluster
  <2>1. /\ phase = "scan" /\ left' = left - 1 /\ left \in Nat
        /\ UNCHANGED <<curServices, rackMap, curClusters, curNodes, cursor, phase>>
        /\ getNextAvailableNode(rackMap, curNodes, cursor, Current.profile) = {}
    BY <1>3 DEF RefuseCluster, plan, TypeInv, TypeOK
  <2>2. Oriented => Candidates(curNodes, Current.profile) = {}
    <3>1. DOMAIN rackMap = DOMAIN curNodes /\ DOMAIN rackMap \subseteq Nat
      BY DEF TypeInv, TypeOK, Shape
    <3>2. \A n \in DOMAIN rackMap : curNodes[n].Name = rackMap[n].Name
      BY <3>1 DEF TypeInv, Shape
    <3> QED BY <2>1, <3>1, <3>2, SearchComplete DEF Oriented
  <2>3. Keeps
    BY <2>1, <2>2 DEF Refused, Current, TypeInv, Shape
  <2> QED BY <1>1, <2>1, <2>3
<1>4. ASSUME NEW n \in DOMAIN curNodes, ChooseNode(n)
      PROVE  Marked' /\ Keeps
  <2>1. /\ UNCHANGED <<curNodes, rackMap, cursor, left>>
        /\ left - 1 \in DOMAIN curClusters
        /\ curClusters' = MarkDeployed(curClusters, left - 1)
    BY <1>4 DEF ChooseNode, TypeInv, TypeOK, Shape
  <2>2. /\ DOMAIN curClusters' = DOMAIN curClusters
        /\ \A d \in DOMAIN curClusters :
             /\ curClusters'[d].profile = curClusters[d].profile
             /\ curClusters'[d].deployed
                  <=> curClusters[d].deployed
                        \/ curClusters[d].services \subseteq curClusters[left - 1].services
    BY <2>1, MarkType DEF TypeInv, TypeOK
  <2>3. Keeps
    BY <2>1, <2>2 DEF Refused
  <2>4. Current'.deployed
    BY <2>1, <2>2 DEF Current
  <2> QED BY <1>1, <2>1, <2>3, <2>4
<1>5. CASE ChargeNode
  <2>1. /\ UNCHANGED curClusters /\ phase = "bind" /\ phase' = "scan"
        /\ left' = left - 1 /\ left \in Nat /\ Current.deployed
        /\ left - 1 \in DOMAIN curClusters
        /\ target \in DOMAIN curNodes /\ curNodes \in [DOMAIN curNodes -> Node]
        /\ curNodes' = [curNodes EXCEPT ![target] = Charge(@, Current.profile)]
    BY <1>5 DEF ChargeNode, plan, TypeInv, TypeOK, Shape
  <2>2. /\ Current.profile \in Need
        /\ \A r \in Resource : curNodes[target].free[r] >= Current.profile.res[r]
    BY <2>1 DEF TypeInv, TypeOK, Shape, Fits, Current, Cluster
  <2>3. ASSUME NEW c \in DOMAIN curClusters, Refused(c)',
               NEW n \in DOMAIN curNodes, Fits(curNodes'[n], curClusters[c].profile)
        PROVE  Refused(c) /\ Fits(curNodes[n], curClusters[c].profile)
    <3>1. Refused(c)
      BY <2>1, <2>3 DEF Refused, Current, TypeInv, Shape
    <3>2. curClusters[c].profile \in Need
      BY DEF TypeInv, TypeOK, Cluster
    <3> QED BY <2>1, <2>2, <2>3, <3>1, <3>2, ChargedFitsLess
  <2>4. Keeps
    BY <2>1, <2>3 DEF Candidates
  <2> QED BY <1>1, <2>1, <2>4
<1>6. CASE (\E s \in DOMAIN curServices : BindPod(s)) \/ Finish
           \/ (\E p \in Pod : DeletePod(p)) \/ UNCHANGED vars
  <2>1. /\ UNCHANGED <<curNodes, curClusters, left>>
        /\ phase' = phase \/ phase' = "done"
    BY <1>6 DEF BindPod, Finish, DeletePod, plan, vars
  <2> QED BY <1>1, <2>1 DEF Refused, Current
<1> QED BY <1>2, <1>3, <1>4, <1>5, <1>6 DEF Next, DeployStep

LEMMA MarkedInit == Init => Marked
BY TypeInit DEF Init, RoundStart, Marked

(* While the rack map and the cursor agree, nothing is refused that fits.  *)
THEOREM Exhaustive == Spec => ExhaustiveSearch
<1> DEFINE Keeps == Oriented => \A c \in DOMAIN curClusters : FitsAfterAll(c)' => FitsAfterAll(c)
<1>1. Marked /\ [Next]_vars => Marked' /\ Keeps
  BY MarkedStep
<1> QED BY <1>1, MarkedInit, PTL DEF Spec, ExhaustiveSearch

(* The step from "scan" to "bind" takes a nearest one of the nodes.        *)
LEMMA ClosestStep ==
  ASSUME TypeInv, [Next]_vars, Oriented, phase = "scan", phase' = "bind"
  PROVE  \A n \in Candidates(curNodes, Current.profile) :
            Distance(curNodes[target'], cursor) <= Distance(curNodes[n], cursor)
<1>1. PICK t \in DOMAIN curNodes : ChooseNode(t)
  BY DEF Next, DeployStep, SkipCluster, RefuseCluster, BindPod, ChargeNode, Finish,
         DeletePod, vars
<1>2. /\ target' = t
      /\ t \in getNextAvailableNode(rackMap, curNodes, cursor, Current.profile)
  BY <1>1 DEF ChooseNode
<1>3. /\ DOMAIN rackMap = DOMAIN curNodes /\ DOMAIN rackMap \subseteq Nat
      /\ \A n \in DOMAIN rackMap : /\ curNodes[n].Name = rackMap[n].Name
                                   /\ curNodes[n].PM = rackMap[n].PM
                                   /\ curNodes[n].Rack = rackMap[n].Rack
  BY DEF TypeInv, TypeOK, Shape
<1> QED BY <1>2, <1>3, SearchClosest DEF Oriented

(* Every cluster is placed as close as it can be whenever the rack map and *)
(* the cursor agree, in a round that starts so or comes to.                *)
THEOREM Closest == Spec => ClosestFirst
<1> DEFINE Near == Oriented /\ phase = "scan" /\ phase' = "bind" =>
                     \A n \in Candidates(curNodes, Current.profile) :
                        Distance(curNodes[target'], cursor) <= Distance(curNodes[n], cursor)
<1>1. Init => TypeInv
  BY TypeInit
<1>2. TypeInv /\ [Next]_vars => TypeInv'
  BY TypeStep
<1>3. TypeInv /\ [Next]_vars => [Near]_vars
  BY ClosestStep
<1> QED BY <1>1, <1>2, <1>3, PTL DEF Spec, ClosestFirst

-----------------------------------------------------------------------------
(* Why no node is given more than it had.  The books of a node balance at  *)
(* every step: what its services need and what is left of it add up to     *)
(* what it had when the round began.  Left of the target is what it has    *)
(* without the cluster in hand, which is charged only after the binds.     *)
Uncharged(n, r) == IF phase = "bind" /\ n = target THEN Current.profile.res[r] ELSE 0

Left(n, r) == curNodes[n].free[r] - Uncharged(n, r)

(* Profiles are the sums Update_clusters made, and the services finite.    *)
Accounted ==
  /\ IsFiniteSet(DOMAIN curServices)
  /\ \A c \in DOMAIN curClusters :
        curClusters[c].profile = C!Profile(curServices, curClusters[c].services)

Balanced ==
  \A n \in DOMAIN curNodes :
     /\ \A r \in Resource :
           SumFunctionOnSet(Demand(r), Here(n)) + Left(n, r) = rackMap[n].free[r]
     /\ curNodes[n].Name = masterNode => Here(n) = {}

BudgetInv == RequestInv /\ Accounted /\ Balanced

LEMMA DemandNat ==
  ASSUME TypeOK, IsFiniteSet(DOMAIN curServices), NEW r \in Resource,
         NEW S \in SUBSET DOMAIN curServices
  PROVE  /\ \A s \in DOMAIN curServices : Demand(r)[s] \in Nat
         /\ IsFiniteSet(S)
         /\ SumFunctionOnSet(Demand(r), S) \in Nat
<1>1. \A s \in DOMAIN curServices : Demand(r)[s] \in Nat
  BY DEF TypeOK, Service, Amount, Demand
<1>2. IsFiniteSet(S)
  BY FS_Subset
<1> QED BY <1>1, <1>2, SumNat

(* A module taken with INSTANCE brings its own copy of the library's sum.  *)
LEMMA SameSum ==
  ASSUME NEW f, NEW S
  PROVE  /\ C!SumFunctionOnSet(f, S) = SumFunctionOnSet(f, S)
         /\ Placement!SumFunctionOnSet(f, S) = SumFunctionOnSet(f, S)
BY DEF SumFunctionOnSet, FoldFunctionOnSet, MapThenFoldSet,
       C!SumFunctionOnSet, C!FoldFunctionOnSet, C!MapThenFoldSet,
       Placement!SumFunctionOnSet, Placement!FoldFunctionOnSet, Placement!MapThenFoldSet

LEMMA ProfileSum ==
  ASSUME TypeOK, Accounted, NEW r \in Resource, NEW c \in DOMAIN curClusters
  PROVE  curClusters[c].profile.res[r] = SumFunctionOnSet(Demand(r), curClusters[c].services)
<1> DEFINE S == curClusters[c].services
<1>1. curClusters[c].profile = C!Profile(curServices, S)
  BY DEF Accounted
<1>2. C!Profile(curServices, S).res[r] = C!SumFunctionOnSet(Demand(r), S)
  BY DEF C!Profile, Demand
<1> HIDE DEF S
<1>3. curClusters[c].profile.res[r] = SumFunctionOnSet(Demand(r), S)
  BY <1>1, <1>2, SameSum
<1> QED BY <1>3 DEF S

(* What is left of a node is never negative.                               *)
LEMMA LeftNat ==
  ASSUME TypeInv, NEW n \in DOMAIN curNodes, NEW r \in Resource
  PROVE  Left(n, r) \in Nat /\ Uncharged(n, r) \in Nat
<1>1. curNodes[n].free[r] \in Nat
  BY DEF TypeInv, TypeOK, Node
<1>2. ASSUME phase = "bind", n = target
      PROVE  /\ Current.profile.res[r] \in Nat
             /\ curNodes[n].free[r] >= Current.profile.res[r]
  <2>1. left - 1 \in DOMAIN curClusters
    BY <1>2 DEF TypeInv, TypeOK, Shape
  <2>2. Current.profile.res[r] \in Nat
    BY <2>1 DEF TypeInv, TypeOK, Current, Cluster, Need, Amount
  <2> QED BY <1>2, <2>2 DEF TypeInv, Shape, Fits
<1> QED BY <1>1, <1>2 DEF Left, Uncharged

LEMMA BudgetInit == Init => BudgetInv
<1> SUFFICES ASSUME Init PROVE BudgetInv
  OBVIOUS
<1>1. RequestInv
  BY RequestInit
<1>2. Accounted
  BY DEF Init, Accounted
<1>3. \A n \in DOMAIN curNodes : Here(n) = {}
  <2>1. \A s \in DOMAIN curServices : curServices[s].pod \in Pod
    BY <1>1 DEF RequestInv, TypeInv, TypeOK, Service
  <2>2. phase = "scan" /\ sent = [p \in Pod |-> {}]
    BY DEF Init, RoundStart
  <2> QED BY <2>1, <2>2 DEF Here, Host
<1>4. \A n \in DOMAIN curNodes, r \in Resource :
        Left(n, r) = rackMap[n].free[r] /\ Left(n, r) \in Nat
  <2>1. phase = "scan" /\ rackMap = curNodes
    BY DEF Init, RoundStart
  <2>2. \A n \in DOMAIN curNodes, r \in Resource : curNodes[n].free[r] \in Nat
    BY <1>1 DEF RequestInv, TypeInv, TypeOK, Node
  <2> QED BY <2>1, <2>2 DEF Left, Uncharged
<1>5. Balanced
  BY <1>3, <1>4, SumEmpty DEF Balanced
<1> QED BY <1>1, <1>2, <1>5 DEF BudgetInv

(* Placing a cluster puts its services, all of them new, on the target.    *)
LEMMA PlacedHere ==
  ASSUME RequestInv, NEW n \in DOMAIN curNodes, ChooseNode(n)
  PROVE  /\ UNCHANGED <<curServices, curNodes, rackMap, cursor, left>>
         /\ left - 1 \in DOMAIN curClusters
         /\ phase = "scan" /\ phase' = "bind" /\ target' = n
         /\ DOMAIN curClusters' = DOMAIN curClusters
         /\ \A d \in DOMAIN curClusters :
              /\ curClusters'[d].services = curClusters[d].services
              /\ curClusters'[d].profile = curClusters[d].profile
              /\ curClusters'[d].deployed
                   <=> curClusters[d].deployed \/ curClusters[d].services \subseteq Current.services
         /\ Current.services \in SUBSET DOMAIN curServices
         /\ Current'.profile = Current.profile
         /\ Fits(curNodes[n], Current.profile)
         /\ \A s \in Current.services : Host(s) = {}
         /\ \A s \in DOMAIN curServices :
              Host(s)' = IF s \in Current.services THEN {n} ELSE Host(s)
         /\ \A m \in DOMAIN curNodes :
              /\ Here(m)' = IF m = n THEN Here(m) \cup Current.services ELSE Here(m)
              /\ Here(m) \cap Current.services = {}
<1> USE DEF RequestInv, TypeInv
<1>1. /\ phase = "scan" /\ phase' = "bind" /\ target' = n
      /\ todo' = Current.services /\ todo = {}
      /\ UNCHANGED <<curServices, curNodes, rackMap, cursor, left, sent>>
      /\ left > 0 /\ left \in Nat /\ ~Current.deployed
      /\ left - 1 \in DOMAIN curClusters
      /\ curClusters' = MarkDeployed(curClusters, left - 1)
      /\ n \in getNextAvailableNode(rackMap, curNodes, cursor, Current.profile)
  BY DEF ChooseNode, InHand, TypeOK, Shape
<1>2. /\ DOMAIN curClusters' = DOMAIN curClusters
      /\ \A d \in DOMAIN curClusters :
           /\ curClusters'[d].services = curClusters[d].services
           /\ curClusters'[d].profile = curClusters[d].profile
           /\ curClusters'[d].deployed
                <=> curClusters[d].deployed \/ curClusters[d].services \subseteq Current.services
  BY <1>1, MarkType DEF TypeOK, Current
<1>3. Current'.profile = Current.profile
  BY <1>1, <1>2 DEF Current
<1>4. Current.services \in SUBSET DOMAIN curServices
  BY <1>1 DEF TypeOK, Current, Cluster
<1>5. \A s \in Current.services : sent[curServices[s].pod] = {}
  BY <1>1 DEF Untouched, Ahead, Fresh, Current
<1>6. \A s \in Current.services : Host(s) = {}
  BY <1>1, <1>4, <1>5 DEF Host
<1>7. \A s \in DOMAIN curServices :
        Host(s)' = IF s \in Current.services THEN {n} ELSE Host(s)
  BY <1>1, <1>4, <1>5 DEF Host
<1>8. \A m \in DOMAIN curNodes :
        /\ Here(m)' = IF m = n THEN Here(m) \cup Current.services ELSE Here(m)
        /\ Here(m) \cap Current.services = {}
  BY <1>1, <1>4, <1>6, <1>7 DEF Here
<1>9. Fits(curNodes[n], Current.profile)
  <2>1. DOMAIN rackMap \subseteq Nat /\ DOMAIN curNodes = DOMAIN rackMap
    BY DEF TypeOK, Shape
  <2>2. n \in Candidates(curNodes, Current.profile)
    BY <1>1, <2>1, SearchSound
  <2> QED BY <2>2 DEF Candidates
<1> QED BY <1>1, <1>2, <1>3, <1>4, <1>6, <1>7, <1>8, <1>9

(* Any other step leaves the services where they are and what is left of   *)
(* the nodes as it is; charging only moves the cluster in hand from what   *)
(* is still to be charged to what was.                                     *)
LEMMA NothingPlaced ==
  ASSUME RequestInv, [Next]_vars, ~\E n \in DOMAIN curNodes : ChooseNode(n)
  PROVE  /\ UNCHANGED <<curServices, rackMap, curClusters>>
         /\ DOMAIN curNodes' = DOMAIN curNodes
         /\ \A n \in DOMAIN curNodes :
              /\ curNodes'[n].Name = curNodes[n].Name
              /\ Here(n)' = Here(n)
              /\ \A p \in PortNo : curNodes'[n].ports[p] >= curNodes[n].ports[p]
              /\ \A r \in Resource : Left(n, r)' = Left(n, r)
<1> USE DEF RequestInv, TypeInv
<1>1. UNCHANGED <<curServices, rackMap, curClusters>>
  BY DEF Next, DeployStep, SkipCluster, RefuseCluster, BindPod, ChargeNode, Finish,
         DeletePod, plan, vars
<1>2. ASSUME NEW n \in DOMAIN curNodes
      PROVE  Here(n)' = Here(n)
  BY <1>1, HostsKept DEF Here
<1>3. CASE ChargeNode
  <2>1. /\ target \in DOMAIN curNodes /\ curNodes[target] \in Node
        /\ curNodes \in [DOMAIN curNodes -> Node]
        /\ phase = "bind" /\ phase' = "scan"
        /\ left - 1 \in DOMAIN curClusters
        /\ curNodes' = [curNodes EXCEPT ![target] = Charge(@, Current.profile)]
    BY <1>3 DEF ChargeNode, TypeOK, Shape
  <2>2. /\ Current.profile \in Need
        /\ \A r \in Resource : curNodes[target].free[r] >= Current.profile.res[r]
    BY <2>1 DEF TypeOK, Shape, Fits, Current, Cluster
  <2> DEFINE node == Charge(curNodes[target], Current.profile)
  <2>3. /\ node.Name = curNodes[target].Name
        /\ \A r \in Resource : node.free[r] = curNodes[target].free[r] - Current.profile.res[r]
        /\ \A p \in PortNo : node.ports[p] = curNodes[target].ports[p] + Current.profile.ports[p]
    BY <2>1, <2>2, ChargeType
  <2>4. curNodes' = [curNodes EXCEPT ![target] = node]
    BY <2>1
  <2> HIDE DEF node
  <2>5. /\ \A n \in DOMAIN curNodes, p \in PortNo : curNodes[n].ports[p] \in Nat
        /\ \A p \in PortNo : Current.profile.ports[p] \in Nat
        /\ \A n \in DOMAIN curNodes, r \in Resource : curNodes[n].free[r] \in Nat
        /\ \A r \in Resource : Current.profile.res[r] \in Nat
    BY <2>1, <2>2 DEF Node, Need, Amount, Ports
  <2>6. ASSUME NEW n \in DOMAIN curNodes
        PROVE  /\ curNodes'[n].Name = curNodes[n].Name
               /\ \A p \in PortNo : curNodes'[n].ports[p] >= curNodes[n].ports[p]
               /\ \A r \in Resource : Left(n, r)' = Left(n, r)
    <3>1. CASE n = target
      <4>1. curNodes'[n] = node
        BY <2>1, <2>4, <3>1
      <4> QED BY <2>1, <2>3, <2>5, <3>1, <4>1 DEF Left, Uncharged
    <3>2. CASE n # target
      <4>1. curNodes'[n] = curNodes[n]
        BY <2>4, <3>2
      <4> QED BY <2>1, <2>5, <3>2, <4>1 DEF Left, Uncharged
    <3> QED BY <3>1, <3>2
  <2>7. DOMAIN curNodes' = DOMAIN curNodes
    BY <2>4
  <2> QED BY <1>1, <1>2, <2>6, <2>7
<1>4. CASE ~ChargeNode
  <2>1. /\ UNCHANGED curNodes
        /\ \/ UNCHANGED <<phase, target, left>>
           \/ phase # "bind" /\ phase' # "bind"
    BY <1>4 DEF Next, DeployStep, SkipCluster, RefuseCluster, BindPod, Finish, DeletePod,
                plan, vars
  <2>2. \A n \in DOMAIN curNodes, r \in Resource : Left(n, r)' = Left(n, r)
    BY <1>1, <2>1 DEF Left, Uncharged, Current
  <2>3. \A n \in DOMAIN curNodes, p \in PortNo : curNodes[n].ports[p] \in Nat
    BY DEF TypeOK, Node, Ports
  <2> QED BY <1>1, <1>2, <2>1, <2>2, <2>3
<1> QED BY <1>3, <1>4

LEMMA BudgetStep == BudgetInv /\ [Next]_vars => BudgetInv'
<1> SUFFICES ASSUME BudgetInv, [Next]_vars PROVE BudgetInv'
  OBVIOUS
<1> USE DEF BudgetInv
<1>1. RequestInv'
  BY RequestStep
<1>2. ASSUME NEW n \in DOMAIN curNodes, ChooseNode(n)
      PROVE  Accounted' /\ Balanced'
  <2> DEFINE S == Current.services
             need == Current.profile
  <2>1. /\ UNCHANGED <<curServices, curNodes, rackMap, left>>
        /\ left - 1 \in DOMAIN curClusters
        /\ phase = "scan" /\ phase' = "bind" /\ target' = n
        /\ S \in SUBSET DOMAIN curServices
        /\ Current'.profile = need
        /\ Fits(curNodes[n], need)
    BY <1>2, PlacedHere
  <2>2. Accounted'
    BY <1>2, PlacedHere DEF Accounted, C!Profile
  <2>3. ASSUME NEW m \in DOMAIN curNodes
        PROVE  /\ Here(m)' = IF m = n THEN Here(m) \cup S ELSE Here(m)
               /\ Here(m) \cap S = {}
    BY <1>2, PlacedHere
  <2>4. ASSUME NEW m \in DOMAIN curNodes, NEW r \in Resource
        PROVE  SumFunctionOnSet(Demand(r), Here(m))' + Left(m, r)' = rackMap[m].free[r]
    <3> DEFINE f == Demand(r)
    <3>1. Demand(r)' = f
      BY <2>1 DEF Demand
    <3>2. /\ Here(m) \in SUBSET DOMAIN curServices
          /\ curNodes[m].free[r] \in Nat
      BY DEF Here, RequestInv, TypeInv, TypeOK, Node
    <3>3. /\ \A s \in DOMAIN curServices : f[s] \in Nat
          /\ IsFiniteSet(Here(m)) /\ IsFiniteSet(S)
          /\ SumFunctionOnSet(f, Here(m)) \in Nat
          /\ SumFunctionOnSet(f, S) \in Nat
      BY <2>1, <3>2, DemandNat DEF RequestInv, TypeInv, Accounted
    <3>4. SumFunctionOnSet(f, Here(m)) + curNodes[m].free[r] = rackMap[m].free[r]
      BY <2>1, <3>2 DEF Balanced, Left, Uncharged
    <3>5. need.res[r] = SumFunctionOnSet(f, S)
      BY <2>1, ProfileSum DEF RequestInv, TypeInv, Current
    <3> HIDE DEF f, S, need
    <3>6. CASE m = n
      <4>1. SumFunctionOnSet(f, Here(m) \cup S)
              = SumFunctionOnSet(f, Here(m)) + SumFunctionOnSet(f, S)
        <5>1. \A s \in Here(m) \cup S : f[s] \in Nat
          BY <2>1, <3>2, <3>3
        <5> QED BY <2>3, <3>3, <5>1, SumUnion
      <4>2. Left(m, r)' = curNodes[m].free[r] - need.res[r]
        BY <2>1, <3>6 DEF Left, Uncharged
      <4>3. SumFunctionOnSet(Demand(r), Here(m))' = SumFunctionOnSet(f, Here(m) \cup S)
        BY <2>3, <3>1, <3>6
      <4> QED BY <3>2, <3>3, <3>4, <3>5, <4>1, <4>2, <4>3
    <3>7. CASE m # n
      <4>1. Left(m, r)' = curNodes[m].free[r]
        BY <2>1, <3>2, <3>7 DEF Left, Uncharged
      <4>2. SumFunctionOnSet(Demand(r), Here(m))' = SumFunctionOnSet(f, Here(m))
        BY <2>3, <3>1, <3>7
      <4> QED BY <3>4, <4>1, <4>2
    <3> QED BY <3>6, <3>7
  <2>5. ASSUME NEW m \in DOMAIN curNodes, curNodes[m].Name = masterNode
        PROVE  Here(m)' = {}
    <3>1. m # n
      BY <2>1, <2>5 DEF Fits
    <3> QED BY <2>3, <2>5, <3>1 DEF Balanced
  <2>6. Balanced'
    BY <2>1, <2>4, <2>5 DEF Balanced
  <2> QED BY <2>2, <2>6
<1>3. ASSUME ~\E n \in DOMAIN curNodes : ChooseNode(n)
      PROVE  Accounted' /\ Balanced'
  <2>1. /\ UNCHANGED <<curServices, rackMap, curClusters>>
        /\ DOMAIN curNodes' = DOMAIN curNodes
    BY <1>3, NothingPlaced
  <2>2. ASSUME NEW n \in DOMAIN curNodes
        PROVE  /\ curNodes'[n].Name = curNodes[n].Name
               /\ Here(n)' = Here(n)
               /\ \A r \in Resource : Left(n, r)' = Left(n, r)
    BY <1>3, NothingPlaced
  <2>3. \A r \in Resource : Demand(r)' = Demand(r)
    BY <2>1 DEF Demand
  <2>4. Accounted'
    BY <2>1 DEF Accounted, C!Profile
  <2>5. Balanced'
    BY <2>1, <2>2, <2>3 DEF Balanced
  <2> QED BY <2>4, <2>5
<1> QED BY <1>1, <1>2, <1>3

LEMMA BudgetFits == BudgetInv => PlanFits
<1> SUFFICES ASSUME BudgetInv, NEW n \in DOMAIN curNodes
             PROVE  /\ \A r \in Resource :
                         SumFunctionOnSet(Demand(r), Here(n)) <= rackMap[n].free[r]
                    /\ curNodes[n].Name = masterNode => Here(n) = {}
  BY DEF PlanFits
<1> USE DEF BudgetInv
<1>1. ASSUME NEW r \in Resource
      PROVE  SumFunctionOnSet(Demand(r), Here(n)) <= rackMap[n].free[r]
  <2>1. Left(n, r) \in Nat
    BY LeftNat DEF RequestInv
  <2>2. Here(n) \in SUBSET DOMAIN curServices
    BY DEF Here
  <2>3. SumFunctionOnSet(Demand(r), Here(n)) \in Nat
    BY <2>2, DemandNat DEF RequestInv, TypeInv, Accounted
  <2>4. SumFunctionOnSet(Demand(r), Here(n)) + Left(n, r) = rackMap[n].free[r]
    BY DEF Balanced
  <2> QED BY <2>1, <2>3, <2>4
<1> QED BY <1>1 DEF Balanced

(* In every round the limits of the services on a node stay within what    *)
(* the node had at its beginning, and the master gets none.                *)
THEOREM WithinCapacity == Spec => []PlanFits
<1>1. Init => BudgetInv
  BY BudgetInit
<1>2. BudgetInv /\ [Next]_vars => BudgetInv'
  BY BudgetStep
<1>3. BudgetInv => PlanFits
  BY BudgetFits
<1> QED BY <1>1, <1>2, <1>3, PTL DEF Spec

(* A round implements module Placement: choosing a node is its Place, with *)
(* all services of the cluster, and every other step changes nothing that  *)
(* can be seen from there.                                                 *)
LEMMA PlacementInit == Init => Placement!Init
<1> SUFFICES ASSUME Init PROVE Placement!Init
  OBVIOUS
<1>1. \A s \in DOMAIN curServices : curServices[s].pod \in Pod
  BY DEF Init, Service
<1>2. \A s \in DOMAIN curServices : Host(s) = {}
  BY <1>1 DEF Init, RoundStart, Host
<1> QED BY <1>2 DEF Placement!Init

LEMMA PlacementStep ==
  BudgetInv /\ [Next]_vars => [Placement!Next]_Placement!vars
<1> SUFFICES ASSUME BudgetInv, [Next]_vars
             PROVE  Placement!Next \/ UNCHANGED Placement!vars
  OBVIOUS
<1> USE DEF BudgetInv
<1> DEFINE demand == [s \in DOMAIN curServices |-> curServices[s].res]
           room == [n \in DOMAIN curNodes |-> rackMap[n].free]
           open == {n \in DOMAIN curNodes : curNodes[n].Name # masterNode}
           host == [s \in DOMAIN curServices |-> Host(s)]
<1>1. ASSUME NEW n \in DOMAIN curNodes, ChooseNode(n)
      PROVE  Placement!Next
  <2> DEFINE S == Current.services
  <2>1. /\ UNCHANGED <<curServices, curNodes, rackMap>>
        /\ S \in SUBSET DOMAIN curServices
        /\ Fits(curNodes[n], Current.profile)
        /\ \A s \in S : Host(s) = {}
        /\ \A s \in DOMAIN curServices : Host(s)' = IF s \in S THEN {n} ELSE Host(s)
    BY <1>1, PlacedHere
  <2>2. UNCHANGED <<demand, room, open>>
    BY <2>1
  <2>3. n \in open
    BY <2>1 DEF Fits
  <2>4. S \in SUBSET DOMAIN host /\ \A s \in S : host[s] = {}
    BY <2>1
  <2>5. host' = [s \in DOMAIN host |-> IF s \in S THEN {n} ELSE host[s]]
    BY <2>1
  <2>6. ASSUME NEW r \in Resource
        PROVE  Placement!SumFunctionOnSet([s \in DOMAIN demand |-> demand[s][r]],
                                          Placement!On(host', n)) <= room[n][r]
    <3>1. PlanFits'
      BY BudgetStep, BudgetFits, PTL
    <3>2. SumFunctionOnSet(Demand(r), Here(n))' <= rackMap[n].free[r]
      BY <2>1, <3>1 DEF PlanFits
    <3>3. Placement!On(host', n) = Here(n)'
      BY <2>1 DEF Placement!On, Here
    <3>4. [s \in DOMAIN demand |-> demand[s][r]] = Demand(r)'
      BY <2>1 DEF Demand
    <3> DEFINE f == Demand(r)'
               T == Here(n)'
    <3>5. SumFunctionOnSet(f, T) <= rackMap[n].free[r]
      BY <3>2
    <3> HIDE DEF f, T, demand, host
    <3>6. Placement!SumFunctionOnSet(f, T) <= rackMap[n].free[r]
      BY <3>5, SameSum
    <3> QED BY <3>3, <3>4, <3>6 DEF f, T
  <2>7. Placement!Place(S, n)
    BY <2>2, <2>4, <2>5, <2>6 DEF Placement!Place
  <2> HIDE DEF S
  <2> QED BY <2>3, <2>4, <2>7 DEF Placement!Next
<1>2. ASSUME ~\E n \in DOMAIN curNodes : ChooseNode(n)
      PROVE  UNCHANGED Placement!vars
  <2>1. /\ UNCHANGED <<curServices, rackMap>>
        /\ DOMAIN curNodes' = DOMAIN curNodes
        /\ \A n \in DOMAIN curNodes : curNodes'[n].Name = curNodes[n].Name
    BY <1>2, NothingPlaced
  <2>2. \A s \in DOMAIN curServices : Host(s)' = Host(s)
    BY <1>2, HostsKept
  <2>3. host' = host
    BY <2>1, <2>2
  <2>4. UNCHANGED <<demand, room, open>>
    BY <2>1
  <2> QED BY <2>3, <2>4 DEF Placement!vars
<1> QED BY <1>1, <1>2

(* Seen from outside, a round only puts groups of services on nodes that   *)
(* can hold them.                                                          *)
THEOREM ImplementsPlacement == Spec => PlacesWithinCapacity
<1>1. Init => BudgetInv /\ Placement!Init
  BY BudgetInit, PlacementInit
<1>2. BudgetInv /\ [Next]_vars => BudgetInv'
  BY BudgetStep
<1>3. BudgetInv /\ [Next]_vars => [Placement!Next]_Placement!vars
  BY PlacementStep
<1> QED BY <1>1, <1>2, <1>3, PTL DEF Spec, PlacesWithinCapacity, Placement!Spec

-----------------------------------------------------------------------------
(* Why no cluster is broken up in vain.  A refused cluster was too big for *)
(* every node, and stays so: what smaller clusters inside it take from a   *)
(* node is counted in the cluster's favour, so that what they need and     *)
(* what is left never reach its own needs.  Where ports refused it, they   *)
(* refuse every cluster inside it, too.                                    *)
TooBig(c, n) ==
  LET cl == curClusters[c]
  IN \/ curNodes[n].Name = masterNode
     \/ Subset(cl.profile.ports, curNodes[n].ports) /\ cl.services \cap Here(n) = {}
     \/ \E r \in Resource :
          SumFunctionOnSet(Demand(r), cl.services \cap Here(n)) + Left(n, r)
            < cl.profile.res[r]

VainInv ==
  /\ BudgetInv /\ Marked /\ Oriented
  /\ \A c \in DOMAIN curClusters : Refused(c) => \A n \in DOMAIN curNodes : TooBig(c, n)

(* A cluster inside another one needs no more of any port.                 *)
LEMMA FewerPorts ==
  ASSUME TypeOK, Accounted, NEW c \in DOMAIN curClusters, NEW d \in DOMAIN curClusters,
         curClusters[d].services \subseteq curClusters[c].services, NEW p \in PortNo
  PROVE  curClusters[d].profile.ports[p] <= curClusters[c].profile.ports[p]
<1> DEFINE f == [s \in DOMAIN curServices |-> curServices[s].ports[p]]
           own(e) == curClusters[e].services
           base == IF p = -1 THEN 1 ELSE 0
<1>1. \A s \in DOMAIN curServices : f[s] \in Nat
  BY DEF TypeOK, Service, Ports
<1>2. ASSUME NEW e \in DOMAIN curClusters
      PROVE  /\ curClusters[e].profile.ports[p] = base + SumFunctionOnSet(f, own(e))
             /\ own(e) \subseteq DOMAIN curServices /\ IsFiniteSet(own(e))
  <2>1. curClusters[e].profile = C!Profile(curServices, own(e))
    BY DEF Accounted
  <2>2. C!Profile(curServices, own(e)).ports[p] = base + C!SumFunctionOnSet(f, own(e))
    BY DEF C!Profile
  <2>3. own(e) \subseteq DOMAIN curServices
    BY DEF TypeOK, Cluster
  <2>4. IsFiniteSet(own(e))
    BY <2>3, FS_Subset DEF Accounted
  <2> HIDE DEF f, own, base
  <2>5. curClusters[e].profile.ports[p] = base + SumFunctionOnSet(f, own(e))
    BY <2>1, <2>2, SameSum
  <2> QED BY <2>3, <2>4, <2>5
<1>3. own(d) \subseteq own(c)
  OBVIOUS
<1>4. base \in Nat
  OBVIOUS
<1> HIDE DEF f, own, base
<1>5. \A s \in own(c) : f[s] \in Nat
  BY <1>1, <1>2
<1>6. SumFunctionOnSet(f, own(d)) <= SumFunctionOnSet(f, own(c))
  BY <1>2, <1>3, <1>5, SumMonotone
<1>7. SumFunctionOnSet(f, own(d)) \in Nat /\ SumFunctionOnSet(f, own(c)) \in Nat
  BY <1>2, <1>3, <1>5, SumNat
<1> QED BY <1>2, <1>4, <1>6, <1>7

(* A cluster that is placed leaves the refused ones too big.               *)
LEMMA TooBigStays ==
  ASSUME VainInv, NEW n \in DOMAIN curNodes, ChooseNode(n),
         NEW c \in DOMAIN curClusters, Refused(c),
         NEW m \in DOMAIN curNodes, TooBig(c, m)
  PROVE  TooBig(c, m)'
<1> USE DEF VainInv, BudgetInv
<1> DEFINE S == Current.services
           own == curClusters[c].services
           need == Current.profile
<1>1. /\ UNCHANGED <<curServices, curNodes, rackMap, left>>
      /\ left - 1 \in DOMAIN curClusters
      /\ phase = "scan" /\ phase' = "bind" /\ target' = n
      /\ S \in SUBSET DOMAIN curServices
      /\ Current'.profile = need
      /\ Fits(curNodes[n], need)
      /\ curClusters'[c].services = own
      /\ curClusters'[c].profile = curClusters[c].profile
      /\ Here(m)' = IF m = n THEN Here(m) \cup S ELSE Here(m)
      /\ Here(m) \cap S = {}
  BY PlacedHere
<1>2. \A r \in Resource : Demand(r)' = Demand(r)
  BY <1>1 DEF Demand
<1>3. S \subseteq own \/ S \cap own = {}
  <2>1. left - 1 < c
    BY DEF Refused, Marked, TypeInv, TypeOK, Shape
  <2> QED BY <1>1, <2>1 DEF RequestInv, Listed, Hierarchy, Current
<1>4. CASE curNodes[m].Name = masterNode
  BY <1>1, <1>4 DEF TooBig
<1>5. CASE Subset(curClusters[c].profile.ports, curNodes[m].ports) /\ own \cap Here(m) = {}
  <2>1. CASE m # n \/ S \cap own = {}
    <3>1. own \cap Here(m)' = {}
      BY <1>1, <1>5, <2>1
    <3> QED BY <1>1, <1>5, <3>1 DEF TooBig
  <2>2. CASE m = n /\ S \subseteq own
    <3>1. ASSUME NEW p \in PortNo
          PROVE  need.ports[p] <= curNodes[m].ports[p]
      <4>1. need.ports[p] <= curClusters[c].profile.ports[p]
        BY <1>1, <2>2, FewerPorts DEF Marked, TypeInv, Current
      <4>2. curClusters[c].profile.ports[p] <= curNodes[m].ports[p]
        BY <1>5 DEF Subset
      <4>3. need.ports[p] \in Nat /\ curNodes[m].ports[p] \in Nat
            /\ curClusters[c].profile.ports[p] \in Nat
        BY <1>1 DEF Marked, TypeInv, TypeOK, Node, Cluster, Need, Ports, Current
      <4> QED BY <4>1, <4>2, <4>3
    <3> QED BY <1>1, <2>2, <3>1 DEF Fits, Subset
  <2> QED BY <1>3, <2>1, <2>2
<1>6. ASSUME NEW r \in Resource,
             SumFunctionOnSet(Demand(r), own \cap Here(m)) + Left(m, r)
               < curClusters[c].profile.res[r]
      PROVE  TooBig(c, m)'
  <2> DEFINE f == Demand(r)
             T == own \cap Here(m)
  <2>1. /\ \A s \in DOMAIN curServices : f[s] \in Nat
        /\ T \in SUBSET DOMAIN curServices
        /\ IsFiniteSet(T) /\ IsFiniteSet(S)
        /\ SumFunctionOnSet(f, T) \in Nat
        /\ SumFunctionOnSet(f, S) \in Nat
    <3>1. T \in SUBSET DOMAIN curServices
      BY DEF Here
    <3> HIDE DEF S, T, f
    <3>2. TypeOK /\ IsFiniteSet(DOMAIN curServices)
      BY DEF Marked, TypeInv, Accounted
    <3> QED BY <1>1, <3>1, <3>2, DemandNat DEF f
  <2>2. need.res[r] = SumFunctionOnSet(f, S)
    BY <1>1, ProfileSum DEF Marked, TypeInv, Current
  <2>3. /\ curNodes[m].free[r] \in Nat
        /\ curClusters[c].profile.res[r] \in Nat
    BY DEF Marked, TypeInv, TypeOK, Node, Cluster, Need, Amount
  <2>4. Left(m, r) = curNodes[m].free[r]
    BY <1>1, <2>3 DEF Left, Uncharged
  <2>5. Left(m, r)' = curNodes[m].free[r] - (IF m = n THEN need.res[r] ELSE 0)
    BY <1>1 DEF Left, Uncharged
  <2>6. SumFunctionOnSet(f, own \cap Here(m)') + Left(m, r)' < curClusters[c].profile.res[r]
    <3>1. CASE m = n /\ S \subseteq own
      <4>1. own \cap Here(m)' = T \cup S /\ T \cap S = {}
        BY <1>1, <3>1
      <4>2. \A s \in T \cup S : f[s] \in Nat
        BY <1>1, <2>1
      <4> HIDE DEF f, T, S
      <4>3. SumFunctionOnSet(f, T \cup S) = SumFunctionOnSet(f, T) + SumFunctionOnSet(f, S)
        BY <2>1, <4>1, <4>2, SumUnion
      <4>4. SumFunctionOnSet(f, T) + Left(m, r) < curClusters[c].profile.res[r]
        BY <1>6 DEF f, T
      <4>5. SumFunctionOnSet(f, own \cap Here(m)')
              = SumFunctionOnSet(f, T) + SumFunctionOnSet(f, S)
        BY <4>1, <4>3
      <4>6. Left(m, r)' = Left(m, r) - SumFunctionOnSet(f, S)
        BY <2>2, <2>4, <2>5, <3>1
      <4>7. Left(m, r) \in Nat
        BY <2>3, <2>4
      <4> HIDE DEF need, own
      <4> QED BY <2>1, <2>3, <4>4, <4>5, <4>6, <4>7
    <3>2. CASE m # n \/ S \cap own = {}
      <4>1. own \cap Here(m)' = T
        BY <1>1, <3>2
      <4>2. SumFunctionOnSet(f, T) + Left(m, r) < curClusters[c].profile.res[r]
        BY <1>6
      <4>3. need.res[r] \in Nat
        BY <2>1, <2>2
      <4>4. Left(m, r)' <= Left(m, r) /\ Left(m, r)' \in Int /\ Left(m, r) \in Nat
        BY <2>3, <2>4, <2>5, <4>3
      <4>5. SumFunctionOnSet(f, own \cap Here(m)') = SumFunctionOnSet(f, T)
        BY <4>1
      <4> HIDE DEF need, own, f, T, S
      <4> QED BY <2>1, <2>3, <4>2, <4>4, <4>5
    <3> QED BY <1>3, <3>1, <3>2
  <2> QED BY <1>1, <1>2, <2>6 DEF TooBig
<1> QED BY <1>4, <1>5, <1>6 DEF TooBig

(* A cluster is refused when it is too big for every node.                 *)
LEMMA RefusedTooBig ==
  ASSUME VainInv, RefuseCluster, NEW n \in DOMAIN curNodes
  PROVE  left - 1 \in DOMAIN curClusters /\ TooBig(left - 1, n)
<1> USE DEF VainInv, BudgetInv
<1>1. /\ phase = "scan" /\ left > 0 /\ left \in Nat /\ ~Current.deployed
      /\ left - 1 \in DOMAIN curClusters
      /\ getNextAvailableNode(rackMap, curNodes, cursor, Current.profile) = {}
  BY DEF RefuseCluster, Marked, TypeInv, TypeOK, Shape
<1>2. ~Fits(curNodes[n], Current.profile)
  <2>1. DOMAIN rackMap = DOMAIN curNodes /\ DOMAIN rackMap \subseteq Nat
    BY DEF Marked, TypeInv, TypeOK, Shape
  <2>2. \A m \in DOMAIN rackMap : curNodes[m].Name = rackMap[m].Name
    BY <2>1 DEF Marked, TypeInv, Shape
  <2>3. Candidates(curNodes, Current.profile) = {}
    BY <1>1, <2>1, <2>2, SearchComplete DEF Oriented
  <2> QED BY <2>3 DEF Candidates
<1>3. Current.services \cap Here(n) = {}
  <2>1. \A s \in Current.services : Fresh(s)
    BY <1>1 DEF RequestInv, Untouched, Ahead, Current
  <2> QED BY <1>1, <2>1 DEF Here, Host, Fresh
<1>4. ASSUME NEW r \in Resource, ~(curNodes[n].free[r] >= Current.profile.res[r])
      PROVE  SumFunctionOnSet(Demand(r), Current.services \cap Here(n)) + Left(n, r)
               < Current.profile.res[r]
  <2>1. SumFunctionOnSet(Demand(r), Current.services \cap Here(n)) = 0
    BY <1>3, SumEmpty
  <2>2. curNodes[n].free[r] \in Nat /\ Current.profile.res[r] \in Nat
    BY <1>1 DEF Marked, TypeInv, TypeOK, Node, Cluster, Need, Amount, Current
  <2>3. Left(n, r) = curNodes[n].free[r]
    BY <1>1, <2>2 DEF Left, Uncharged
  <2> QED BY <1>4, <2>1, <2>2, <2>3
<1>5. TooBig(left - 1, n)
  BY <1>2, <1>3, <1>4 DEF Fits, TooBig, Current
<1> QED BY <1>1, <1>5

LEMMA OrientedStep ==
  ASSUME RequestInv, Oriented, [Next]_vars
  PROVE  Oriented'
<1> USE DEF RequestInv, TypeInv
<1>1. UNCHANGED rackMap
  BY DEF Next, DeployStep, SkipCluster, RefuseCluster, ChooseNode, BindPod, ChargeNode,
         Finish, DeletePod, plan, vars
<1>2. CASE ChargeNode
  <2>1. target \in DOMAIN curNodes /\ cursor' = CursorAt(curNodes[target])
    BY <1>2 DEF ChargeNode, TypeOK
  <2>2. DOMAIN rackMap = DOMAIN curNodes /\ DOMAIN rackMap \subseteq Nat
    BY DEF TypeOK, Shape
  <2>3. \A m \in DOMAIN curNodes : /\ curNodes[m].Name = rackMap[m].Name
                                   /\ curNodes[m].PM = rackMap[m].PM
                                   /\ curNodes[m].Rack = rackMap[m].Rack
    BY DEF Shape
  <2>4. \A k, m \in DOMAIN rackMap : rackMap[k].Name = rackMap[m].Name => k = m
    BY <2>2, <2>3 DEF Listed, OncePerNode
  <2>5. /\ cursor'.rack = rackMap[target].Rack
        /\ cursor'.pm = rackMap[target].PM
        /\ cursor'.vm = rackMap[target].Name
    BY <2>1, <2>3 DEF CursorAt
  <2>6. CursorOK(rackMap, cursor')
    BY <2>1, <2>2, <2>4, <2>5, CursorFollows DEF Oriented
  <2> QED BY <1>1, <2>6 DEF Oriented
<1>3. CASE ~ChargeNode
  <2>1. UNCHANGED cursor
    BY <1>3 DEF Next, DeployStep, SkipCluster, RefuseCluster, ChooseNode, BindPod, Finish,
                DeletePod, vars
  <2> QED BY <1>1, <2>1 DEF Oriented
<1> QED BY <1>2, <1>3

LEMMA VainStep == VainInv /\ [Next]_vars => VainInv'
<1> SUFFICES ASSUME VainInv, [Next]_vars PROVE VainInv'
  OBVIOUS
<1> USE DEF VainInv
<1>1. BudgetInv' /\ Marked' /\ Oriented'
  BY BudgetStep, MarkedStep, OrientedStep DEF BudgetInv
<1>2. ASSUME NEW n \in DOMAIN curNodes, ChooseNode(n)
      PROVE  VainInv'
  <2>1. /\ UNCHANGED <<curNodes, left>>
        /\ DOMAIN curClusters' = DOMAIN curClusters
        /\ \A c \in DOMAIN curClusters : curClusters[c].deployed => curClusters'[c].deployed
    BY <1>2, PlacedHere DEF BudgetInv
  <2>2. \A c \in DOMAIN curClusters : Refused(c)' => Refused(c)
    BY <2>1 DEF Refused
  <2>3. \A c \in DOMAIN curClusters : Refused(c)' =>
          \A m \in DOMAIN curNodes : TooBig(c, m)'
    BY <1>2, <2>2, TooBigStays
  <2> QED BY <1>1, <2>1, <2>3
<1>3. ASSUME ~\E n \in DOMAIN curNodes : ChooseNode(n)
      PROVE  VainInv'
  <2>1. /\ UNCHANGED <<curServices, rackMap, curClusters>>
        /\ DOMAIN curNodes' = DOMAIN curNodes
    BY <1>3, NothingPlaced DEF BudgetInv
  <2>2. ASSUME NEW c \in DOMAIN curClusters, Refused(c)', NEW n \in DOMAIN curNodes
        PROVE  TooBig(c, n)
    <3>1. CASE Refused(c)
      BY <3>1
    <3>2. CASE RefuseCluster
      <4>1. left \in Nat /\ left' = left - 1
        BY <3>2 DEF RefuseCluster, Marked, TypeInv, TypeOK
      <4>2. c = left - 1 \/ Refused(c)
        BY <2>1, <2>2, <4>1 DEF Refused, Marked, TypeInv, Shape
      <4> QED BY <3>1, <3>2, <4>2, RefusedTooBig
    <3>3. CASE SkipCluster \/ ChargeNode
      <4>1. left \in Nat /\ left' = left - 1 /\ Current.deployed
        BY <3>3 DEF SkipCluster, ChargeNode, Marked, TypeInv, TypeOK
      <4>2. Refused(c)
        BY <2>1, <2>2, <4>1 DEF Refused, Current, Marked, TypeInv, Shape
      <4> QED BY <3>1, <4>2
    <3>4. CASE ~(RefuseCluster \/ SkipCluster \/ ChargeNode)
      <4>1. UNCHANGED left
        BY <1>3, <3>4 DEF Next, DeployStep, BindPod, Finish, DeletePod, vars
      <4>2. Refused(c)
        BY <2>1, <2>2, <4>1 DEF Refused
      <4> QED BY <3>1, <4>2
    <3> QED BY <3>2, <3>3, <3>4
  <2>3. ASSUME NEW c \in DOMAIN curClusters, NEW n \in DOMAIN curNodes, TooBig(c, n)
        PROVE  TooBig(c, n)'
    <3>1. /\ curNodes'[n].Name = curNodes[n].Name
          /\ Here(n)' = Here(n)
          /\ \A p \in PortNo : curNodes'[n].ports[p] >= curNodes[n].ports[p]
          /\ \A r \in Resource : Left(n, r)' = Left(n, r)
      BY <1>3, NothingPlaced DEF BudgetInv
    <3>2. \A r \in Resource : Demand(r)' = Demand(r)
      BY <2>1 DEF Demand
    <3>3. Subset(curClusters[c].profile.ports, curNodes[n].ports)
            => Subset(curClusters[c].profile.ports, curNodes'[n].ports)
      <4>1. \A p \in PortNo : /\ curNodes[n].ports[p] \in Nat
                              /\ curNodes'[n].ports[p] \in Nat
                              /\ curClusters[c].profile.ports[p] \in Nat
        <5>1. curNodes[n] \in Node /\ curNodes'[n] \in Node
          BY <1>1, <2>1 DEF Marked, TypeInv, TypeOK
        <5>2. curClusters[c].profile \in Need
          BY DEF Marked, TypeInv, TypeOK, Cluster
        <5> QED BY <5>1, <5>2 DEF Node, Need, Ports
      <4> QED BY <3>1, <4>1 DEF Subset
    <3> QED BY <2>1, <2>3, <3>1, <3>2, <3>3 DEF TooBig
  <2> QED BY <1>1, <2>1, <2>2, <2>3
<1> QED BY <1>2, <1>3

LEMMA VainInit == Init /\ Oriented => VainInv
<1> SUFFICES ASSUME Init, Oriented PROVE VainInv
  OBVIOUS
<1>1. BudgetInv
  BY BudgetInit
<1>2. Marked
  BY MarkedInit
<1>3. \A c \in DOMAIN curClusters : ~Refused(c)
  BY DEF Init, Refused
<1> QED BY <1>1, <1>2, <1>3 DEF VainInv

(* What is too big for a node is not there with all its services.          *)
LEMMA VainWhole == VainInv => NeverSplitInVain
<1> SUFFICES ASSUME VainInv, NEW c \in DOMAIN curClusters, Refused(c),
                    NEW n \in DOMAIN curNodes,
                    \A s \in curClusters[c].services : Host(s) = {n}
             PROVE  FALSE
  BY DEF NeverSplitInVain, Refused
<1> USE DEF VainInv, BudgetInv
<1> DEFINE own == curClusters[c].services
<1>1. own # {} /\ own \subseteq DOMAIN curServices
  BY DEF RequestInv, Listed, Hierarchy, Marked, TypeInv, TypeOK, Cluster
<1>2. own \cap Here(n) = own
  BY <1>1 DEF Here
<1>3. curNodes[n].Name # masterNode
  BY <1>1, <1>2 DEF Balanced
<1>4. PICK r \in Resource : SumFunctionOnSet(Demand(r), own \cap Here(n)) + Left(n, r)
                              < curClusters[c].profile.res[r]
  BY <1>1, <1>2, <1>3 DEF TooBig
<1>5. curClusters[c].profile.res[r] = SumFunctionOnSet(Demand(r), own)
  BY ProfileSum DEF Marked, TypeInv
<1>6. SumFunctionOnSet(Demand(r), own) \in Nat
  BY <1>1, DemandNat DEF Marked, TypeInv, Accounted
<1>7. Left(n, r) \in Nat
  BY LeftNat DEF Marked
<1> HIDE DEF own
<1> QED BY <1>2, <1>4, <1>5, <1>6, <1>7

(* In a round that starts with the cursor in a regular rack map, a cluster *)
(* is broken up only if its services do not end up on one node.            *)
THEOREM BrokenUpOnlyIfNeeded == Spec => NoVainSplit
BY VainInit, VainStep, VainWhole, PTL DEF Spec, NoVainSplit

-----------------------------------------------------------------------------
(* Why a round ends: the steps it can still make.  Each cluster to come    *)
(* takes one to choose a node, one for each pod, and one to charge it.     *)
Work ==
  left * (Cardinality(DOMAIN curServices) + 2)
    + CASE phase = "scan" -> Cardinality(DOMAIN curServices) + 1
        [] phase = "bind" -> Cardinality(todo)
        [] OTHER -> 0

LEMMA WorkNat ==
  ASSUME BudgetInv
  PROVE  /\ Work \in Nat
         /\ Cardinality(DOMAIN curServices) \in Nat
         /\ \A T \in SUBSET DOMAIN curServices :
               /\ IsFiniteSet(T) /\ Cardinality(T) \in Nat
               /\ Cardinality(T) <= Cardinality(DOMAIN curServices)
<1>1. /\ left \in Nat /\ todo \in SUBSET DOMAIN curServices
      /\ IsFiniteSet(DOMAIN curServices) /\ phase \in {"scan", "bind", "done"}
  BY DEF BudgetInv, RequestInv, TypeInv, TypeOK, Accounted
<1>2. \A T \in SUBSET DOMAIN curServices :
         /\ IsFiniteSet(T) /\ Cardinality(T) \in Nat
         /\ Cardinality(T) <= Cardinality(DOMAIN curServices)
  BY <1>1, FS_Subset, FS_CardinalityType
<1>3. Cardinality(todo) \in Nat /\ Cardinality(DOMAIN curServices) \in Nat
  BY <1>1, <1>2
<1>4. \A a, b \in Nat : a * b \in Nat
  OBVIOUS
<1>5. left * (Cardinality(DOMAIN curServices) + 2) \in Nat
  BY <1>1, <1>3, <1>4
<1>6. Work \in Nat
  BY <1>1, <1>3, <1>5 DEF Work
<1> QED BY <1>2, <1>3, <1>6

LEMMA WorkLess ==
  ASSUME BudgetInv, DeployStep
  PROVE  Work' < Work
<1> DEFINE K == Cardinality(DOMAIN curServices)
<1>1. /\ Work \in Nat /\ K \in Nat
      /\ \A T \in SUBSET DOMAIN curServices :
            IsFiniteSet(T) /\ Cardinality(T) \in Nat /\ Cardinality(T) <= K
  BY WorkNat
<1>2. left \in Nat /\ todo \in SUBSET DOMAIN curServices /\ curServices' = curServices
  BY DEF BudgetInv, RequestInv, TypeInv, TypeOK, DeployStep, SkipCluster, RefuseCluster,
         ChooseNode, BindPod, ChargeNode, Finish, plan
<1>3. K' = K
  BY <1>2
<1>4. left > 0 => (left - 1) * (K + 2) = left * (K + 2) - (K + 2)
  BY <1>1, <1>2
<1>5. left * (K + 2) \in Int /\ (left - 1) * (K + 2) \in Int
  BY <1>1, <1>2
<1>6. CASE SkipCluster \/ RefuseCluster
  <2>1. left > 0 /\ left' = left - 1 /\ phase = "scan" /\ phase' = "scan"
    BY <1>6 DEF SkipCluster, RefuseCluster
  <2>2. Work = left * (K + 2) + (K + 1)
    BY <2>1 DEF Work
  <2>3. Work' = (left - 1) * (K + 2) + (K + 1)
    BY <1>3, <2>1 DEF Work
  <2> HIDE DEF K
  <2> QED BY <1>1, <1>4, <1>5, <2>1, <2>2, <2>3
<1>7. ASSUME NEW n \in DOMAIN curNodes, ChooseNode(n)
      PROVE  Work' < Work
  <2>1. left' = left /\ phase = "scan" /\ phase' = "bind" /\ todo' = Current.services
    BY <1>7 DEF ChooseNode
  <2>2. Current.services \in SUBSET DOMAIN curServices
    BY <1>7, PlacedHere DEF BudgetInv
  <2>3. Work = left * (K + 2) + (K + 1)
    BY <2>1 DEF Work
  <2>4. Work' = left * (K + 2) + Cardinality(Current.services)
    BY <1>3, <2>1 DEF Work
  <2>5. Cardinality(Current.services) \in Nat /\ Cardinality(Current.services) <= K
    BY <1>1, <2>2
  <2> HIDE DEF K
  <2> QED BY <1>1, <1>5, <2>3, <2>4, <2>5
<1>8. ASSUME NEW s \in DOMAIN curServices, BindPod(s)
      PROVE  Work' < Work
  <2>1. left' = left /\ phase = "bind" /\ phase' = "bind" /\ s \in todo /\ todo' = todo \ {s}
    BY <1>8 DEF BindPod
  <2>2. Cardinality(todo \ {s}) = Cardinality(todo) - 1 /\ Cardinality(todo) \in Nat
    BY <1>1, <1>2, <2>1, FS_RemoveElement
  <2>3. Work = left * (K + 2) + Cardinality(todo)
    BY <2>1 DEF Work
  <2>4. Work' = left * (K + 2) + Cardinality(todo \ {s})
    BY <1>3, <2>1 DEF Work
  <2> HIDE DEF K
  <2> QED BY <1>1, <1>5, <2>2, <2>3, <2>4
<1>9. CASE ChargeNode
  <2>1. left > 0 /\ left' = left - 1 /\ phase = "bind" /\ phase' = "scan"
    BY <1>9 DEF ChargeNode, BudgetInv, RequestInv, TypeInv, Shape
  <2>2. Work = left * (K + 2) + Cardinality(todo) /\ Cardinality(todo) \in Nat
    BY <1>1, <1>2, <2>1 DEF Work
  <2>3. Work' = (left - 1) * (K + 2) + (K + 1)
    BY <1>3, <2>1 DEF Work
  <2> HIDE DEF K
  <2> QED BY <1>1, <1>4, <1>5, <2>1, <2>2, <2>3
<1>10. CASE Finish
  <2>1. left' = left /\ phase = "scan" /\ phase' = "done"
    BY <1>10 DEF Finish
  <2>2. Work = left * (K + 2) + (K + 1)
    BY <2>1 DEF Work
  <2>3. Work' = left * (K + 2)
    BY <1>3, <1>5, <2>1 DEF Work
  <2> HIDE DEF K
  <2> QED BY <1>1, <1>5, <2>2, <2>3
<1> QED BY <1>6, <1>7, <1>8, <1>9, <1>10 DEF DeployStep

(* Each step of the loop takes off the work that is left, and what         *)
(* Kubernetes does in between adds none: a round makes no more steps than  *)
(* its work was at the start, whatever is refused and whatever fails       *)
(* (scheduler.go 330-380).  What is missing to RoundEnds is that the loop  *)
(* can always go on.                                                       *)
THEOREM RoundShortens ==
  Spec => [][/\ Work \in Nat
             /\ DeployStep => Work' < Work
             /\ ~DeployStep => Work' = Work]_vars
<1>1. BudgetInv /\ [Next]_vars =>
         [/\ Work \in Nat
          /\ DeployStep => Work' < Work
          /\ ~DeployStep => Work' = Work]_vars
  <2>1. ASSUME NEW p \in Pod, DeletePod(p)
        PROVE  Work' = Work
    BY <2>1 DEF DeletePod, plan, Work
  <2> QED BY <2>1, WorkNat, WorkLess DEF Next
<1>2. Init => BudgetInv
  BY BudgetInit
<1>3. BudgetInv /\ [Next]_vars => BudgetInv'
  BY BudgetStep
<1> QED BY <1>1, <1>2, <1>3, PTL DEF Spec
=============================================================================
