--------------------------- MODULE SchedulerProofs --------------------------
(***************************************************************************)
(* Theorems about the scheduling loop (module Scheduler), for every number *)
(* of pods and nodes, any number of rounds, crashes and restarts: what the *)
(* theorems of module DeployProofs say of one round holds in each round,   *)
(* because every round starts where they start.                            *)
(***************************************************************************)
EXTENDS Scheduler, DeployProofs, SequenceTheorems

-----------------------------------------------------------------------------
(* The Ids of the pods that exist: one each, in the order of the listing,  *)
(* without a gap.                                                          *)
LEMMA ExistingFinite ==
  /\ Existing \subseteq DOMAIN Listing
  /\ DOMAIN Listing \subseteq Nat
  /\ IsFiniteSet(Existing) /\ Cardinality(Existing) \in Nat
<1>1. /\ Len(Listing) \in Nat
      /\ DOMAIN Listing = 1 .. Len(Listing)
  BY SchedulerAssumption, LenProperties
<1>2. IsFiniteSet(DOMAIN Listing)
  BY <1>1, FS_Interval
<1>3. Existing \subseteq DOMAIN Listing
  BY DEF Existing
<1>4. IsFiniteSet(Existing)
  BY <1>2, <1>3, FS_Subset
<1> QED BY <1>1, <1>3, <1>4, FS_CardinalityType

LEMMA IdsInOrder ==
  /\ \A i \in Existing : Id(i) \in 0 .. (Cardinality(Existing) - 1)
  /\ \A i, j \in Existing : i < j => Id(i) < Id(j)
<1> DEFINE Before(i) == {j \in Existing : j < i}
<1>1. Existing \subseteq Nat /\ IsFiniteSet(Existing) /\ Cardinality(Existing) \in Nat
  BY ExistingFinite
<1>2. ASSUME NEW i \in Existing, NEW S \in SUBSET Existing,
             Before(i) \subseteq S, i \in S
      PROVE  Id(i) \in Nat /\ Id(i) < Cardinality(S)
  <2>1. IsFiniteSet(Before(i)) /\ IsFiniteSet(S)
    BY <1>1, FS_Subset
  <2>2. Id(i) = Cardinality(Before(i))
    BY DEF Id
  <2>3. i \notin Before(i) /\ Before(i) \cup {i} \in SUBSET S
    BY <1>1, <1>2
  <2> HIDE DEF Before
  <2>4. /\ Cardinality(Before(i)) \in Nat /\ Cardinality(S) \in Nat
        /\ Cardinality(Before(i) \cup {i}) = Cardinality(Before(i)) + 1
    BY <2>1, <2>3, FS_CardinalityType, FS_AddElement
  <2>5. Cardinality(Before(i) \cup {i}) <= Cardinality(S)
    BY <2>1, <2>3, FS_Subset
  <2> QED BY <2>2, <2>4, <2>5
<1>3. ASSUME NEW i \in Existing
      PROVE  Id(i) \in 0 .. (Cardinality(Existing) - 1)
  <2>1. Id(i) \in Nat /\ Id(i) < Cardinality(Existing)
    BY <1>2
  <2> QED BY <1>1, <2>1
<1>4. ASSUME NEW i \in Existing, NEW j \in Existing, i < j
      PROVE  Id(i) < Id(j)
  <2>1. Before(j) \in SUBSET Existing /\ i \in Before(j)
    BY <1>4
  <2>2. Before(i) \subseteq Before(j)
    <3> SUFFICES ASSUME NEW h \in Existing, h < i
                 PROVE  h < j
      OBVIOUS
    <3> QED BY <1>1, <1>4
  <2> HIDE DEF Before
  <2>3. Id(i) < Cardinality(Before(j))
    BY <1>2, <2>1, <2>2
  <2> QED BY <2>3 DEF Id, Before
<1> QED BY <1>3, <1>4

LEMMA IdsWithoutGap ==
  /\ {Id(i) : i \in Existing} = 0 .. (Cardinality(Existing) - 1)
  /\ \A i, j \in Existing : Id(i) = Id(j) => i = j
<1> DEFINE n == Cardinality(Existing)
           T == 0 .. (n - 1)
           f == [i \in Existing |-> Id(i)]
<1>1. n \in Nat /\ IsFiniteSet(Existing) /\ Existing \subseteq Nat
  BY ExistingFinite
<1>2. \A i, j \in Existing : Id(i) = Id(j) => i = j
  <2> SUFFICES ASSUME NEW i \in Existing, NEW j \in Existing, Id(i) = Id(j), i # j
               PROVE  FALSE
    OBVIOUS
  <2>1. i < j \/ j < i
    BY <1>1
  <2>2. Id(i) \in Nat /\ Id(j) \in Nat
    BY <1>1, IdsInOrder
  <2> QED BY <2>1, <2>2, IdsInOrder
<1>3. \A i \in Existing : Id(i) \in T
  BY IdsInOrder
<1>4. f \in Injection(Existing, T)
  BY <1>2, <1>3 DEF Injection, IsInjective
<1>5. IsFiniteSet(T) /\ Cardinality(T) = n
  <2> HIDE DEF n
  <2>1. 0 \in Int /\ n - 1 \in Int
    BY <1>1
  <2> QED BY <1>1, <2>1, FS_Interval
<1>6. f \in Surjection(Existing, T)
  <2> HIDE DEF f, T, n
  <2> QED BY <1>4, <1>5, FS_Injection DEF n
<1>7. \A k \in T : \E i \in Existing : Id(i) = k
  BY <1>6 DEF Surjection
<1> QED BY <1>2, <1>3, <1>7

LEMMA PodsListed ==
  ASSUME NEW i \in Existing
  PROVE  PodWithId(Id(i)) = Listing[i] /\ Listing[i] \in Pod
<1>1. \A j \in Existing : Id(j) = Id(i) => j = i
  BY IdsWithoutGap
<1>2. PodWithId(Id(i)) = Listing[i]
  BY <1>1 DEF PodWithId
<1>3. Listing[i] \in Pod
  BY ExistingFinite, SchedulerAssumption, ElementOfSeq
<1> QED BY <1>2, <1>3

-----------------------------------------------------------------------------
(* What the lists of a round are when Update_clusters reads them.          *)
PodsRead ==
  /\ curServices \in [DOMAIN curServices -> Service]
  /\ \E n \in Nat : DOMAIN curServices = 0 .. (n - 1)
  /\ OncePerPod(curServices)

NodesRead ==
  /\ curNodes \in [DOMAIN curNodes -> Node] /\ DOMAIN curNodes \subseteq Nat
  /\ OncePerNode(curNodes)
  /\ \A n \in DOMAIN curNodes, p \in PortNo : curNodes[n].ports[p] = 0
  /\ rackMap = curNodes

LEMMA PodsReadNow == ListPod => PodsRead'
<1> SUFFICES ASSUME ListPod PROVE PodsRead'
  OBVIOUS
<1> DEFINE ids == {Id(i) : i \in Existing}
<1>1. /\ DOMAIN curServices' = ids
      /\ \A k \in ids : curServices'[k] = [pod   |-> PodWithId(k),
                                          res   |-> Limits[PodWithId(k)].res,
                                          ports |-> Limits[PodWithId(k)].ports]
      /\ curServices' = [k \in ids |-> curServices'[k]]
  BY DEF ListPod
<1>2. ASSUME NEW k \in ids
      PROVE  curServices'[k] \in Service
  <2>1. PICK i \in Existing : k = Id(i)
    OBVIOUS
  <2>2. PodWithId(k) \in Pod
    BY <2>1, PodsListed
  <2>3. Limits[PodWithId(k)].res \in Amount /\ Limits[PodWithId(k)].ports \in Ports
    BY <2>2, SchedulerAssumption DEF Need
  <2>4. [pod   |-> PodWithId(k), res |-> Limits[PodWithId(k)].res,
         ports |-> Limits[PodWithId(k)].ports] \in Service
    BY <2>2, <2>3 DEF Service
  <2> QED BY <1>1, <2>4
<1>3. ASSUME NEW s \in ids, NEW t \in ids, curServices'[s].pod = curServices'[t].pod
      PROVE  s = t
  <2>1. PICK i \in Existing : s = Id(i)
    OBVIOUS
  <2>2. PICK j \in Existing : t = Id(j)
    OBVIOUS
  <2>5. curServices'[s].pod = PodWithId(s) /\ curServices'[t].pod = PodWithId(t)
    <3> HIDE DEF ids
    <3>1. \A k \in ids : curServices'[k].pod = PodWithId(k)
      BY <1>1
    <3> QED BY <3>1
  <2>3. Listing[i] = Listing[j]
    BY <2>5, <1>3, <2>1, <2>2, PodsListed
  <2>4. i = j
    BY <2>3, ExistingFinite, SchedulerAssumption
  <2> QED BY <2>1, <2>2, <2>4
<1>4. \E n \in Nat : ids = 0 .. (n - 1)
  BY IdsWithoutGap, ExistingFinite
<1> HIDE DEF ids
<1> QED BY <1>1, <1>2, <1>3, <1>4 DEF PodsRead, OncePerPod

LEMMA NodesReadNow == ASSUME NEW nodes \in NodeLists, ListNode(nodes) PROVE NodesRead'
BY SchedulerAssumption DEF ListNode, NodesRead

(* The service map is not larger than the list of pods.                    *)
LEMMA MapInList ==
  ASSUME PodsRead
  PROVE  /\ MapSize \in Nat
         /\ 0 .. (MapSize - 1) \subseteq DOMAIN curServices
         /\ IsFiniteSet(DOMAIN curServices)
         /\ AthenaIds \subseteq DOMAIN curServices
<1>1. PICK n \in Nat : DOMAIN curServices = 0 .. (n - 1)
  BY DEF PodsRead
<1>2. IsFiniteSet(DOMAIN curServices) /\ Cardinality(DOMAIN curServices) = n
  BY <1>1, FS_Interval
<1>3. AthenaIds \in SUBSET DOMAIN curServices
  BY DEF AthenaIds
<1>4. /\ Cardinality(AthenaIds) \in Nat
      /\ Cardinality(AthenaIds) <= n
  BY <1>2, <1>3, FS_Subset, FS_CardinalityType
<1> QED BY <1>1, <1>2, <1>3, <1>4 DEF MapSize

-----------------------------------------------------------------------------
(* The clusters of a file: every cluster has a service, since the first    *)
(* one without would be the union of two earlier ones.                     *)
LEMMA FileClusters ==
  ASSUME NEW l \in Nat, l >= 2, NEW f \in C!Files(l)
  PROVE  /\ DOMAIN f = 0 .. (2 * l - 2)
         /\ \A c \in DOMAIN f : f[c] \subseteq 0 .. (l - 1) /\ f[c] # {}
         /\ \A c, d \in DOMAIN f : c < d => f[c] \subseteq f[d] \/ f[c] \cap f[d] = {}
<1> DEFINE all == 0 .. (l - 1)
<1>1. PICK rows \in [l .. (2 * l - 3) -> SUBSET all] :
        f = [c \in 0 .. (2 * l - 2) |->
               IF c < l THEN {c} ELSE IF c = 2 * l - 2 THEN all ELSE rows[c]]
  BY DEF C!Files
<1>2. DOMAIN f = 0 .. (2 * l - 2)
  BY <1>1
<1>3. \A c, d \in DOMAIN f : c < d => f[c] \subseteq f[d] \/ f[c] \cap f[d] = {}
  BY DEF C!Files
<1>7. \A c \in l .. (2 * l - 2) : \E a, b \in 0 .. (c - 1) :
         f[a] \cap f[b] = {} /\ f[c] = f[a] \cup f[b]
  BY Zenon DEF C!Files
<1>4. ASSUME NEW c \in DOMAIN f
      PROVE  f[c] \subseteq all
  BY <1>1, <1>2
<1>5. \A c \in 0 .. (l - 1) : f[c] = {c}
  BY <1>1
<1>6. ASSUME NEW c \in DOMAIN f, f[c] = {}
      PROVE  FALSE
  <2> DEFINE E == {d \in DOMAIN f : f[d] = {}}
             m == Lowest(E)
  <2>1. E \subseteq Nat /\ E # {}
    BY <1>2, <1>6
  <2>2. m \in E /\ \A d \in E : m <= d
    <3> HIDE DEF E
    <3> QED BY <2>1, LowestExists
  <2>3. m \in DOMAIN f /\ f[m] = {}
    BY <2>2
  <2> HIDE DEF m
  <2>4. m \in l .. (2 * l - 2)
    <3>1. m \in 0 .. (2 * l - 2)
      BY <1>2, <2>3
    <3>2. m \notin 0 .. (l - 1)
      <4> SUFFICES ASSUME m \in 0 .. (l - 1) PROVE FALSE
        OBVIOUS
      <4>1. f[m] = {m}
        BY <1>5
      <4> QED BY <4>1, <2>3
    <3> QED BY <3>1, <3>2
  <2>5. PICK a \in 0 .. (m - 1), b \in 0 .. (m - 1) : f[m] = f[a] \cup f[b]
    <3>1. \E a, b \in 0 .. (m - 1) : f[a] \cap f[b] = {} /\ f[m] = f[a] \cup f[b]
      <4> HIDE DEF E
      <4> QED BY <1>7, <2>4, Zenon
    <3> QED BY <3>1, Zenon
  <2>6. a \in DOMAIN f /\ f[a] = {} /\ a < m
    BY <1>2, <2>3, <2>4, <2>5
  <2> QED BY <2>2, <2>4, <2>6
<1> QED BY <1>2, <1>3, <1>4, <1>6

LEMMA ProfileNeed ==
  ASSUME NEW svcs \in [DOMAIN curServices -> Service],
         IsFiniteSet(DOMAIN curServices), NEW S \in SUBSET DOMAIN curServices
  PROVE  C!Profile(svcs, S) \in Need
<1>1. IsFiniteSet(S) /\ DOMAIN svcs = DOMAIN curServices /\ S \subseteq DOMAIN svcs
  BY FS_Subset
<1>2. ASSUME NEW r \in Resource
      PROVE  C!SumFunctionOnSet([s \in DOMAIN svcs |-> svcs[s].res[r]], S) \in Nat
  <2> DEFINE f == [s \in DOMAIN svcs |-> svcs[s].res[r]]
  <2>1. \A s \in S : f[s] \in Nat
    BY <1>1 DEF Service, Amount
  <2>2. C!SumFunctionOnSet(f, S) \in Nat
    <3> HIDE DEF f
    <3>1. C!SumFunctionOnSet(f, S) = SumFunctionOnSet(f, S)
      BY SameSum
    <3>2. SumFunctionOnSet(f, S) \in Nat
      BY <1>1, <2>1, SumNat
    <3> QED BY <3>1, <3>2
  <2> QED BY <2>2
<1>3. ASSUME NEW p \in PortNo
      PROVE  C!SumFunctionOnSet([s \in DOMAIN svcs |-> svcs[s].ports[p]], S) \in Nat
  <2> DEFINE f == [s \in DOMAIN svcs |-> svcs[s].ports[p]]
  <2>1. \A s \in S : f[s] \in Nat
    BY <1>1 DEF Service, Ports
  <2>2. C!SumFunctionOnSet(f, S) \in Nat
    <3> HIDE DEF f
    <3>1. C!SumFunctionOnSet(f, S) = SumFunctionOnSet(f, S)
      BY SameSum
    <3>2. SumFunctionOnSet(f, S) \in Nat
      BY <1>1, <2>1, SumNat
    <3> QED BY <3>1, <3>2
  <2> QED BY <2>2
<1>4. ASSUME NEW p \in PortNo
      PROVE  (IF p = -1 THEN 1 ELSE 0)
               + C!SumFunctionOnSet([s \in DOMAIN svcs |-> svcs[s].ports[p]], S) \in Nat
  BY <1>3
<1> QED BY <1>2, <1>4 DEF C!Profile, Need, Amount, Ports

-----------------------------------------------------------------------------
(* Every round starts where module Deploy starts.                          *)
LEMMA Loaded ==
  ASSUME PodsRead, MapSize >= 2, NEW file \in C!Files(MapSize),
         curClusters' = C!LoadClusters(curServices, file)
  PROVE  /\ curClusters' \in [DOMAIN curClusters' -> Cluster(DOMAIN curServices)]
         /\ DOMAIN curClusters' = 0 .. (2 * MapSize - 2)
         /\ \A c \in DOMAIN curClusters' :
               /\ curClusters'[c].profile = C!Profile(curServices, curClusters'[c].services)
               /\ ~curClusters'[c].deployed
               /\ curClusters'[c].services \subseteq 0 .. (MapSize - 1)
         /\ Hierarchy(curClusters')
<1>1. /\ MapSize \in Nat
      /\ 0 .. (MapSize - 1) \subseteq DOMAIN curServices
      /\ IsFiniteSet(DOMAIN curServices)
      /\ curServices \in [DOMAIN curServices -> Service]
  BY MapInList DEF PodsRead
<1>2. /\ DOMAIN file = 0 .. (2 * MapSize - 2)
      /\ \A c \in DOMAIN file : file[c] \subseteq 0 .. (MapSize - 1) /\ file[c] # {}
      /\ \A c, d \in DOMAIN file : c < d => file[c] \subseteq file[d] \/ file[c] \cap file[d] = {}
  BY <1>1, FileClusters
<1>3. /\ DOMAIN curClusters' = DOMAIN file
      /\ \A c \in DOMAIN file :
            curClusters'[c] = [services |-> file[c], profile |-> C!Profile(curServices, file[c]),
                               deployed |-> FALSE]
      /\ curClusters' = [c \in DOMAIN file |-> curClusters'[c]]
  BY DEF C!LoadClusters
<1>4. ASSUME NEW c \in DOMAIN file
      PROVE  /\ curClusters'[c].services = file[c]
             /\ curClusters'[c].profile = C!Profile(curServices, file[c])
             /\ ~curClusters'[c].deployed
             /\ curClusters'[c] \in Cluster(DOMAIN curServices)
  <2>1. file[c] \in SUBSET DOMAIN curServices
    BY <1>1, <1>2
  <2>2. C!Profile(curServices, file[c]) \in Need
    BY <1>1, <2>1, ProfileNeed
  <2> DEFINE need == C!Profile(curServices, file[c])
             loaded == [services |-> file[c], profile |-> need, deployed |-> FALSE]
  <2> HIDE DEF need
  <2>3. loaded \in Cluster(DOMAIN curServices)
    BY <2>1, <2>2 DEF Cluster, need
  <2>4. loaded.services = file[c] /\ loaded.profile = need /\ ~loaded.deployed
    OBVIOUS
  <2>5. curClusters'[c] = loaded
    BY <1>3 DEF need
  <2> HIDE DEF loaded
  <2> QED BY <2>3, <2>4, <2>5 DEF need
<1>5. Hierarchy(curClusters')
  BY <1>2, <1>3, <1>4 DEF Hierarchy
<1>6. curClusters' \in [DOMAIN curClusters' -> Cluster(DOMAIN curServices)]
  BY <1>3, <1>4
<1> QED BY <1>2, <1>3, <1>4, <1>5, <1>6

LEMMA RoundStarts ==
  ASSUME PodsRead, NodesRead, UpdateClusters, cursor \in Cursor,
         podNode \in [Pod -> NodeName \cup {Unbound, Gone}]
  PROVE  Init'
<1>1. PICK file \in C!Files(MapSize) : curClusters' = C!LoadClusters(curServices, file)
  BY DEF UpdateClusters
<1>2. /\ MapSize \in Nat /\ MapSize >= 2
      /\ IsFiniteSet(DOMAIN curServices)
  BY MapInList DEF UpdateClusters
<1>3. /\ curClusters' \in [DOMAIN curClusters' -> Cluster(DOMAIN curServices)]
      /\ DOMAIN curClusters' = 0 .. (2 * MapSize - 2)
      /\ \A c \in DOMAIN curClusters' :
            /\ curClusters'[c].profile = C!Profile(curServices, curClusters'[c].services)
            /\ ~curClusters'[c].deployed
      /\ Hierarchy(curClusters')
  BY <1>1, <1>2, Loaded
<1>4. /\ left' = 2 * MapSize - 1 /\ phase' = "scan" /\ target' = 0 /\ todo' = {}
      /\ sent' = [p \in Pod |-> {}]
      /\ UNCHANGED <<curServices, curNodes, rackMap, cursor, podNode>>
  BY DEF UpdateClusters
<1>5. left' \in Nat /\ DOMAIN curClusters' = 0 .. (left' - 1)
  BY <1>2, <1>3, <1>4
<1>6. Cardinality(DOMAIN curClusters') = left'
  <2>1. 2 * MapSize - 2 \in Int /\ ~(0 > 2 * MapSize - 2)
    BY <1>2
  <2>2. Cardinality(0 .. (2 * MapSize - 2)) = (2 * MapSize - 2) - 0 + 1
    BY <2>1, FS_Interval
  <2> QED BY <1>2, <1>3, <1>4, <2>2
<1>7. RoundStart'
  BY <1>4, <1>6 DEF RoundStart, NodesRead
<1>8. (OncePerPod(curServices) /\ OncePerNode(curNodes))'
  BY <1>4 DEF PodsRead, NodesRead, OncePerPod, OncePerNode
<1>9. /\ (curServices \in [DOMAIN curServices -> Service])'
      /\ (curNodes \in [DOMAIN curNodes -> Node])'
      /\ (DOMAIN curNodes \subseteq Nat)'
      /\ (\A n \in DOMAIN curNodes, p \in PortNo : curNodes[n].ports[p] = 0)'
      /\ (cursor \in Cursor)'
      /\ (podNode \in [Pod -> NodeName \cup {Unbound, Gone}])'
      /\ IsFiniteSet(DOMAIN curServices)'
  BY <1>2, <1>4 DEF PodsRead, NodesRead
<1>10. /\ (curClusters \in [DOMAIN curClusters -> Cluster(DOMAIN curServices)])'
       /\ (Hierarchy(curClusters))'
       /\ (\A c \in DOMAIN curClusters :
             /\ curClusters[c].profile = C!Profile(curServices, curClusters[c].services)
             /\ ~curClusters[c].deployed)'
  <2>1. (\A c \in DOMAIN curClusters :
           /\ curClusters[c].profile = C!Profile(curServices, curClusters[c].services)
           /\ ~curClusters[c].deployed)'
    BY <1>3, <1>4 DEF C!Profile
  <2>2. Hierarchy(curClusters)'
    BY <1>3 DEF Hierarchy
  <2> QED BY <1>3, <1>4, <2>1, <2>2
<1> QED BY <1>5, <1>7, <1>8, <1>9, <1>10 DEF Init

-----------------------------------------------------------------------------
(* The inductive invariant: each list is what its call read from then on   *)
(* until the round, and during a round, up to the next listing, the budget *)
(* of module DeployProofs holds.                                           *)
SchedInv ==
  /\ pc \in {"pods", "nodes", "clusters", "deploy", "sleep", "dead"}
  /\ cursor \in Cursor
  /\ podNode \in [Pod -> NodeName \cup {Unbound, Gone}]
  /\ pc \in {"nodes", "clusters"} => PodsRead
  /\ pc = "clusters" => NodesRead
  /\ pc \in {"deploy", "sleep"} => BudgetInv

(* A round does not look at what Kubernetes does with the pods.            *)
LEMMA PodsAside ==
  ASSUME BudgetInv, UNCHANGED <<round, cursor>>,
         podNode' \in [Pod -> NodeName \cup {Unbound, Gone}]
  PROVE  BudgetInv'
<1>1. UNCHANGED <<curServices, curNodes, rackMap, curClusters, left, phase, target, todo,
                  sent, cursor>>
  BY DEF round
<1>2. UNCHANGED Current
  BY <1>1 DEF Current
<1>3. TypeInv'
  BY <1>1, <1>2 DEF BudgetInv, RequestInv, TypeInv, TypeOK, Shape
<1>4. \A s : Host(s)' = Host(s)
  BY <1>1 DEF Host
<1>5. (Listed /\ Untouched /\ InHand /\ OneNode)'
  BY <1>1, <1>2 DEF BudgetInv, RequestInv, Listed, Untouched, Ahead, Fresh, InHand, OneNode
<1>6. DeployedTogether'
  BY <1>1, <1>4 DEF BudgetInv, RequestInv, DeployedTogether
<1>7. Accounted'
  BY <1>1 DEF BudgetInv, Accounted
<1>8. /\ \A n : Here(n)' = Here(n)
      /\ \A r : Demand(r)' = Demand(r)
      /\ \A n, r : Left(n, r)' = Left(n, r)
  BY <1>1, <1>2, <1>4 DEF Here, Demand, Left, Uncharged
<1>9. Balanced'
  BY <1>1, <1>8 DEF BudgetInv, Balanced
<1> QED BY <1>3, <1>5, <1>6, <1>7, <1>9 DEF BudgetInv, RequestInv

LEMMA ReadAside ==
  UNCHANGED <<curServices, curNodes, rackMap>> =>
     (PodsRead => PodsRead') /\ (NodesRead => NodesRead')
BY DEF PodsRead, NodesRead

LEMMA SchedStarts == SchedInit => SchedInv
BY SchedulerAssumption DEF SchedInit, SchedInv

(* One step per action of the loop, of the environment and of a crash.     *)
LEMMA SchedStep ==
  ASSUME SchedInv, [SchedNext]_schedVars
  PROVE  /\ SchedInv'
         /\ pc = "clusters" /\ pc' = "deploy" => Init'
<1> USE DEF SchedInv
<1>1. CASE ListPod
  BY <1>1, PodsReadNow DEF ListPod
<1>2. ASSUME NEW nodes \in NodeLists, ListNode(nodes)
      PROVE  SchedInv' /\ pc = "nodes"
  <2>1. NodesRead'
    BY <1>2, NodesReadNow
  <2>2. PodsRead'
    BY <1>2 DEF ListNode, PodsRead
  <2> QED BY <1>2, <2>1, <2>2 DEF ListNode
<1>3. CASE UpdateClusters
  <2>1. pc = "clusters" /\ pc' = "deploy" /\ UNCHANGED <<cursor, podNode>>
    BY <1>3 DEF UpdateClusters
  <2>2. Init'
    BY <1>3, <2>1, RoundStarts
  <2>3. BudgetInv'
    BY <2>2, BudgetInit, PTL
  <2> QED BY <2>1, <2>2, <2>3
<1>4. CASE Fail \/ Crash \/ Wake
  BY <1>4 DEF Fail, Crash, Wake, vars
<1>5. CASE Deploy_clusters
  <2>1. pc = "deploy" /\ pc' = "deploy" /\ DeployStep
    BY <1>5 DEF Deploy_clusters
  <2>2. BudgetInv'
    BY <2>1, BudgetStep DEF Next
  <2>3. TypeOK'
    BY <2>2 DEF BudgetInv, RequestInv, TypeInv
  <2> QED BY <2>1, <2>2, <2>3 DEF TypeOK
<1>6. CASE Sleep
  <2>1. pc = "deploy" /\ pc' = "sleep" /\ UNCHANGED vars
    BY <1>6 DEF Sleep
  <2>2. BudgetInv'
    BY <2>1, BudgetStep
  <2> QED BY <2>1, <2>2 DEF vars
<1>7. CASE Restart
  BY <1>7, SchedulerAssumption DEF Restart
<1>8. ASSUME NEW p \in Pod, CreatePod(p) \/ PodDeleted(p)
      PROVE  SchedInv' /\ UNCHANGED pc
  <2>1. /\ UNCHANGED <<round, cursor, pc>>
        /\ podNode' \in [Pod -> NodeName \cup {Unbound, Gone}]
    BY <1>8 DEF CreatePod, PodDeleted, DeletePod, round, plan
  <2>2. (PodsRead => PodsRead') /\ (NodesRead => NodesRead')
    BY <2>1, ReadAside DEF round
  <2>3. BudgetInv => BudgetInv'
    BY <2>1, PodsAside
  <2> QED BY <2>1, <2>2, <2>3
<1>9. CASE UNCHANGED schedVars
  <2>1. UNCHANGED <<round, cursor, pc, podNode>>
    BY <1>9 DEF schedVars, vars, round
  <2>2. (PodsRead => PodsRead') /\ (NodesRead => NodesRead')
    BY <2>1, ReadAside DEF round
  <2>3. BudgetInv => BudgetInv'
    BY <2>1, PodsAside
  <2> QED BY <2>1, <2>2, <2>3
<1>10. ~(pc = "clusters" /\ pc' = "deploy") \/ UpdateClusters
  BY <1>2, <1>8, <1>9 DEF SchedNext, Step, Pods, ListPod, Fail, Crash, Wake, Deploy_clusters,
     Sleep, Restart, schedVars
<1> QED BY <1>1, <1>2, <1>3, <1>4, <1>5, <1>6, <1>7, <1>8, <1>9, <1>10
        DEF SchedNext, Step, Pods

LEMMA SchedAlways == SchedSpec => []SchedInv
<1>1. SchedInit => SchedInv
  BY SchedStarts
<1>2. SchedInv /\ [SchedNext]_schedVars => SchedInv'
  BY SchedStep
<1> QED BY <1>1, <1>2, PTL DEF SchedSpec

(* The types of the loop: a round's own while it deploys and sleeps, and   *)
(* the cursor's and the pods' at every moment.                             *)
THEOREM SchedTypeCorrect == SchedSpec => []SchedTypeOK
<1>1. SchedInv => SchedTypeOK
  BY DEF SchedInv, SchedTypeOK, BudgetInv, RequestInv, TypeInv
<1> QED BY <1>1, SchedAlways, PTL

(* Every round of every process starts in a state module Deploy starts     *)
(* from (scheduler.go 209-316), so the theorems about one round are about  *)
(* all of them.                                                            *)
THEOREM FreshRounds == SchedSpec => RoundsStartFresh
<1>1. SchedInv /\ [SchedNext]_schedVars => (pc = "clusters" /\ pc' = "deploy" => Init')
  BY SchedStep
<1>2. SchedInv /\ [SchedNext]_schedVars => [pc = "clusters" /\ pc' = "deploy" => Init']_schedVars
  BY <1>1
<1> QED BY <1>2, SchedAlways, PTL DEF SchedSpec, RoundsStartFresh

(* In every round, however many there were before, no pod is asked to be   *)
(* bound twice, what is marked is placed together, and no node is given    *)
(* more than Prometheus said it has in all (scheduler.go 330-380).         *)
THEOREM EveryRound ==
  SchedSpec => [](pc \in {"deploy", "sleep"} =>
                    OneRequestPerPod /\ DeployedTogether /\ PlanFits)
<1>1. RequestInv => OneRequestPerPod
  BY DEF RequestInv, OneRequestPerPod, OneNode, InHand, TypeInv, Shape, TypeOK, Current, Cluster
<1>2. SchedInv => (pc \in {"deploy", "sleep"} =>
                     OneRequestPerPod /\ DeployedTogether /\ PlanFits)
  BY <1>1, BudgetFits DEF SchedInv, BudgetInv, RequestInv
<1> QED BY <1>2, SchedAlways, PTL

-----------------------------------------------------------------------------
(* What the loop does between two listings is a step of the round, or one  *)
(* the round does not see.                                                 *)
LEMMA RoundSteps ==
  ASSUME pc = "deploy", [SchedNext]_schedVars, pc' \in {"deploy", "sleep"}
  PROVE  [Next]_vars \/ UNCHANGED <<round, cursor>>
<1>1. CASE Deploy_clusters \/ Sleep \/ UNCHANGED schedVars
  BY <1>1 DEF Deploy_clusters, Next, Sleep, schedVars
<1>2. ASSUME NEW p \in Pod, CreatePod(p) \/ PodDeleted(p)
      PROVE  [Next]_vars \/ UNCHANGED <<round, cursor>>
  BY <1>2 DEF CreatePod, PodDeleted, Next
<1> QED BY <1>1, <1>2 DEF SchedNext, Step, Pods, ListPod, ListNode, UpdateClusters, Fail,
                          Wake, Crash, Restart

LEMMA RoundUnseen ==
  ASSUME UNCHANGED <<round, cursor>>
  PROVE  /\ UNCHANGED Placement!vars
         /\ \A c : (Refused(c)' <=> Refused(c)) /\ (FitsAfterAll(c)' <=> FitsAfterAll(c))
         /\ \A c, n : TooBig(c, n)' <=> TooBig(c, n)
         /\ Oriented' <=> Oriented
<1>1. UNCHANGED <<curServices, curNodes, rackMap, curClusters, left, phase, target, todo,
                  sent, cursor>>
  BY DEF round
<1>2. \A s : Host(s)' = Host(s)
  BY <1>1 DEF Host
<1>3. UNCHANGED Placement!vars
  BY <1>1, <1>2 DEF Placement!vars
<1>4. \A c : (Refused(c)' <=> Refused(c)) /\ (FitsAfterAll(c)' <=> FitsAfterAll(c))
  BY <1>1 DEF Refused, FitsAfterAll
<1>5. /\ \A n : Here(n)' = Here(n)
      /\ \A r : Demand(r)' = Demand(r)
      /\ \A n, r : Left(n, r)' = Left(n, r)
  BY <1>1, <1>2 DEF Here, Demand, Left, Uncharged, Current
<1>6. \A c, n : TooBig(c, n)' <=> TooBig(c, n)
  BY <1>1, <1>5 DEF TooBig
<1>7. Oriented' <=> Oriented
  BY <1>1 DEF Oriented
<1> QED BY <1>3, <1>4, <1>6, <1>7

(* The types, and in a round, that a cluster being placed is marked.       *)
SearchInv == SchedInv /\ (pc \in {"deploy", "sleep"} => Marked)

LEMMA SearchStep ==
  ASSUME SearchInv, [SchedNext]_schedVars
  PROVE  SearchInv'
<1>1. SchedInv' /\ (pc = "clusters" /\ pc' = "deploy" => Init')
  BY SchedStep DEF SearchInv
<1>2. CASE pc = "clusters" /\ pc' = "deploy"
  BY <1>1, <1>2, MarkedInit, PTL DEF SearchInv
<1>3. CASE pc = "deploy" /\ pc' \in {"deploy", "sleep"}
  <2>1. CASE [Next]_vars
    BY <1>1, <1>3, <2>1, MarkedStep DEF SearchInv
  <2>2. CASE UNCHANGED <<round, cursor>>
    BY <1>1, <1>3, <2>2 DEF SearchInv, SchedInv, BudgetInv, RequestInv, Marked, Current, round
  <2> QED BY <1>3, <2>1, <2>2, RoundSteps
<1>4. CASE pc = "sleep" /\ pc' = "sleep"
  <2>1. UNCHANGED <<round, cursor>>
    BY <1>4 DEF SchedNext, Step, ListPod, ListNode, UpdateClusters, Fail, Deploy_clusters,
       Sleep, Wake, Crash, Restart, Pods, CreatePod, PodDeleted, DeletePod, plan, round,
       schedVars, vars
  <2> QED BY <1>1, <1>4, <2>1 DEF SearchInv, SchedInv, BudgetInv, RequestInv, Marked, Current,
                                  round
<1>5. CASE pc' \notin {"deploy", "sleep"}
  BY <1>1, <1>5 DEF SearchInv
<1>6. \/ pc = "clusters" /\ pc' = "deploy"
      \/ pc = "deploy" /\ pc' \in {"deploy", "sleep"}
      \/ pc = "sleep" /\ pc' = "sleep"
      \/ pc' \notin {"deploy", "sleep"}
  BY DEF SchedNext, Step, ListPod, ListNode, UpdateClusters, Fail, Deploy_clusters, Sleep,
     Wake, Crash, Restart, Pods, CreatePod, PodDeleted, schedVars
<1> QED BY <1>2, <1>3, <1>4, <1>5, <1>6

(* In every round the start is one of module Placement and each step puts  *)
(* a group of services on a node that can hold them, or nothing; and while *)
(* rack map and cursor agree, nothing is refused that fits, and nothing is *)
(* placed farther away than need be (scheduler.go 330-380, utils.go        *)
(* 25-105).                                                                *)
THEOREM EveryStep ==
  SchedSpec =>
    [][/\ pc = "clusters" /\ pc' = "deploy" => Placement!Init'
       /\ pc = "deploy" /\ pc' \in {"deploy", "sleep"} =>
            /\ [Placement!Next]_Placement!vars
            /\ Oriented => \A c \in DOMAIN curClusters : FitsAfterAll(c)' => FitsAfterAll(c)
            /\ Oriented /\ phase = "scan" /\ phase' = "bind" =>
                 \A n \in Candidates(curNodes, Current.profile) :
                    Distance(curNodes[target'], cursor) <= Distance(curNodes[n], cursor)
      ]_schedVars
<1> DEFINE Starts == pc = "clusters" /\ pc' = "deploy" => Placement!Init'
           Places == [Placement!Next]_Placement!vars
           Keeps == Oriented => \A c \in DOMAIN curClusters : FitsAfterAll(c)' => FitsAfterAll(c)
           Near == Oriented /\ phase = "scan" /\ phase' = "bind" =>
                     \A n \in Candidates(curNodes, Current.profile) :
                        Distance(curNodes[target'], cursor) <= Distance(curNodes[n], cursor)
           Steps == pc = "deploy" /\ pc' \in {"deploy", "sleep"} => Places /\ Keeps /\ Near
<1>1. SchedInit => SearchInv
  BY SchedStarts DEF SearchInv, SchedInit
<1>2. SearchInv /\ [SchedNext]_schedVars => SearchInv'
  BY SearchStep
<1>3. SearchInv /\ [SchedNext]_schedVars => Starts
  <2>1. SearchInv /\ [SchedNext]_schedVars => (pc = "clusters" /\ pc' = "deploy" => Init')
    BY SchedStep DEF SearchInv
  <2>2. Init' => Placement!Init'
    BY PlacementInit, PTL
  <2> QED BY <2>1, <2>2
<1>4. SearchInv /\ [SchedNext]_schedVars => Steps
  <2> SUFFICES ASSUME SearchInv, [SchedNext]_schedVars, pc = "deploy",
                      pc' \in {"deploy", "sleep"}
               PROVE  Places /\ Keeps /\ Near
    OBVIOUS
  <2>1. BudgetInv /\ Marked /\ TypeInv
    BY DEF SearchInv, SchedInv, Marked
  <2>2. CASE [Next]_vars
    <3>1. Places
      BY <2>1, <2>2, PlacementStep
    <3>2. Keeps
      BY <2>1, <2>2, MarkedStep
    <3>3. Near
      BY <2>1, <2>2, ClosestStep
    <3> QED BY <3>1, <3>2, <3>3
  <2>3. CASE UNCHANGED <<round, cursor>>
    <3>1. phase' = phase
      BY <2>3 DEF round
    <3> QED BY <2>3, <3>1, RoundUnseen
  <2> QED BY <2>2, <2>3, RoundSteps
<1> QED BY <1>1, <1>2, <1>3, <1>4, PTL DEF SchedSpec

-----------------------------------------------------------------------------
(* What is seen of a round in which nothing is placed.                     *)
LEMMA SameRound ==
  ASSUME InRound, InRound', UNCHANGED <<curServices, rackMap>>,
         DOMAIN curNodes' = DOMAIN curNodes,
         \A n \in DOMAIN curNodes : curNodes'[n].Name = curNodes[n].Name,
         \A s \in DOMAIN curServices : Host(s)' = Host(s),
         podNode' = podNode
  PROVE  UNCHANGED Rounds!roundsVars
BY DEF Rounds!roundsVars, Rounds!vars

(* Outside the rounds there is nothing to see but the pods.                *)
LEMMA NothingSeen ==
  ASSUME ~InRound, ~InRound', podNode' = podNode
  PROVE  UNCHANGED Rounds!roundsVars
BY DEF Rounds!roundsVars, Rounds!vars

(* The first step of a round, the placements and the end of it.           *)
LEMMA RoundBegins ==
  ASSUME ~InRound, InRound', Placement!Init', OncePerPod(curServices)', podNode' = podNode
  PROVE  Rounds!Begin
<1>1. Rounds!NoRound
  BY DEF Rounds!NoRound
<1>2. Rounds!Init'
  BY DEF Placement!Init, Rounds!Init
<1> QED BY <1>1, <1>2 DEF Rounds!Begin, OncePerPod

LEMMA RoundEnded ==
  ASSUME ~InRound', podNode' = podNode
  PROVE  Rounds!End
BY DEF Rounds!End, Rounds!NoRound

LEMMA SumSeen ==
  ASSUME NEW f, NEW S
  PROVE  Rounds!SumFunctionOnSet(f, S) = Placement!SumFunctionOnSet(f, S)
BY DEF Rounds!SumFunctionOnSet, Rounds!FoldFunctionOnSet, Rounds!MapThenFoldSet,
       Placement!SumFunctionOnSet, Placement!FoldFunctionOnSet, Placement!MapThenFoldSet

LEMMA RoundPlaces ==
  ASSUME InRound, InRound', Placement!Next, UNCHANGED curServices, 
         DOMAIN curNodes' = DOMAIN curNodes,
         \A n \in DOMAIN curNodes : curNodes'[n].Name = curNodes[n].Name,
         podNode' = podNode
  PROVE  Rounds!Assign
<1>1. PICK S \in SUBSET DOMAIN curServices,
           n \in {n \in DOMAIN curNodes : curNodes[n].Name # masterNode} : Placement!Place(S, n)
  BY DEF Placement!Next
<1> DEFINE demand == [s \in DOMAIN curServices |-> curServices[s].res]
           room == [k \in DOMAIN curNodes |-> rackMap[k].free]
           open == {k \in DOMAIN curNodes : curNodes[k].Name # masterNode}
           host == [s \in DOMAIN curServices |-> Host(s)]
           demandSeen == IF InRound THEN demand ELSE <<>>
           roomSeen == IF InRound THEN room ELSE <<>>
           openSeen == IF InRound THEN open ELSE {}
           hostSeen == IF InRound THEN host ELSE <<>>
<1>2. /\ demandSeen = demand /\ roomSeen = room /\ openSeen = open /\ hostSeen = host
      /\ demandSeen' = demand' /\ roomSeen' = room' /\ openSeen' = open' /\ hostSeen' = host'
  OBVIOUS
<1>3. /\ \A s \in S : host[s] = {}
      /\ host' = [s \in DOMAIN host |-> IF s \in S THEN {n} ELSE host[s]]
      /\ UNCHANGED <<demand, room, open>>
  BY <1>1 DEF Placement!Place
<1>4. ASSUME NEW r \in Resource
      PROVE  Placement!SumFunctionOnSet([s \in DOMAIN demand |-> demand[s][r]],
                                        Placement!On(host', n)) <= room[n][r]
  BY <1>1 DEF Placement!Place
<1> HIDE DEF demand, room, open, host
<1>5. Placement!On(host', n) = Rounds!On(hostSeen', n)
  BY <1>2 DEF Placement!On, Rounds!On
<1> HIDE DEF demandSeen, roomSeen, openSeen, hostSeen
<1>6. /\ \A s \in S : hostSeen[s] = {}
      /\ hostSeen' = [s \in DOMAIN hostSeen |-> IF s \in S THEN {n} ELSE hostSeen[s]]
      /\ UNCHANGED <<demandSeen, roomSeen, openSeen>>
  BY <1>2, <1>3
<1>7. ASSUME NEW r \in Resource
      PROVE  Rounds!SumFunctionOnSet([s \in DOMAIN demandSeen |-> demandSeen[s][r]],
                                        Rounds!On(hostSeen', n)) <= roomSeen[n][r]
  BY <1>2, <1>4, <1>5, SumSeen
<1>8. Rounds!Place(S, n)
  BY <1>6, <1>7 DEF Rounds!Place, demandSeen, roomSeen, openSeen, hostSeen, demand, room, open, host
<1>9. S \in SUBSET DOMAIN hostSeen /\ n \in openSeen
  BY <1>1, <1>2 DEF host, open
<1>10. Rounds!Next
  BY <1>8, <1>9 DEF Rounds!Next, openSeen, hostSeen, open, host
<1>11. UNCHANGED <<IF InRound THEN [s \in DOMAIN curServices |-> curServices[s].pod] ELSE <<>>,
                   IF InRound THEN [k \in DOMAIN curNodes |-> curNodes[k].Name] ELSE <<>>,
                   podNode>>
  OBVIOUS
<1> QED BY <1>10, <1>11 DEF Rounds!Assign

(* A service is on the node it is being sent to.                           *)
LEMMA RoundBinds ==
  ASSUME InRound, InRound', BudgetInv, NEW s \in DOMAIN curServices, BindPod(s)
  PROVE  Rounds!Bind(s) \/ UNCHANGED Rounds!roundsVars
<1>1. /\ UNCHANGED <<curServices, curNodes, rackMap>>
      /\ phase = "bind" /\ s \in todo
      /\ Binding(curServices[s].pod, curNodes[target].Name)
  BY DEF BindPod, plan
<1>2. target \in DOMAIN curNodes /\ target \in Host(s)
  BY <1>1 DEF BudgetInv, RequestInv, TypeInv, TypeOK, Host
<1>3. \A t \in DOMAIN curServices : Host(t)' = Host(t)
  <2>1. Next /\ ~\E n \in DOMAIN curNodes : ChooseNode(n)
    BY <1>1 DEF ChooseNode, Next, DeployStep
  <2> QED BY <2>1, HostsKept DEF BudgetInv
<1>4. CASE podNode' = podNode
  BY <1>1, <1>3, <1>4, SameRound
<1>5. CASE /\ podNode[curServices[s].pod] = Unbound
           /\ podNode' = [podNode EXCEPT ![curServices[s].pod] = curNodes[target].Name]
  BY <1>1, <1>2, <1>3, <1>5 DEF Rounds!Bind, Rounds!vars
<1> QED BY <1>1, <1>4, <1>5 DEF Binding

(* Pods come and go with or without a round.                               *)
LEMMA PodsSeen ==
  ASSUME podNode \in [Pod -> NodeName \cup {Unbound, Gone}],
         NEW p \in Pod, CreatePod(p) \/ PodDeleted(p)
  PROVE  Rounds!Come(p) \/ Rounds!Leave(p)
<1>1. UNCHANGED <<round, cursor, pc>>
  BY DEF CreatePod, PodDeleted, DeletePod, round, plan
<1>2. \A s : Host(s)' = Host(s)
  BY <1>1 DEF Host, round
<1>3. /\ UNCHANGED <<curServices, curNodes, rackMap>>
      /\ InRound' = InRound
  BY <1>1 DEF round, InRound
<1> QED BY <1>2, <1>3 DEF CreatePod, PodDeleted, DeletePod, Rounds!Come, Rounds!Leave, Rounds!vars

LEMMA RoundsStart == SchedInit => Rounds!RoundsInit
BY DEF SchedInit, InRound, Rounds!RoundsInit, Rounds!NoRound

(* The loop's steps, seen from outside.                                    *)
LEMMA RoundsStep ==
  ASSUME SchedInv, [SchedNext]_schedVars
  PROVE  [Rounds!RoundsNext]_Rounds!roundsVars
<1>1. SchedInv' /\ (pc = "clusters" /\ pc' = "deploy" => Init')
  BY SchedStep
<1>2. CASE Deploy_clusters
  <2>1. pc = "deploy" /\ pc' = "deploy" /\ DeployStep /\ BudgetInv /\ InRound /\ InRound'
    BY <1>2 DEF Deploy_clusters, SchedInv, InRound
  <2>2. ASSUME NEW n \in DOMAIN curNodes, ChooseNode(n)
        PROVE  [Rounds!Assign]_Rounds!roundsVars
    <3>1. UNCHANGED <<curServices, curNodes, rackMap, podNode>>
      BY <2>2 DEF ChooseNode, plan
    <3>2. CASE Placement!Next
      BY <2>1, <3>1, <3>2, RoundPlaces
    <3>3. CASE UNCHANGED Placement!vars
      <4>1. \A s \in DOMAIN curServices : Host(s)' = Host(s)
        <5>1. [s \in DOMAIN curServices |-> Host(s)]' = [s \in DOMAIN curServices |-> Host(s)]
          BY <3>3 DEF Placement!vars
        <5> QED BY <3>1, <5>1
      <4> QED BY <2>1, <3>1, <4>1, SameRound
    <3> QED BY <2>1, <3>2, <3>3, PlacementStep DEF Next
  <2>3. ASSUME NEW s \in DOMAIN curServices, BindPod(s)
        PROVE  Rounds!Bind(s) \/ UNCHANGED Rounds!roundsVars
    BY <2>1, <2>3, RoundBinds
  <2>4. ASSUME SkipCluster \/ RefuseCluster \/ ChargeNode \/ Finish,
               ~\E n \in DOMAIN curNodes : ChooseNode(n)
        PROVE  UNCHANGED Rounds!roundsVars
    <3>1. podNode' = podNode
      BY <2>4 DEF SkipCluster, RefuseCluster, ChargeNode, Finish
    <3>2. /\ UNCHANGED <<curServices, rackMap>>
          /\ DOMAIN curNodes' = DOMAIN curNodes
          /\ \A n \in DOMAIN curNodes : curNodes'[n].Name = curNodes[n].Name
      BY <2>1, <2>4, NothingPlaced DEF BudgetInv, Next
    <3>3. \A s \in DOMAIN curServices : Host(s)' = Host(s)
      BY <2>1, <2>4, HostsKept DEF BudgetInv, Next
    <3> QED BY <2>1, <3>1, <3>2, <3>3, SameRound
  <2>5. \A s \in DOMAIN curServices :
           s \in DOMAIN (IF InRound THEN [t \in DOMAIN curServices |-> curServices[t].pod]
                                    ELSE <<>>)
    BY <2>1
  <2> QED BY <2>1, <2>2, <2>3, <2>4, <2>5 DEF DeployStep, Rounds!RoundsNext
<1>3. CASE UpdateClusters
  <2>1. ~InRound /\ InRound' /\ podNode' = podNode
    BY <1>3 DEF UpdateClusters, InRound
  <2>2. Init'
    BY <1>1, <1>3 DEF UpdateClusters
  <2>3. Placement!Init' /\ OncePerPod(curServices)'
    BY <2>2, PlacementInit, PTL DEF Init
  <2> QED BY <2>1, <2>3, RoundBegins DEF Rounds!RoundsNext
<1>4. CASE ListPod \/ Fail \/ Restart \/ (\E nodes \in NodeLists : ListNode(nodes))
  <2>1. ~InRound /\ ~InRound' /\ podNode' = podNode
    BY <1>4 DEF ListPod, Fail, Restart, ListNode, InRound, vars
  <2> QED BY <2>1, NothingSeen
<1>5. CASE Wake \/ Crash
  <2>1. ~InRound' /\ podNode' = podNode
    BY <1>5 DEF Wake, Crash, InRound, vars
  <2> QED BY <2>1, RoundEnded DEF Rounds!RoundsNext
<1>6. CASE Sleep
  <2>1. InRound /\ InRound' /\ UNCHANGED vars
    BY <1>6 DEF Sleep, InRound
  <2>2. \A s : Host(s)' = Host(s)
    BY <2>1 DEF vars, Host
  <2> QED BY <2>1, <2>2, SameRound DEF vars
<1>7. ASSUME NEW p \in Pod, CreatePod(p) \/ PodDeleted(p)
      PROVE  Rounds!RoundsNext
  <2>1. p \in DOMAIN podNode
    BY DEF SchedInv
  <2> QED BY <1>7, <2>1, PodsSeen DEF Rounds!RoundsNext, SchedInv
<1>8. CASE UNCHANGED schedVars
  <2>1. InRound' = InRound /\ UNCHANGED vars
    BY <1>8 DEF schedVars, InRound
  <2>2. \A s : Host(s)' = Host(s)
    BY <2>1 DEF vars, Host
  <2>3. UNCHANGED <<curServices, curNodes, rackMap, podNode>>
    BY <2>1 DEF vars
  <2> QED BY <2>1, <2>2, <2>3, SameRound, NothingSeen
<1> QED BY <1>2, <1>3, <1>4, <1>5, <1>6, <1>7, <1>8 DEF SchedNext, Step, Pods

(* The loop, from outside: one round after the other, each a placement of  *)
(* what was listed, and no pod bound but one that waits, to the node its   *)
(* round put it on (scheduler.go 383-396, 330-380, utils.go 268-284).      *)
THEOREM RoundsImplemented == SchedSpec => ImplementsRounds
<1>1. SchedInit => Rounds!RoundsInit
  BY RoundsStart
<1>2. SchedInv /\ [SchedNext]_schedVars => [Rounds!RoundsNext]_Rounds!roundsVars
  BY RoundsStep
<1> QED BY <1>1, <1>2, SchedAlways, PTL DEF SchedSpec, ImplementsRounds, Rounds!RoundsSpec

(* Though each round lists, places and tries to bind the running pods      *)
(* again (scheduler.go 401), no pod that has a node is ever moved: it      *)
(* stays there until it is deleted, as the API refuses to bind it twice    *)
(* and the error is only printed (utils.go 279).                           *)
THEOREM NothingMoved ==
  SchedSpec => [][\A p \in Pod : podNode[p] \notin {Unbound, Gone} =>
                     podNode'[p] \in {podNode[p], Gone}]_schedVars
<1> DEFINE Stays == \A p \in Pod : podNode[p] \notin {Unbound, Gone} =>
                       podNode'[p] \in {podNode[p], Gone}
<1>1. SchedInv /\ [SchedNext]_schedVars => Stays
  <2> SUFFICES ASSUME SchedInv, [SchedNext]_schedVars
               PROVE  Stays
    OBVIOUS
  <2>1. podNode \in [Pod -> NodeName \cup {Unbound, Gone}]
    BY DEF SchedInv
  <2>2. CASE podNode' = podNode
    BY <2>2
  <2>3. ASSUME NEW p \in Pod, NEW node, podNode[p] \in {Unbound, Gone} \/ node = Gone,
               podNode' = [podNode EXCEPT ![p] = node]
        PROVE  Stays
    BY <2>1, <2>3
  <2>4. CASE \E s \in DOMAIN curServices : pc = "deploy" /\ BindPod(s)
    <3>1. PICK s \in DOMAIN curServices : pc = "deploy" /\ BindPod(s)
      BY <2>4
    <3>2. curServices[s].pod \in Pod
      BY <3>1 DEF SchedInv, BudgetInv, RequestInv, TypeInv, TypeOK, Service
    <3> QED BY <2>2, <2>3, <3>1, <3>2 DEF BindPod, Binding
  <2>5. CASE Pods
    BY <2>3, <2>5 DEF Pods, CreatePod, PodDeleted, DeletePod
  <2> QED BY <2>2, <2>4, <2>5 DEF SchedNext, Step, ListPod, ListNode, UpdateClusters, Fail,
             Deploy_clusters, Sleep, Wake, Crash, Restart, DeployStep, SkipCluster,
             RefuseCluster, ChooseNode, ChargeNode, Finish, vars, schedVars
<1>2. SchedInv /\ [SchedNext]_schedVars => [Stays]_schedVars
  BY <1>1
<1> HIDE DEF Stays
<1>3. SchedSpec => [][Stays]_schedVars
  BY <1>2, SchedAlways, PTL DEF SchedSpec
<1> QED BY <1>3 DEF Stays

(* The same in every round: no round makes more steps than its work was at *)
(* its start.                                                              *)
THEOREM EveryRoundShortens ==
  SchedSpec => [][Deploy_clusters => Work \in Nat /\ Work' < Work]_schedVars
<1>1. SchedInv /\ [SchedNext]_schedVars =>
         [Deploy_clusters => Work \in Nat /\ Work' < Work]_schedVars
  BY WorkNat, WorkLess DEF SchedInv, Deploy_clusters
<1> QED BY <1>1, SchedAlways, PTL DEF SchedSpec

-----------------------------------------------------------------------------
(* The cursor is taken over from round to round, while the nodes are       *)
(* listed anew.  It stays of use when main's and that of any node listed   *)
(* once points into every list: then no round breaks up a cluster in vain. *)
CursorStays ==
  \A nodes \in NodeLists :
     /\ Regular(nodes)
     /\ CursorOK(nodes, StartCursor)
     /\ \A others \in NodeLists : \A n \in DOMAIN others : CursorOK(nodes, CursorAt(others[n]))

(* It is so when the listings fail altogether or find the same machines,   *)
(* each in its place, those of the cursor of main among them: of the lists *)
(* that are not empty, each node has its counterpart in the others.        *)
LEMMA SameMachines ==
  ASSUME \A nodes \in NodeLists : Regular(nodes) /\ CursorOK(nodes, StartCursor),
         \A nodes, others \in NodeLists :
            DOMAIN nodes = {} \/ \A n \in DOMAIN others : \E k \in DOMAIN nodes :
               CursorAt(nodes[k]) = CursorAt(others[n])
  PROVE  CursorStays
<1> SUFFICES ASSUME NEW nodes \in NodeLists, NEW others \in NodeLists,
                    NEW n \in DOMAIN others
             PROVE  CursorOK(nodes, CursorAt(others[n]))
  BY DEF CursorStays
<1>1. CASE DOMAIN nodes = {}
  BY <1>1 DEF CursorOK, Racks
<1>2. CASE DOMAIN nodes # {}
  <2>1. PICK k \in DOMAIN nodes : CursorAt(nodes[k]) = CursorAt(others[n])
    BY <1>2
  <2> DEFINE from == CursorAt(nodes[k])
  <2>2. from.rack = nodes[k].Rack /\ from.pm = nodes[k].PM /\ from.vm = nodes[k].Name
    BY DEF CursorAt
  <2>3. \A i, j \in DOMAIN nodes : nodes[i].Name = nodes[j].Name => i = j
    BY SchedulerAssumption DEF OncePerNode
  <2>4. DOMAIN nodes \subseteq Nat /\ Regular(nodes)
    BY SchedulerAssumption
  <2>5. CursorOK(nodes, from)
    <3> HIDE DEF from
    <3> QED BY <2>2, <2>3, <2>4, CursorFollows
  <2> QED BY <2>1, <2>5
<1> QED BY <1>1, <1>2

CursorInv ==
  /\ SearchInv
  /\ \A nodes \in NodeLists : CursorOK(nodes, cursor)
  /\ pc \in {"clusters", "deploy", "sleep"} => rackMap \in NodeLists
  /\ pc \in {"deploy", "sleep"} => VainInv

LEMMA CursorStep ==
  ASSUME CursorStays, CursorInv, [SchedNext]_schedVars
  PROVE  CursorInv'
<1>1. SearchInv' /\ (pc = "clusters" /\ pc' = "deploy" => Init')
  BY SearchStep, SchedStep DEF CursorInv, SearchInv
<1>2. CASE ~Deploy_clusters
  <2>1. cursor' \in {cursor, StartCursor}
    BY <1>2 DEF SchedNext, Step, ListPod, ListNode, UpdateClusters, Fail, Sleep, Wake, Crash,
       Restart, Pods, CreatePod, PodDeleted, DeletePod, schedVars, vars
  <2>2. \A nodes \in NodeLists : CursorOK(nodes, cursor')
    BY <2>1 DEF CursorInv, CursorStays
  <2>3. pc' \in {"clusters", "deploy", "sleep"} => rackMap' \in NodeLists
    BY <1>2 DEF CursorInv, SchedNext, Step, ListPod, ListNode, UpdateClusters, Fail, Sleep, Wake,
       Crash, Restart, Pods, CreatePod, PodDeleted, DeletePod, plan, round, schedVars, vars
  <2>4. CASE pc = "clusters" /\ pc' = "deploy"
    <3>1. Oriented'
      BY <2>2, <2>3, <2>4 DEF CursorStays, Oriented
    <3>2. VainInv'
      BY <1>1, <2>4, <3>1, VainInit, PTL
    <3> QED BY <1>1, <2>2, <2>3, <3>2 DEF CursorInv
  <2>5. CASE pc \in {"deploy", "sleep"} /\ pc' \in {"deploy", "sleep"}
    <3>1. [Next]_vars \/ UNCHANGED <<round, cursor>>
      BY <1>2, <2>5 DEF SchedNext, Step, ListPod, ListNode, UpdateClusters, Fail, Sleep, Wake,
         Crash, Restart, Pods, CreatePod, PodDeleted, Next, schedVars
    <3>2. CASE [Next]_vars
      BY <1>1, <2>2, <2>3, <2>5, <3>2, VainStep DEF CursorInv
    <3>3. CASE UNCHANGED <<round, cursor>>
      <4>1. UNCHANGED <<curClusters, curNodes>>
        BY <3>3 DEF round
      <4>2. BudgetInv' /\ Marked'
        BY <1>1, <2>5 DEF SearchInv, SchedInv
      <4>3. VainInv'
        BY <2>5, <3>3, <4>1, <4>2, RoundUnseen DEF CursorInv, VainInv
      <4> QED BY <1>1, <2>2, <2>3, <4>3 DEF CursorInv
    <3> QED BY <3>1, <3>2, <3>3
  <2>6. \/ pc = "clusters" /\ pc' = "deploy"
        \/ pc \in {"deploy", "sleep"} /\ pc' \in {"deploy", "sleep"}
        \/ pc' \notin {"deploy", "sleep"}
    BY DEF SchedNext, Step, ListPod, ListNode, UpdateClusters, Fail, Deploy_clusters, Sleep,
       Wake, Crash, Restart, Pods, CreatePod, PodDeleted, schedVars
  <2> QED BY <1>1, <2>2, <2>3, <2>4, <2>5, <2>6 DEF CursorInv
<1>3. CASE Deploy_clusters
  <2>1. /\ pc = "deploy" /\ pc' = "deploy" /\ Next
        /\ UNCHANGED rackMap
    BY <1>3 DEF Deploy_clusters, Next, DeployStep, SkipCluster, RefuseCluster, ChooseNode, BindPod,
       ChargeNode, Finish, plan
  <2>2. VainInv /\ VainInv' /\ rackMap' \in NodeLists
    BY <2>1, VainStep DEF CursorInv
  <2>3. TypeInv
    BY <2>2 DEF VainInv, Marked
  <2>4. cursor' = cursor \/ \E n \in DOMAIN rackMap : cursor' = CursorAt(rackMap[n])
    <3>1. CASE ChargeNode
      <4>1. target \in DOMAIN rackMap /\ cursor' = CursorAt(curNodes[target])
        BY <2>3, <3>1 DEF ChargeNode, TypeInv, TypeOK
      <4>2. CursorAt(curNodes[target]) = CursorAt(rackMap[target])
        BY <2>3, <4>1 DEF CursorAt, TypeInv, TypeOK, Shape
      <4> QED BY <4>1, <4>2
    <3>2. CASE ~ChargeNode
      BY <1>3, <3>2 DEF Deploy_clusters, DeployStep, SkipCluster, RefuseCluster, ChooseNode,
         BindPod, Finish
    <3> QED BY <3>1, <3>2
  <2>5. \A nodes \in NodeLists : CursorOK(nodes, cursor')
    BY <2>1, <2>2, <2>4 DEF CursorInv, CursorStays
  <2> QED BY <1>1, <2>1, <2>2, <2>5 DEF CursorInv
<1> QED BY <1>2, <1>3

(* However many rounds there were, and however often the process was       *)
(* started again, no round breaks up a cluster that could have stayed      *)
(* together where its parts went (scheduler.go 330-380), while the         *)
(* machines stay where they are.                                           *)
THEOREM NeverInVain ==
  ASSUME CursorStays
  PROVE  SchedSpec => [](pc \in {"deploy", "sleep"} => Oriented /\ NeverSplitInVain)
<1>1. SchedInit => CursorInv
  BY SchedStarts DEF CursorInv, SearchInv, SchedInit, CursorStays
<1>2. CursorInv /\ [SchedNext]_schedVars => CursorInv'
  BY CursorStep
<1>3. CursorInv => (pc \in {"deploy", "sleep"} => Oriented /\ NeverSplitInVain)
  BY VainWhole DEF CursorInv, VainInv
<1> QED BY <1>1, <1>2, <1>3, PTL DEF SchedSpec

-----------------------------------------------------------------------------
(* Why only athena pods are asked for.  When their namespace is listed     *)
(* first the athena pods have the lowest Ids, so the rows of the service   *)
(* map, as many as there are athena pods, are theirs.                      *)
AthenaLow ==
  \A s, t \in DOMAIN curServices :
     s < t /\ curServices[t].pod \in Athena => curServices[s].pod \in Athena

LEMMA LowNow == AthenaListedFirst /\ ListPod => AthenaLow'
<1> SUFFICES ASSUME AthenaListedFirst, ListPod,
                    NEW s \in {Id(i) : i \in Existing}, NEW t \in {Id(i) : i \in Existing},
                    s < t, PodWithId(t) \in Athena
             PROVE  PodWithId(s) \in Athena
  BY DEF ListPod, AthenaLow
<1>1. PICK i \in Existing : s = Id(i)
  OBVIOUS
<1>2. PICK j \in Existing : t = Id(j)
  OBVIOUS
<1>3. Id(i) \in Nat /\ Id(j) \in Nat /\ i \in Nat /\ j \in Nat
  BY ExistingFinite, IdsInOrder
<1>4. i < j
  <2>1. ~(j < i) /\ i # j
    BY <1>1, <1>2, <1>3, IdsInOrder
  <2> QED BY <2>1, <1>3
<1>5. PodWithId(s) = Listing[i] /\ PodWithId(t) = Listing[j]
  BY <1>1, <1>2, PodsListed
<1> QED BY <1>4, <1>5, ExistingFinite DEF AthenaListedFirst

LEMMA RowsAreAthena ==
  ASSUME PodsRead, AthenaLow, NEW k \in 0 .. (MapSize - 1)
  PROVE  curServices[k].pod \in Athena
<1>1. /\ MapSize \in Nat /\ 0 .. (MapSize - 1) \subseteq DOMAIN curServices
      /\ AthenaIds \subseteq DOMAIN curServices
      /\ k \in DOMAIN curServices /\ k \in Nat /\ k < MapSize
      /\ DOMAIN curServices \subseteq Nat
  BY MapInList DEF PodsRead
<1>2. SUFFICES ASSUME curServices[k].pod \notin Athena
               PROVE  FALSE
  OBVIOUS
<1>3. AthenaIds \subseteq 0 .. (k - 1)
  <2> SUFFICES ASSUME NEW t \in AthenaIds
               PROVE  t \in Nat /\ t < k
    BY <1>1
  <2>1. t \in DOMAIN curServices /\ curServices[t].pod \in Athena /\ t \in Nat
    BY <1>1 DEF AthenaIds
  <2>2. ~(k < t) /\ k # t
    BY <2>1, <1>1, <1>2 DEF AthenaLow
  <2> QED BY <2>1, <2>2, <1>1
<1>4. IsFiniteSet(0 .. (k - 1)) /\ Cardinality(0 .. (k - 1)) = k
  <2>1. 0 \in Int /\ k - 1 \in Int /\ (0 > k - 1 => k = 0)
    BY <1>1
  <2>2. /\ IsFiniteSet(0 .. (k - 1))
        /\ Cardinality(0 .. (k - 1)) = IF 0 > k - 1 THEN 0 ELSE (k - 1) - 0 + 1
    BY <2>1, FS_Interval, Zenon
  <2> QED BY <1>1, <2>1, <2>2
<1>5. Cardinality(AthenaIds) <= k
  <2>1. Cardinality(AthenaIds) <= Cardinality(0 .. (k - 1))
    BY <1>3, <1>4, FS_Subset, Zenon
  <2> QED BY <1>4, <2>1
<1> QED BY <1>1, <1>5 DEF MapSize

AthenaInv ==
  /\ SchedInv
  /\ OnlyAthena
  /\ pc \in {"nodes", "clusters"} => AthenaLow
  /\ pc = "deploy" =>
        /\ \A c \in DOMAIN curClusters : \A s \in curClusters[c].services :
              curServices[s].pod \in Athena
        /\ \A s \in todo : curServices[s].pod \in Athena

LEMMA AthenaStep ==
  ASSUME AthenaListedFirst, AthenaInv, [SchedNext]_schedVars
  PROVE  AthenaInv'
<1> DEFINE Rows == \A c \in DOMAIN curClusters : \A s \in curClusters[c].services :
                      curServices[s].pod \in Athena
           Todo == \A s \in todo : curServices[s].pod \in Athena
<1>1. SchedInv /\ SchedInv'
  BY SchedStep DEF AthenaInv
<1>2. CASE ListPod
  BY <1>1, <1>2, LowNow DEF ListPod, AthenaInv, OnlyAthena
<1>3. ASSUME NEW nodes \in NodeLists, ListNode(nodes)
      PROVE  AthenaInv'
  BY <1>1, <1>3 DEF ListNode, AthenaInv, OnlyAthena, AthenaLow
<1>4. CASE UpdateClusters
  <2>1. PICK file \in C!Files(MapSize) : curClusters' = C!LoadClusters(curServices, file)
    BY <1>4 DEF UpdateClusters
  <2>2. /\ pc = "clusters" /\ pc' = "deploy" /\ MapSize >= 2
        /\ todo' = {} /\ sent' = [p \in Pod |-> {}] /\ curServices' = curServices
    BY <1>4 DEF UpdateClusters
  <2>3. PodsRead /\ AthenaLow
    BY <1>1, <2>2 DEF SchedInv, AthenaInv
  <2>4. \A c \in DOMAIN curClusters' : curClusters'[c].services \subseteq 0 .. (MapSize - 1)
    BY <2>1, <2>2, <2>3, Loaded
  <2>5. \A c \in DOMAIN curClusters' : \A s \in curClusters'[c].services :
           curServices'[s].pod \in Athena
    BY <2>2, <2>3, <2>4, RowsAreAthena
  <2> QED BY <1>1, <2>2, <2>5 DEF AthenaInv, OnlyAthena
<1>5. CASE Fail \/ Crash \/ Wake \/ Sleep
  BY <1>1, <1>5 DEF Fail, Crash, Wake, Sleep, vars, AthenaInv, OnlyAthena
<1>6. CASE Restart
  BY <1>1, <1>6 DEF Restart, AthenaInv, OnlyAthena
<1>7. CASE Deploy_clusters
  <2>1. pc = "deploy" /\ pc' = "deploy" /\ DeployStep
    BY <1>7 DEF Deploy_clusters
  <2>2. Rows /\ Todo /\ OnlyAthena /\ TypeInv
    BY <2>1, <1>1 DEF AthenaInv, SchedInv, BudgetInv, RequestInv
  <2>3. SUFFICES (Rows /\ Todo /\ OnlyAthena)'
    BY <1>1, <2>1 DEF AthenaInv
  <2>4. CASE SkipCluster \/ RefuseCluster \/ ChargeNode \/ Finish
    BY <2>2, <2>4 DEF SkipCluster, RefuseCluster, ChargeNode, Finish, plan, OnlyAthena
  <2>5. ASSUME NEW n \in DOMAIN curNodes, ChooseNode(n)
        PROVE  (Rows /\ Todo /\ OnlyAthena)'
    <3>1. left - 1 \in DOMAIN curClusters
      BY <2>2, <2>5 DEF ChooseNode, TypeInv, TypeOK, Shape
    <3>2. /\ curClusters' = MarkDeployed(curClusters, left - 1) /\ todo' = Current.services
          /\ UNCHANGED <<curServices, sent>>
      BY <2>5 DEF ChooseNode
    <3>3. /\ DOMAIN curClusters' = DOMAIN curClusters
          /\ \A d \in DOMAIN curClusters : curClusters'[d].services = curClusters[d].services
      BY <2>2, <3>1, <3>2, MarkType DEF TypeInv, TypeOK
    <3> QED BY <2>2, <3>1, <3>2, <3>3 DEF Current, OnlyAthena
  <2>6. ASSUME NEW s \in DOMAIN curServices, BindPod(s)
        PROVE  (Rows /\ Todo /\ OnlyAthena)'
    <3>1. /\ UNCHANGED <<curServices, curClusters>> /\ todo' = todo \ {s} /\ s \in todo
          /\ sent' = [sent EXCEPT ![curServices[s].pod] = @ \cup {curNodes[target].Name}]
      BY <2>6 DEF BindPod, plan
    <3>2. sent \in [Pod -> SUBSET NodeName]
      BY <2>2 DEF TypeInv, TypeOK
    <3>3. OnlyAthena'
      BY <2>2, <3>1, <3>2 DEF OnlyAthena
    <3> QED BY <2>2, <3>1, <3>3
  <2> QED BY <2>1, <2>4, <2>5, <2>6 DEF DeployStep
<1>8. ASSUME NEW p \in Pod, CreatePod(p) \/ PodDeleted(p)
      PROVE  AthenaInv'
  BY <1>1, <1>8 DEF CreatePod, PodDeleted, DeletePod, round, plan, AthenaInv, OnlyAthena, AthenaLow
<1>9. CASE UNCHANGED schedVars
  BY <1>1, <1>9 DEF schedVars, vars, AthenaInv, OnlyAthena, AthenaLow
<1> QED BY <1>2, <1>3, <1>4, <1>5, <1>6, <1>7, <1>8, <1>9 DEF SchedNext, Step, Pods

(* A pod outside "athena" is never asked to be bound while "athena" comes  *)
(* first in the listing (scheduler.go 303-306, 452-459); when it does not, *)
(* a run shows how one is.                                                 *)
THEOREM AthenaOnly ==
  ASSUME AthenaListedFirst
  PROVE  SchedSpec => []OnlyAthena
<1>1. SchedInit => AthenaInv
  BY SchedStarts DEF AthenaInv, SchedInit, OnlyAthena
<1>2. AthenaInv /\ [SchedNext]_schedVars => AthenaInv'
  BY AthenaStep
<1>3. AthenaInv => OnlyAthena
  BY DEF AthenaInv
<1> QED BY <1>1, <1>2, <1>3, PTL DEF SchedSpec

-----------------------------------------------------------------------------
(* Why the rack map is regular, whichever samples are missing.  A node's   *)
(* PM and rack are stored together, from one sample, or not at all; so the *)
(* list is regular when the labels themselves are: no PM is labelled with  *)
(* two racks, and no PM with "", which Prometheus takes for no label.      *)
M == INSTANCE Machines

Placed(metric) == M!Has(metric, "PM") /\ M!Has(metric, "RACK")

PlacesAgree(samples) ==
  \A i, j \in DOMAIN samples :
     LET a == samples[i].metric
         b == samples[j].metric
     IN Placed(a) /\ Placed(b) =>
          /\ a["PM"] # ""
          /\ a["PM"] = b["PM"] => a["RACK"] = b["RACK"]

LEMMA LastExists ==
  ASSUME NEW n \in Nat, NEW S, S \subseteq 1 .. n, S # {}
  PROVE  M!Max(S) \in S
<1> DEFINE T == {k \in 0 .. n : n - k \in S}
<1>1. PICK x \in S : x \in 1 .. n
  OBVIOUS
<1>2. n - x \in T
  BY <1>1
<1>3. T \subseteq Nat /\ T # {}
  <2>1. T \subseteq Nat
    OBVIOUS
  <2> HIDE DEF T
  <2> QED BY <1>2, <2>1
<1>4. Lowest(T) \in T /\ \A k \in T : Lowest(T) <= k
  <2> HIDE DEF T
  <2> QED BY <1>3, LowestExists
<1>5. /\ Lowest(T) \in 0 .. n /\ n - Lowest(T) \in S
      /\ \A k \in T : Lowest(T) <= k
  BY <1>4
<1>6. \A y \in S : n - Lowest(T) >= y
  <2> TAKE y \in S
  <2>1. y \in 1 .. n /\ n - y \in T
    OBVIOUS
  <2>2. Lowest(T) <= n - y
    BY <1>5, <2>1
  <2> QED BY <1>5, <2>1, <2>2
<1> QED BY <1>5, <1>6 DEF M!Max

(* What getNodeCPUMem stores as the PM and the rack of a node.             *)
LEMMA PlaceStored ==
  ASSUME NEW samples, NEW l \in Nat, DOMAIN samples = 1 .. l, NEW name
  PROVE  \/ /\ M!PlaceLabel(samples, name, "PM") = ""
            /\ M!PlaceLabel(samples, name, "RACK") = ""
         \/ \E i \in DOMAIN samples :
               /\ Placed(samples[i].metric)
               /\ M!PlaceLabel(samples, name, "PM") = samples[i].metric["PM"]
               /\ M!PlaceLabel(samples, name, "RACK") = samples[i].metric["RACK"]
<1> DEFINE from == M!Stores(samples, name, {"PM", "RACK"})
<1>1. from \subseteq 1 .. l
  BY DEF M!Stores
<1>2. \A i \in from : i \in DOMAIN samples /\ Placed(samples[i].metric)
  BY DEF M!Stores, Placed
<1>3. /\ from = {} => /\ M!PlaceLabel(samples, name, "PM") = ""
                      /\ M!PlaceLabel(samples, name, "RACK") = ""
      /\ from # {} => /\ M!PlaceLabel(samples, name, "PM") = samples[M!Max(from)].metric["PM"]
                      /\ M!PlaceLabel(samples, name, "RACK") = samples[M!Max(from)].metric["RACK"]
  BY DEF M!PlaceLabel
<1> HIDE DEF from
<1>4. from # {} => M!Max(from) \in from
  BY <1>1, LastExists
<1> QED BY <1>2, <1>3, <1>4

(* The rack map of any query whose labels agree (utils.go 224-265).        *)
THEOREM LabelledRacks ==
  ASSUME NEW nodeList, Len(nodeList) \in Nat, NEW cpu, NEW mem,
         NEW l \in Nat, DOMAIN M!ToSample(mem) = 1 .. l,
         PlacesAgree(M!ToSample(mem))
  PROVE  Regular(M!getNodeCPUMem(nodeList, cpu, mem))
<1> DEFINE nodes == M!getNodeCPUMem(nodeList, cpu, mem)
           samples == M!ToSample(mem)
           pm(n) == M!PlaceLabel(samples, nodeList[n + 1], "PM")
           rack(n) == M!PlaceLabel(samples, nodeList[n + 1], "RACK")
<1>1. /\ DOMAIN nodes = 0 .. (Len(nodeList) - 1)
      /\ \A n \in DOMAIN nodes : nodes[n].PM = pm(n) /\ nodes[n].Rack = rack(n)
  BY DEF M!getNodeCPUMem
<1>2. DOMAIN nodes \subseteq Nat
  BY <1>1
<1>3. ASSUME NEW m \in DOMAIN nodes, NEW n \in DOMAIN nodes, nodes[m].PM = nodes[n].PM
      PROVE  nodes[m].Rack = nodes[n].Rack
  <2> SUFFICES rack(m) = rack(n)
    BY <1>1
  <2>1. pm(m) = pm(n)
    BY <1>1, <1>3
  <2>2. \A k : \/ pm(k) = "" /\ rack(k) = ""
               \/ \E i \in DOMAIN samples : /\ Placed(samples[i].metric)
                                            /\ pm(k) = samples[i].metric["PM"]
                                            /\ rack(k) = samples[i].metric["RACK"]
    <3> HIDE DEF samples
    <3> QED BY PlaceStored DEF samples
  <2>3. \A i, j \in DOMAIN samples :
           Placed(samples[i].metric) /\ Placed(samples[j].metric) =>
              /\ samples[i].metric["PM"] # ""
              /\ samples[i].metric["PM"] = samples[j].metric["PM"] =>
                    samples[i].metric["RACK"] = samples[j].metric["RACK"]
    <3> HIDE DEF Placed
    <3> QED BY DEF PlacesAgree
  <2> HIDE DEF pm, rack, samples
  <2>4. ASSUME NEW k, pm(k) = ""
        PROVE  rack(k) = ""
    <3> SUFFICES ASSUME NEW i \in DOMAIN samples, Placed(samples[i].metric),
                        pm(k) = samples[i].metric["PM"]
                 PROVE  FALSE
      BY <2>2
    <3>1. samples[i].metric["PM"] # ""
      BY <2>3
    <3> QED BY <2>4, <3>1
  <2>5. CASE pm(m) = ""
    BY <2>1, <2>4, <2>5
  <2>6. CASE pm(m) # ""
    <3>1. PICK i \in DOMAIN samples : /\ Placed(samples[i].metric)
                                     /\ pm(m) = samples[i].metric["PM"]
                                     /\ rack(m) = samples[i].metric["RACK"]
      BY <2>2, <2>6
    <3>2. PICK j \in DOMAIN samples : /\ Placed(samples[j].metric)
                                     /\ pm(n) = samples[j].metric["PM"]
                                     /\ rack(n) = samples[j].metric["RACK"]
      BY <2>1, <2>2, <2>6
    <3>3. samples[i].metric["PM"] = samples[j].metric["PM"]
      BY <2>1, <3>1, <3>2
    <3> QED BY <2>3, <3>1, <3>2, <3>3
  <2> QED BY <2>5, <2>6
<1> HIDE DEF nodes
<1>4. ASSUME NEW n \in DOMAIN nodes
      PROVE  ListedRack(nodes, n) = nodes[n].Rack
  <2> DEFINE same == {m \in DOMAIN nodes : nodes[m].PM = nodes[n].PM}
  <2>1. Lowest(same) \in same
    <3>1. same \subseteq Nat /\ same # {}
      BY <1>2
    <3> HIDE DEF same
    <3> QED BY <3>1, LowestExists
  <2>2. /\ FirstOfPM(nodes, nodes[n].PM) \in DOMAIN nodes
        /\ nodes[FirstOfPM(nodes, nodes[n].PM)].PM = nodes[n].PM
    BY <2>1 DEF FirstOfPM
  <2> QED BY <1>3, <2>2 DEF ListedRack
<1> QED BY <1>4 DEF Regular, nodes

(* No round searches a rack map in which a PM is listed in two racks       *)
(* (utils.go 224-265), when ListNode lists what queries report whose       *)
(* labels agree.                                                           *)
THEOREM RacksRegular ==
  ASSUME \A nodes \in NodeLists : \E nodeList \in Seq(NodeName) : \E cpu, mem :
            /\ nodes = M!getNodeCPUMem(nodeList, cpu, mem)
            /\ \E l \in Nat : DOMAIN M!ToSample(mem) = 1 .. l
            /\ PlacesAgree(M!ToSample(mem))
  PROVE  SchedSpec => []RacksStayRegular
<1>1. \A nodes \in NodeLists : Regular(nodes)
  <2> TAKE nodes \in NodeLists
  <2>1. PICK nodeList \in Seq(NodeName) : \E cpu, mem :
          /\ nodes = M!getNodeCPUMem(nodeList, cpu, mem)
          /\ \E l \in Nat : DOMAIN M!ToSample(mem) = 1 .. l
          /\ PlacesAgree(M!ToSample(mem))
    OBVIOUS
  <2>2. PICK cpu, mem :
          /\ nodes = M!getNodeCPUMem(nodeList, cpu, mem)
          /\ \E l \in Nat : DOMAIN M!ToSample(mem) = 1 .. l
          /\ PlacesAgree(M!ToSample(mem))
    BY <2>1
  <2> QED BY <2>2, LabelledRacks, LenProperties
<1>2. SchedInit => RacksStayRegular
  BY DEF SchedInit, RacksStayRegular
<1>3. RacksStayRegular /\ [SchedNext]_schedVars => RacksStayRegular'
  <2> SUFFICES ASSUME RacksStayRegular, [SchedNext]_schedVars, pc' \in {"clusters", "deploy"}
               PROVE  Regular(rackMap')
    BY DEF RacksStayRegular
  <2>1. CASE \E nodes \in NodeLists : ListNode(nodes)
    BY <1>1, <2>1 DEF ListNode
  <2>2. CASE ~\E nodes \in NodeLists : ListNode(nodes)
    <3>1. rackMap' = rackMap /\ pc \in {"clusters", "deploy"}
      BY <2>2 DEF SchedNext, Step, Pods, ListPod, UpdateClusters, Fail, Crash, Wake, Sleep, Restart,
         Deploy_clusters, DeployStep, SkipCluster, RefuseCluster, ChooseNode, BindPod, ChargeNode,
         Finish, plan, CreatePod, PodDeleted, DeletePod, round, schedVars, vars
    <3> QED BY <3>1 DEF RacksStayRegular
  <2> QED BY <2>1, <2>2
<1> QED BY <1>2, <1>3, PTL DEF SchedSpec
=============================================================================
