--------------------------- MODULE PrototypeProofs --------------------------
(***************************************************************************)
(* A round of the first prototype, for every list of services and          *)
(* machines, every file of clusters and every order of its keys.           *)
(***************************************************************************)
EXTENDS Prototype, FiniteFacts

Key == 0 .. (Cardinality(DOMAIN rows) - 1)

(* A module taken with INSTANCE brings its own copy of the library's sum.  *)
LEMMA SameSum ==
  ASSUME NEW f, NEW S
  PROVE  C!SumFunctionOnSet(f, S) = SumFunctionOnSet(f, S)
BY DEF C!SumFunctionOnSet, C!FoldFunctionOnSet, C!MapThenFoldSet,
       SumFunctionOnSet, FoldFunctionOnSet, MapThenFoldSet

(* The profile of a cluster is made of natural numbers.                    *)
LEMMA ProfileQuantities ==
  ASSUME NEW S \in SUBSET DOMAIN services
  PROVE  C!Profile(services, S) \in Quantities
<1>1. IsFiniteSet(S)
  BY PrototypeAssumption, FS_Subset
<1>2. ASSUME NEW r \in Resource
      PROVE  C!SumFunctionOnSet([s \in DOMAIN services |-> services[s].res[r]], S) \in Nat
  <2> DEFINE f == [s \in DOMAIN services |-> services[s].res[r]]
  <2>1. \A s \in S : f[s] \in Nat
    BY PrototypeAssumption DEF Quantities
  <2>2. C!SumFunctionOnSet(f, S) \in Nat
    <3> HIDE DEF f
    <3> QED BY <1>1, <2>1, SameSum, SumNat
  <2> QED BY <2>2
<1>3. ASSUME NEW p \in PortNo
      PROVE  C!SumFunctionOnSet([s \in DOMAIN services |-> services[s].ports[p]], S) \in Nat
  <2> DEFINE f == [s \in DOMAIN services |-> services[s].ports[p]]
  <2>1. \A s \in S : f[s] \in Nat
    BY PrototypeAssumption DEF Quantities
  <2>2. C!SumFunctionOnSet(f, S) \in Nat
    <3> HIDE DEF f
    <3> QED BY <1>1, <2>1, SameSum, SumNat
  <2> QED BY <2>2
<1>4. \A p \in PortNo : (IF p = -1 THEN 1 ELSE 0)
        + C!SumFunctionOnSet([s \in DOMAIN services |-> services[s].ports[p]], S) \in Nat
  BY <1>3
<1> QED BY <1>2, <1>4 DEF C!Profile, Quantities

(* The round is over when the keys are: there are finitely many.           *)
LEMMA Keys == Cardinality(DOMAIN rows) \in Nat
BY PrototypeAssumption, FS_CardinalityType

-----------------------------------------------------------------------------
(* The types: the clusters are rows of the file, each with its profile.    *)
Types ==
  /\ phase \in {"update", "deploy", "returned"}
  /\ curNodes \in [DOMAIN machines -> Quantities]
  /\ phase = "update" =>
       /\ left = 0 /\ DOMAIN curClusters = {}
       /\ curNodes = machines
  /\ phase # "update" =>
       /\ left \in 0 .. Cardinality(DOMAIN rows)
       /\ curClusters \in [Key -> [services : SUBSET DOMAIN services,
                                   profile : Quantities, deployed : BOOLEAN]]
       /\ place \in [Key -> SUBSET DOMAIN machines]

(* Of two clusters one is inside the other, or they share no service.      *)
Nested ==
  \A c, d \in DOMAIN curClusters :
     \/ curClusters[c].services \subseteq curClusters[d].services
     \/ curClusters[d].services \subseteq curClusters[c].services
     \/ curClusters[c].services \cap curClusters[d].services = {}

(* Only clusters the loop is past are on a node, and what is inside them   *)
(* is marked with them.                                                    *)
Marked ==
  \A c \in DOMAIN curClusters : place[c] # {} =>
     /\ c >= left
     /\ \A d \in DOMAIN curClusters :
          curClusters[d].services \subseteq curClusters[c].services => curClusters[d].deployed

(* What a node has and what was taken from it is what it had.              *)
Balance ==
  \A n \in DOMAIN machines, r \in Resource :
     curNodes[n].res[r] + SumFunctionOnSet(Share(r), Here(n)) = machines[n].res[r]

RoundInv == Types /\ Nested /\ Marked /\ Balance /\ NothingLeftFits /\ SortedDeploysOnce

LEMMA RoundInit == Init => RoundInv
<1> SUFFICES ASSUME Init PROVE RoundInv
  OBVIOUS
<1>1. DOMAIN curClusters = {} /\ curNodes = machines
  BY DEF Init
<1>2. Types
  BY <1>1, PrototypeAssumption DEF Init, Types
<1>3. Nested /\ Marked /\ NothingLeftFits /\ SortedDeploysOnce
  BY <1>1 DEF Nested, Marked, NothingLeftFits, SortedDeploysOnce, DeployedOnce
<1>4. \A n : Here(n) = {}
  BY <1>1 DEF Here
<1>5. Balance
  <2> SUFFICES ASSUME NEW n \in DOMAIN machines, NEW r \in Resource
               PROVE  curNodes[n].res[r] + SumFunctionOnSet(Share(r), Here(n)) = machines[n].res[r]
    BY DEF Balance
  <2>1. SumFunctionOnSet(Share(r), Here(n)) = 0
    BY <1>4, SumEmpty
  <2>2. machines[n].res[r] \in Nat
    BY PrototypeAssumption DEF Quantities
  <2> QED BY <1>1, <2>1, <2>2
<1> QED BY <1>2, <1>3, <1>5 DEF RoundInv

(* update_clusters loads the rows in some order.                           *)
LEMMA Update == RoundInv /\ update_clusters => RoundInv'
<1> SUFFICES ASSUME RoundInv, update_clusters PROVE RoundInv'
  OBVIOUS
<1>0. Types /\ Cardinality(DOMAIN rows) \in Nat
  BY Keys DEF RoundInv
<1>1. PICK o \in Orders : curClusters' = C!LoadClusters(services, [c \in DOMAIN o |-> rows[o[c]]])
  BY DEF update_clusters
<1>2. DOMAIN o = Key /\ o \in [Key -> DOMAIN rows]
  BY <1>1 DEF Orders, Key
<1>3. curClusters' = [c \in Key |-> [services |-> rows[o[c]],
                                     profile |-> C!Profile(services, rows[o[c]]),
                                     deployed |-> FALSE]]
  BY <1>1, <1>2 DEF C!LoadClusters
<1>4. \A c \in Key : rows[o[c]] \in SUBSET DOMAIN services
  BY <1>2, PrototypeAssumption
<1>5. \A c \in Key : C!Profile(services, rows[o[c]]) \in Quantities
  BY <1>4, ProfileQuantities
<1>6. /\ curNodes' = machines /\ left' = Cardinality(DOMAIN rows)
      /\ place' = [c \in Key |-> {}] /\ phase' = "deploy"
  BY <1>0 DEF update_clusters, Types, Key
<1>7. Types'
  BY <1>0, <1>3, <1>4, <1>5, <1>6, PrototypeAssumption DEF Types
<1>8. DOMAIN curClusters' = Key /\ \A c \in Key : curClusters'[c].services = rows[o[c]]
  BY <1>3
<1>9. Nested'
  <2>1. \A c, d \in Key : \/ rows[o[c]] \subseteq rows[o[d]] \/ rows[o[d]] \subseteq rows[o[c]]
                          \/ rows[o[c]] \cap rows[o[d]] = {}
    BY <1>2, PrototypeAssumption
  <2> QED BY <1>8, <2>1 DEF Nested
<1>10. \A c \in Key : c < left'
  BY <1>0, <1>6 DEF Key
<1>11. Marked' /\ SortedDeploysOnce'
  BY <1>6, <1>8 DEF Marked, SortedDeploysOnce, DeployedOnce
<1>12. NothingLeftFits'
  <2>1. \A c \in Key : ~(c >= left')
    BY <1>0, <1>6, <1>10 DEF Key
  <2> QED BY <1>8, <2>1 DEF NothingLeftFits
<1>13. Balance'
  <2> SUFFICES ASSUME NEW n \in DOMAIN machines, NEW r \in Resource
               PROVE  (curNodes[n].res[r] + SumFunctionOnSet(Share(r), Here(n)) = machines[n].res[r])'
    BY DEF Balance
  <2>1. Here(n)' = {}
    BY <1>6, <1>8 DEF Here
  <2>2. SumFunctionOnSet(Share(r)', {}) = 0
    BY SumEmpty
  <2>3. machines[n].res[r] \in Nat
    BY PrototypeAssumption DEF Quantities
  <2> QED BY <1>6, <2>1, <2>2, <2>3
<1> QED BY <1>7, <1>9, <1>11, <1>12, <1>13 DEF RoundInv

-----------------------------------------------------------------------------
(* In the loop: the cluster in hand is one of the file.                    *)
LEMMA InHand ==
  ASSUME RoundInv, phase = "deploy", left > 0
  PROVE  /\ left \in Nat /\ left - 1 \in Key /\ DOMAIN curClusters = Key
         /\ Current.profile \in Quantities
         /\ \A c \in Key : c >= left - 1 => c = left - 1 \/ c >= left
         /\ Key \subseteq Nat /\ IsFiniteSet(Key)
<1>1. Types /\ Cardinality(DOMAIN rows) \in Nat
  BY Keys DEF RoundInv
<1>2. left \in Nat /\ left - 1 \in Key /\ DOMAIN curClusters = Key
  BY <1>1 DEF Types, Key
<1>3. Current.profile \in Quantities
  BY <1>1, <1>2 DEF Types, Current
<1>4. Key \subseteq Nat /\ IsFiniteSet(Key)
  <2>1. 0 \in Int /\ Cardinality(DOMAIN rows) - 1 \in Int /\ Key \subseteq Nat
    BY <1>1 DEF Key
  <2>2. IsFiniteSet(Key)
    BY <2>1, FS_Interval, Zenon DEF Key
  <2> QED BY <2>1, <2>2
<1> QED BY <1>2, <1>3, <1>4

(* A cluster that is marked already, or that no node takes, is left behind.*)
LEMMA LeftBehind ==
  ASSUME RoundInv, Skip \/ Refuse
  PROVE  RoundInv'
<1>0. phase = "deploy" /\ left > 0 /\ left' = left - 1
  BY DEF Skip, Refuse
<1>1. UNCHANGED <<curNodes, curClusters, phase, place>>
  BY DEF Skip, Refuse
<1>2. /\ Types /\ Nested /\ Marked /\ Balance /\ NothingLeftFits /\ SortedDeploysOnce
      /\ Cardinality(DOMAIN rows) \in Nat
  BY Keys DEF RoundInv
<1>3. /\ left \in Nat /\ left - 1 \in Key /\ DOMAIN curClusters = Key
      /\ \A c \in Key : c >= left - 1 => c = left - 1 \/ c >= left
      /\ Key \subseteq Nat
  BY <1>0, InHand
<1>4. Types'
  BY <1>0, <1>1, <1>2, <1>3 DEF Types
<1>5. Nested' /\ SortedDeploysOnce'
  BY <1>1, <1>2 DEF Nested, SortedDeploysOnce, WholesFirst, DeployedOnce
<1>6. Marked'
  <2>1. \A c \in Key : c >= left => c >= left'
    BY <1>0, <1>3
  <2> QED BY <1>1, <1>2, <1>3, <2>1 DEF Marked
<1>7. Balance'
  BY <1>1, <1>2 DEF Balance, Share, Here
<1>8. ASSUME ~curClusters[left - 1].deployed
      PROVE  \A n \in DOMAIN curNodes : ~Fits(n, curClusters[left - 1].profile)
  <2> DEFINE S == {n \in DOMAIN curNodes : Fits(n, Current.profile)}
  <2>1. S \subseteq Nat
    BY <1>2, PrototypeAssumption DEF Types
  <2>2. \A n \in DOMAIN curNodes : ~FirstFit(n, Current.profile)
    BY <1>8 DEF Skip, Refuse, Current
  <2>3. SUFFICES ASSUME S # {} PROVE FALSE
    BY DEF Current
  <2>4. Lowest(S) \in S /\ \A m \in S : Lowest(S) <= m
    <3> HIDE DEF S
    <3> QED BY <2>1, <2>3, LowestExists
  <2>5. \A m \in DOMAIN curNodes : m < Lowest(S) => ~Fits(m, Current.profile)
    <3> SUFFICES ASSUME NEW m \in DOMAIN curNodes, m < Lowest(S), m \in S
                 PROVE  FALSE
      OBVIOUS
    <3>1. m \in Nat /\ Lowest(S) \in Nat /\ Lowest(S) <= m
      BY <2>1, <2>4
    <3> HIDE DEF S
    <3> QED BY <3>1
  <2>6. Lowest(S) \in DOMAIN curNodes /\ Fits(Lowest(S), Current.profile)
    BY <2>4
  <2> HIDE DEF S
  <2> QED BY <2>2, <2>5, <2>6 DEF FirstFit
<1>9. NothingLeftFits'
  <2> SUFFICES ASSUME NEW c \in Key, c >= left - 1, ~curClusters[c].deployed,
                      NEW n \in DOMAIN curNodes
               PROVE  ~Fits(n, curClusters[c].profile)
    BY <1>0, <1>1, <1>3 DEF NothingLeftFits, Fits, Subset
  <2>1. CASE c = left - 1
    BY <1>8, <2>1
  <2>2. CASE c >= left
    BY <1>2, <1>3, <2>2 DEF NothingLeftFits
  <2> QED BY <1>3, <2>1, <2>2
<1> QED BY <1>4, <1>5, <1>6, <1>7, <1>9 DEF RoundInv

(* Charging leaves natural numbers, takes what it should, and makes no     *)
(* other cluster fit.                                                      *)
LEMMA Charged ==
  ASSUME NEW n \in DOMAIN curNodes, curNodes \in [DOMAIN machines -> Quantities],
         NEW need \in Quantities, Fits(n, need),
         curNodes' = [curNodes EXCEPT ![n] = Charge(@, need)]
  PROVE  /\ curNodes' \in [DOMAIN machines -> Quantities]
         /\ \A r \in Resource : curNodes'[n].res[r] + need.res[r] = curNodes[n].res[r]
         /\ \A other \in Quantities : \A k \in DOMAIN curNodes :
              Fits(k, other)' => Fits(k, other)
<1>1. /\ \A r \in Resource : need.res[r] \in Nat /\ curNodes[n].res[r] \in Nat
                             /\ need.res[r] <= curNodes[n].res[r]
      /\ \A p \in PortNo : need.ports[p] \in Nat /\ curNodes[n].ports[p] \in Nat
  BY DEF Quantities, Fits
<1>2. Charge(curNodes[n], need) \in Quantities
  BY <1>1 DEF Charge, Quantities
<1>3. /\ curNodes'[n] = Charge(curNodes[n], need)
      /\ \A k \in DOMAIN curNodes : k # n => curNodes'[k] = curNodes[k]
      /\ DOMAIN curNodes' = DOMAIN curNodes
  OBVIOUS
<1>4. \A r \in Resource : curNodes'[n].res[r] = curNodes[n].res[r] - need.res[r]
  BY <1>3 DEF Charge
<1>5. \A p \in PortNo : curNodes'[n].ports[p] = curNodes[n].ports[p] + need.ports[p]
  BY <1>3 DEF Charge
<1>6. ASSUME NEW other \in Quantities, NEW k \in DOMAIN curNodes, ~Fits(k, other)
      PROVE  ~(\A r \in Resource : other.res[r] <= curNodes'[k].res[r])
               \/ Subset(other.ports, curNodes'[k].ports)
  <2>1. CASE k # n
    BY <1>3, <1>6, <2>1 DEF Fits
  <2>2. CASE k = n
    <3>1. \A r \in Resource : other.res[r] \in Nat
      BY DEF Quantities
    <3>2. \A p \in PortNo : other.ports[p] \in Nat
      BY DEF Quantities
    <3>3. CASE Subset(other.ports, curNodes[n].ports)
      BY <1>1, <1>5, <2>2, <3>2, <3>3 DEF Subset
    <3>4. CASE ~(\A r \in Resource : other.res[r] <= curNodes[n].res[r])
      BY <1>1, <1>4, <2>2, <3>1, <3>4
    <3> QED BY <1>6, <2>2, <3>3, <3>4 DEF Fits
  <2> QED BY <2>1, <2>2
<1>7. curNodes' \in [DOMAIN machines -> Quantities]
  BY <1>2
<1>8. \A r \in Resource : curNodes'[n].res[r] + need.res[r] = curNodes[n].res[r]
  BY <1>1, <1>4
<1> QED BY <1>3, <1>6, <1>7, <1>8 DEF Fits

(* The cluster in hand goes to a node: it is not inside any that was placed*)
(* before, and, where wholes come first, none that is inside it was.       *)
LEMMA Placed ==
  ASSUME RoundInv, NEW n \in DOMAIN curNodes, Place(n)
  PROVE  RoundInv'
<1> DEFINE c == left - 1
<1>0. /\ phase = "deploy" /\ left > 0 /\ ~curClusters[c].deployed
      /\ Fits(n, Current.profile) /\ Current = curClusters[c]
      /\ left' = c /\ phase' = phase
  BY DEF Place, FirstFit, Current
<1>1. /\ Types /\ Nested /\ Marked /\ Balance /\ NothingLeftFits /\ SortedDeploysOnce
      /\ Cardinality(DOMAIN rows) \in Nat
  BY Keys DEF RoundInv
<1>2. /\ left \in Nat /\ c \in Key /\ DOMAIN curClusters = Key
      /\ Current.profile \in Quantities
      /\ \A d \in Key : d >= c => d = c \/ d >= left
      /\ Key \subseteq Nat /\ IsFiniteSet(Key)
  BY <1>0, InHand
<1>3. /\ curNodes \in [DOMAIN machines -> Quantities]
      /\ curClusters \in [Key -> [services : SUBSET DOMAIN services,
                                  profile : Quantities, deployed : BOOLEAN]]
      /\ place \in [Key -> SUBSET DOMAIN machines]
  BY <1>0, <1>1 DEF Types
<1>4. /\ curNodes' \in [DOMAIN machines -> Quantities]
      /\ \A r \in Resource :
           curNodes'[n].res[r] + Current.profile.res[r] = curNodes[n].res[r]
      /\ \A other \in Quantities : \A k \in DOMAIN curNodes :
           Fits(k, other)' => Fits(k, other)
      /\ \A k \in DOMAIN curNodes : k # n => curNodes'[k] = curNodes[k]
  <2>1. curNodes' = [curNodes EXCEPT ![n] = Charge(@, Current.profile)]
    BY DEF Place
  <2>2. \A k \in DOMAIN curNodes : k # n => curNodes'[k] = curNodes[k]
    BY <2>1
  <2> QED BY <1>0, <1>2, <1>3, <2>1, <2>2, Charged
<1>5. /\ DOMAIN curClusters' = Key
      /\ \A d \in Key :
           /\ curClusters'[d].services = curClusters[d].services
           /\ curClusters'[d].profile = curClusters[d].profile
           /\ curClusters'[d].deployed
                <=> curClusters[d].deployed \/ curClusters[d].services \subseteq curClusters[c].services
      /\ curClusters' \in [Key -> [services : SUBSET DOMAIN services,
                                   profile : Quantities, deployed : BOOLEAN]]
  <2> DEFINE mark(d) == [curClusters[d] EXCEPT !.deployed =
                           @ \/ curClusters[d].services \subseteq Current.services]
  <2>1. curClusters' = [d \in Key |-> mark(d)]
    BY <1>2 DEF Place
  <2>2. ASSUME NEW d \in Key
        PROVE  /\ mark(d) \in [services : SUBSET DOMAIN services,
                               profile : Quantities, deployed : BOOLEAN]
               /\ mark(d).services = curClusters[d].services
               /\ mark(d).profile = curClusters[d].profile
               /\ mark(d).deployed
                    <=> curClusters[d].deployed \/ curClusters[d].services \subseteq Current.services
    BY <1>3
  <2> HIDE DEF mark
  <2> QED BY <1>0, <2>1, <2>2
<1>6. /\ place' \in [Key -> SUBSET DOMAIN machines]
      /\ place'[c] = place[c] \cup {n}
      /\ \A d \in Key : d # c => place'[d] = place[d]
  <2>1. place' = [place EXCEPT ![c] = @ \cup {n}]
    BY DEF Place
  <2> QED BY <1>2, <1>3, <2>1
<1>7. place[c] = {}
  <2>1. ~(c >= left)
    BY <1>2
  <2> QED BY <1>1, <1>2, <2>1 DEF Marked
<1> HIDE DEF c
<1>8. Types'
  <2>1. c \in 0 .. Cardinality(DOMAIN rows)
    BY <1>1, <1>2 DEF Key
  <2> QED BY <1>0, <1>4, <1>5, <1>6, <2>1 DEF Types
<1>9. Nested'
  BY <1>1, <1>2, <1>5 DEF Nested
<1>10. Marked'
  <2> SUFFICES ASSUME NEW d \in Key, place'[d] # {}
               PROVE  /\ d >= c
                      /\ \A e \in Key : curClusters[e].services \subseteq curClusters[d].services
                                          => curClusters'[e].deployed
    BY <1>0, <1>5 DEF Marked
  <2>1. CASE d = c
    <3>1. \A e \in Key : curClusters[e].services \subseteq curClusters[d].services
                           => curClusters'[e].deployed
      BY <1>5, <2>1
    <3>2. d \in Nat
      BY <1>2
    <3> QED BY <2>1, <3>1, <3>2
  <2>2. CASE d # c
    <3>1. d >= left /\ \A e \in Key : curClusters[e].services \subseteq curClusters[d].services
                                        => curClusters[e].deployed
      BY <1>1, <1>2, <1>6, <2>2 DEF Marked
    <3>2. d >= c
      BY <1>2, <3>1 DEF c
    <3>3. \A e \in Key : curClusters[e].deployed => curClusters'[e].deployed
      BY <1>5
    <3> QED BY <3>1, <3>2, <3>3
  <2> QED BY <2>1, <2>2
<1>11. Balance'
  <2> SUFFICES ASSUME NEW k \in DOMAIN machines, NEW r \in Resource
               PROVE  curNodes'[k].res[r] + SumFunctionOnSet(Share(r)', Here(k)') = machines[k].res[r]
    BY DEF Balance
  <2>1. Share(r)' = Share(r)
    BY <1>2, <1>5 DEF Share
  <2>2. curNodes[k].res[r] + SumFunctionOnSet(Share(r), Here(k)) = machines[k].res[r]
    BY <1>1 DEF Balance
  <2>3. \A d \in Key : Share(r)[d] \in Nat
    BY <1>2, <1>3 DEF Share, Quantities
  <2>4. IsFiniteSet(Here(k)) /\ Here(k) \subseteq Key
    BY <1>2, FS_Subset DEF Here
  <2>5. CASE k = n
    <3>1. Here(k)' = Here(k) \cup {c} /\ c \notin Here(k)
      BY <1>2, <1>5, <1>6, <1>7, <2>5 DEF Here
    <3>2. SumFunctionOnSet(Share(r), Here(k) \cup {c})
            = Share(r)[c] + SumFunctionOnSet(Share(r), Here(k))
      BY <1>2, <2>3, <2>4, <3>1, SumAdd
    <3>3. Share(r)[c] = Current.profile.res[r]
      BY <1>0, <1>2 DEF Share
    <3>4. SumFunctionOnSet(Share(r), Here(k)) \in Nat /\ Share(r)[c] \in Nat
      BY <1>2, <2>3, <2>4, SumNat
    <3>5. curNodes'[k].res[r] + Share(r)[c] = curNodes[k].res[r]
      BY <1>4, <2>5, <3>3
    <3>6. curNodes'[k].res[r] \in Nat
      BY <1>4 DEF Quantities
    <3>7. SumFunctionOnSet(Share(r)', Here(k)')
            = Share(r)[c] + SumFunctionOnSet(Share(r), Here(k))
      BY <2>1, <3>1, <3>2
    <3> QED BY <2>2, <3>4, <3>5, <3>6, <3>7
  <2>6. CASE k # n
    <3>1. Here(k)' = Here(k)
      BY <1>2, <1>5, <1>6, <2>6 DEF Here
    <3>2. curNodes'[k] = curNodes[k]
      BY <1>3, <1>4, <2>6
    <3> QED BY <2>1, <2>2, <3>1, <3>2
  <2> QED BY <2>5, <2>6
<1>12. NothingLeftFits'
  <2> SUFFICES ASSUME NEW d \in Key, d >= c, ~curClusters'[d].deployed,
                      NEW k \in DOMAIN curNodes, NEW need, need = curClusters'[d].profile
               PROVE  ~Fits(k, need)'
    <3>1. DOMAIN curNodes' = DOMAIN curNodes
      BY <1>3, <1>4
    <3> QED BY <1>0, <1>5, <3>1 DEF NothingLeftFits, Fits, Subset
  <2>1. d # c /\ ~curClusters[d].deployed
    BY <1>5
  <2>2. ~Fits(k, curClusters[d].profile)
    BY <1>1, <1>2, <2>1 DEF NothingLeftFits, c
  <2>3. curClusters[d].profile \in Quantities
    BY <1>3
  <2> QED BY <1>4, <1>5, <2>2, <2>3
<1>13. SortedDeploysOnce'
  <2> SUFFICES ASSUME WholesFirst, NEW d \in Key, d # c,
                      curClusters[d].services \cap curClusters[c].services # {}
               PROVE  place[d] = {}
    <3>1. WholesFirst' => WholesFirst
      BY <1>2, <1>5 DEF WholesFirst
    <3>2. WholesFirst => DeployedOnce
      BY <1>1 DEF SortedDeploysOnce
    <3>3. SUFFICES ASSUME WholesFirst, DeployedOnce PROVE DeployedOnce'
      BY <3>1, <3>2 DEF SortedDeploysOnce
    <3>4. \A d \in Key : d # c /\ curClusters[d].services \cap curClusters[c].services # {}
                           => place'[d] = {}
      BY <1>6, <3>3
    <3>5. SUFFICES ASSUME NEW d \in Key, NEW e \in Key, d # e,
                          curClusters[d].services \cap curClusters[e].services # {}
                   PROVE  place'[d] = {} \/ place'[e] = {}
      BY <1>5 DEF DeployedOnce
    <3>6. CASE d = c \/ e = c
      BY <3>4, <3>5, <3>6
    <3>7. CASE d # c /\ e # c
      BY <1>2, <1>6, <3>3, <3>5, <3>7 DEF DeployedOnce
    <3> QED BY <3>6, <3>7
  <2>1. SUFFICES ASSUME place[d] # {} PROVE FALSE
    OBVIOUS
  <2>2. /\ d >= left
        /\ ~(curClusters[c].services \subseteq curClusters[d].services)
    BY <1>0, <1>1, <1>2, <2>1 DEF Marked
  <2>3. curClusters[d].services \subseteq curClusters[c].services
    BY <1>1, <1>2, <2>2 DEF Nested
  <2>4. d <= c
    BY <1>2, <2>3 DEF WholesFirst
  <2>5. d \in Nat /\ left \in Nat /\ c = left - 1
    BY <1>2 DEF c
  <2> QED BY <2>2, <2>4, <2>5
<1> QED BY <1>8, <1>9, <1>10, <1>11, <1>12, <1>13 DEF RoundInv

LEMMA RoundStep == RoundInv /\ [Next]_vars => RoundInv'
<1> SUFFICES ASSUME RoundInv, [Next]_vars PROVE RoundInv'
  OBVIOUS
<1>1. CASE update_clusters
  BY <1>1, Update
<1>2. CASE Skip \/ Refuse
  BY <1>2, LeftBehind
<1>3. ASSUME NEW n \in DOMAIN curNodes, Place(n)
      PROVE  RoundInv'
  BY <1>3, Placed
<1>4. CASE Return \/ UNCHANGED vars
  <2>1. UNCHANGED <<curNodes, curClusters, left, place>>
    BY <1>4 DEF Return, vars
  <2>2. phase' \in {"update", "deploy", "returned"} /\ (phase' = "update" <=> phase = "update")
    BY <1>4 DEF Return, vars, RoundInv, Types
  <2>3. Types'
    BY <2>1, <2>2 DEF RoundInv, Types
  <2>4. Nested' /\ Marked' /\ SortedDeploysOnce'
    BY <2>1 DEF RoundInv, Nested, Marked, SortedDeploysOnce, WholesFirst, DeployedOnce
  <2>5. Balance'
    BY <2>1 DEF RoundInv, Balance, Share, Here
  <2>6. NothingLeftFits'
    BY <2>1 DEF RoundInv, NothingLeftFits, Fits, Subset
  <2> QED BY <2>3, <2>4, <2>5, <2>6 DEF RoundInv
<1> QED BY <1>1, <1>2, <1>3, <1>4 DEF Next

LEMMA RoundAlways == Spec => []RoundInv
BY RoundInit, RoundStep, PTL DEF Spec

-----------------------------------------------------------------------------
(* No machine of the prototype is given more than it has, in any order of  *)
(* the clusters (main.go 269, 289-291).                                    *)
THEOREM MachinesHold == Spec => []WithinMachine
<1>1. RoundInv => WithinMachine
  <2> SUFFICES ASSUME RoundInv, NEW n \in DOMAIN machines, NEW r \in Resource
               PROVE  SumFunctionOnSet(Share(r), Here(n)) <= machines[n].res[r]
    BY DEF WithinMachine
  <2>1. Types /\ Balance /\ Cardinality(DOMAIN rows) \in Nat
    BY Keys DEF RoundInv
  <2>2. curNodes[n].res[r] + SumFunctionOnSet(Share(r), Here(n)) = machines[n].res[r]
    BY <2>1 DEF Balance
  <2>3. curNodes[n].res[r] \in Nat
    BY <2>1 DEF Types, Quantities
  <2>4. SumFunctionOnSet(Share(r), Here(n)) \in Nat
    <3>1. IsFiniteSet(DOMAIN curClusters)
      <4>1. IsFiniteSet({}) /\ IsFiniteSet(Key)
        BY <2>1, FS_EmptySet, FS_Interval DEF Key
      <4>2. DOMAIN curClusters = {} \/ DOMAIN curClusters = Key
        BY <2>1 DEF Types
      <4> QED BY <4>1, <4>2
    <3>2. IsFiniteSet(Here(n))
      BY <3>1, FS_Subset DEF Here
    <3>3. \A c \in Here(n) : Share(r)[c] \in Nat
      BY <2>1 DEF Types, Here, Share, Quantities
    <3> QED BY <3>2, <3>3, SumNat
  <2> QED BY <2>2, <2>3, <2>4
<1> QED BY <1>1, RoundAlways, PTL

(* The first fit is found if there is one, and what was refused fits       *)
(* nowhere for the rest of the round (main.go 267-303).                    *)
THEOREM RefusedFitsNowhere == Spec => []NothingLeftFits
<1>1. RoundInv => NothingLeftFits
  BY DEF RoundInv
<1> QED BY <1>1, RoundAlways, PTL

(* In the orders in which wholes come before their parts, marking the      *)
(* parts is enough: no service is deployed twice (main.go 273-281).        *)
THEOREM OnceInOrder == Spec => []SortedDeploysOnce
<1>1. RoundInv => SortedDeploysOnce
  BY DEF RoundInv
<1> QED BY <1>1, RoundAlways, PTL
=============================================================================
