--------------------------- MODULE LinkageProofs ----------------------------
(***************************************************************************)
(* The file high.py writes is what the placement loop relies on, for every *)
(* number of services and every service map: a complete hierarchy whose    *)
(* keys have no gap.                                                       *)
(***************************************************************************)
EXTENDS Linkage, FiniteSetTheorems, TLAPS

-----------------------------------------------------------------------------
(* A forest of clusters M[0], ..., M[n - 1]: parts come before wholes, and *)
(* every cluster is part of a live one or disjoint from it.  Live ones are *)
(* disjoint.                                                               *)
IsForest(M, n, lv, S) ==
  /\ n \in Nat
  /\ M \in [0 .. (n - 1) -> (SUBSET S) \ {{}}]
  /\ lv \subseteq 0 .. (n - 1)
  /\ \A c, d \in 0 .. (n - 1) : c < d => M[c] \subseteq M[d] \/ M[c] \cap M[d] = {}
  /\ \A c \in 0 .. (n - 1), e \in lv : M[c] \subseteq M[e] \/ M[c] \cap M[e] = {}
  /\ \A a, b \in lv : a # b => M[a] \cap M[b] = {}

(* Joining two live clusters keeps a forest a forest.                      *)
LEMMA JoinForest ==
  ASSUME NEW M, NEW n, NEW lv, NEW S, IsForest(M, n, lv, S),
         NEW a \in lv, NEW b \in lv, NEW N,
         N = [c \in 0 .. n |-> IF c = n THEN M[a] \cup M[b] ELSE M[c]]
  PROVE  IsForest(N, n + 1, (lv \ {a, b}) \cup {n}, S)
<1> DEFINE J == M[a] \cup M[b]
           lw == (lv \ {a, b}) \cup {n}
<1>1. /\ n \in Nat /\ 0 .. ((n + 1) - 1) = 0 .. n
      /\ a \in 0 .. (n - 1) /\ b \in 0 .. (n - 1)
      /\ \A c \in 0 .. n : c = n \/ (c \in 0 .. (n - 1) /\ c < n)
      /\ \A c \in 0 .. (n - 1) : c \in 0 .. n /\ c # n
  BY DEF IsForest
<1>2. N[n] = J /\ \A c \in 0 .. (n - 1) : N[c] = M[c]
  BY <1>1
<1>3. J \in (SUBSET S) \ {{}}
  BY <1>1 DEF IsForest
<1>4. N \in [0 .. n -> (SUBSET S) \ {{}}]
  BY <1>1, <1>3 DEF IsForest
<1>5. \A c \in 0 .. (n - 1) : M[c] \subseteq J \/ M[c] \cap J = {}
  <2>1. \A c \in 0 .. (n - 1) : /\ M[c] \subseteq M[a] \/ M[c] \cap M[a] = {}
                                /\ M[c] \subseteq M[b] \/ M[c] \cap M[b] = {}
    BY DEF IsForest
  <2> QED BY <2>1
<1>6. \A e \in lv \ {a, b} : M[e] \cap J = {}
  BY DEF IsForest
<1>7. ASSUME NEW c \in 0 .. n, NEW d \in 0 .. n, c < d
      PROVE  N[c] \subseteq N[d] \/ N[c] \cap N[d] = {}
  <2>1. c \in 0 .. (n - 1)
    BY <1>1, <1>7
  <2>2. CASE d = n
    BY <1>2, <1>5, <2>1, <2>2
  <2>3. CASE d # n
    BY <1>1, <1>2, <1>7, <2>1, <2>3 DEF IsForest
  <2> QED BY <2>2, <2>3
<1>8. ASSUME NEW c \in 0 .. n, NEW e \in lw
      PROVE  N[c] \subseteq N[e] \/ N[c] \cap N[e] = {}
  <2>1. CASE e = n
    BY <1>1, <1>2, <1>5, <2>1
  <2>2. CASE e \in lv \ {a, b}
    <3>1. e \in 0 .. (n - 1) /\ N[e] = M[e]
      BY <1>2, <2>2 DEF IsForest
    <3>2. CASE c = n
      BY <1>2, <1>6, <2>2, <3>1, <3>2
    <3>3. CASE c \in 0 .. (n - 1)
      BY <1>2, <2>2, <3>1, <3>3 DEF IsForest
    <3> QED BY <1>1, <3>2, <3>3
  <2> QED BY <2>1, <2>2
<1>9. ASSUME NEW c \in lw, NEW e \in lw, c # e
      PROVE  N[c] \cap N[e] = {}
  <2>1. \A k \in lv \ {a, b} : N[k] = M[k] /\ k # n
    BY <1>1, <1>2 DEF IsForest
  <2>2. CASE c \in lv \ {a, b} /\ e \in lv \ {a, b}
    BY <1>9, <2>1, <2>2 DEF IsForest
  <2>3. CASE c = n /\ e \in lv \ {a, b}
    BY <1>2, <1>6, <2>1, <2>3
  <2>4. CASE e = n /\ c \in lv \ {a, b}
    BY <1>2, <1>6, <2>1, <2>4
  <2> QED BY <1>9, <2>2, <2>3, <2>4
<1>10. lw \subseteq 0 .. n /\ n + 1 \in Nat
  BY <1>1 DEF IsForest
<1> HIDE DEF J, lw
<1>11. /\ n + 1 \in Nat /\ lw \subseteq 0 .. ((n + 1) - 1)
       /\ N \in [0 .. ((n + 1) - 1) -> (SUBSET S) \ {{}}]
  BY <1>1, <1>4, <1>10
<1>12. \A c, d \in 0 .. ((n + 1) - 1) : c < d => N[c] \subseteq N[d] \/ N[c] \cap N[d] = {}
  BY <1>1, <1>7
<1>13. \A c \in 0 .. ((n + 1) - 1), e \in lw : N[c] \subseteq N[e] \/ N[c] \cap N[e] = {}
  BY <1>1, <1>8
<1>14. IsForest(N, n + 1, lw, S)
  BY <1>9, <1>11, <1>12, <1>13, Zenon DEF IsForest
<1> QED BY <1>14 DEF lw

-----------------------------------------------------------------------------
(* The clusters made so far, services included, are a forest whose live    *)
(* clusters hold all services between them; each row leaves one live       *)
(* cluster less, and the newest row is live.                               *)
Tree == [c \in 0 .. (next - 1) |-> Members(c)]

Forest ==
  /\ IsForest(Tree, next, live, Services)
  /\ \A s \in Services : \E e \in live : s \in Tree[e]
  /\ IsFiniteSet(live) /\ Cardinality(live) + next = 2 * L
  /\ next > L => next - 1 \in live

(* In phase "singles" the last row has been written: it is the one live    *)
(* cluster.                                                                *)
OneTree == phase = "singles" => L >= 2 /\ next = 2 * L - 1 /\ live = {next - 1}

LinkInv == TypeOK /\ Forest /\ OneTree /\ FileNested /\ FileComplete

LEMMA LinkInit == Init => LinkInv
<1> SUFFICES ASSUME Init PROVE LinkInv
  OBVIOUS
<1>1. TypeOK
  BY DEF Init, TypeOK, Services, L
<1>2. /\ live = Services /\ next = L /\ L \in Nat /\ Services = 0 .. (next - 1)
      /\ Tree = [s \in Services |-> {s}]
  BY DEF Init, Services, Tree, Members, L
<1>3. IsFiniteSet(live) /\ Cardinality(live) = L
  <2>1. 0 \in Int /\ L - 1 \in Int
    BY <1>2
  <2> QED BY <1>2, <2>1, FS_Interval DEF Services
<1>4. IsForest(Tree, next, live, Services)
  <2>1. \A s \in Services : Tree[s] = {s}
    BY <1>2
  <2>2. Tree \in [0 .. (next - 1) -> (SUBSET Services) \ {{}}]
    BY <1>2
  <2>3. \A c, d \in Services : c # d => Tree[c] \cap Tree[d] = {}
    BY <2>1
  <2>4. \A c, d \in Services : Tree[c] \subseteq Tree[d] \/ Tree[c] \cap Tree[d] = {}
    BY <2>3
  <2> QED BY <1>2, <2>2, <2>3, <2>4 DEF IsForest
<1>5. Forest
  BY <1>2, <1>3, <1>4 DEF Forest
<1>6. OneTree /\ FileNested /\ FileComplete
  BY DEF Init, OneTree, FileNested, Nested, FileComplete
<1> QED BY <1>1, <1>5, <1>6 DEF LinkInv

(* A row: the new cluster is the union of two live ones.                   *)
LEMMA MergeStep ==
  ASSUME LinkInv, NEW a \in live, NEW b \in live, NEW w \in Weights, Merge(a, b, w)
  PROVE  LinkInv'
<1> USE DEF LinkInv
<1>1. /\ a # b /\ a \in 0 .. (next - 1) /\ b \in 0 .. (next - 1)
      /\ next \in Nat /\ L \in Nat /\ next >= L /\ L' = L /\ Services' = Services
      /\ next' = next + 1
      /\ live' = (live \ {a, b}) \cup {next}
      /\ phase' = "linkage" /\ UNCHANGED <<file, num_services, Dist>>
  BY DEF Merge, TypeOK, L, Services
<1>2. Tree' = [c \in 0 .. next |-> IF c = next THEN Tree[a] \cup Tree[b] ELSE Tree[c]]
  BY <1>1 DEF Merge, Tree, Members, L, TypeOK
<1>3. IsForest(Tree', next', live', Services')
  BY <1>1, <1>2, JoinForest DEF Forest
<1>4. Tree[a] \subseteq Services /\ Tree[b] \subseteq Services
  BY <1>1 DEF Forest, IsForest
<1>5. TypeOK'
  <2>1. L .. next = (L .. (next - 1)) \cup {next}
    BY <1>1
  <2>2. clusters' \in [L .. next -> SUBSET Services] /\ height' \in [L .. next -> Weights]
    BY <1>1, <1>4, <2>1 DEF Merge, TypeOK, Tree
  <2>3. L' .. (next' - 1) = L .. next /\ next' >= L' /\ next' \in Nat
    BY <1>1
  <2>4. live' \subseteq 0 .. (next' - 1)
    BY <1>3 DEF IsForest
  <2> QED BY <1>1, <2>2, <2>3, <2>4 DEF TypeOK
<1>6. ASSUME NEW s \in Services
      PROVE  \E e \in live' : s \in Tree'[e]
  <2>1. PICK e \in live : s \in Tree[e]
    BY DEF Forest
  <2>2. CASE e = a \/ e = b
    BY <1>1, <1>2, <2>1, <2>2
  <2>3. CASE e # a /\ e # b
    BY <1>1, <1>2, <2>1, <2>3 DEF TypeOK
  <2> QED BY <2>2, <2>3
<1>7. IsFiniteSet(live') /\ Cardinality(live') + next' = 2 * L'
  <2>1. IsFiniteSet(live) /\ Cardinality(live) + next = 2 * L
    BY DEF Forest
  <2>2. /\ IsFiniteSet(live \ {a})
        /\ Cardinality(live \ {a}) = Cardinality(live) - 1
    BY <2>1, FS_RemoveElement
  <2>3. /\ IsFiniteSet((live \ {a}) \ {b})
        /\ Cardinality((live \ {a}) \ {b}) = Cardinality(live \ {a}) - 1
    BY <1>1, <2>2, FS_RemoveElement
  <2>4. next \notin (live \ {a}) \ {b} /\ live' = ((live \ {a}) \ {b}) \cup {next}
    BY <1>1 DEF TypeOK
  <2>5. /\ IsFiniteSet(live')
        /\ Cardinality(live') = Cardinality((live \ {a}) \ {b}) + 1
    BY <2>3, <2>4, FS_AddElement
  <2>6. Cardinality(live) \in Nat
    BY <2>1, FS_CardinalityType
  <2> QED BY <1>1, <2>1, <2>2, <2>3, <2>5, <2>6
<1>8. next' > L' => next' - 1 \in live'
  BY <1>1
<1>9. Forest'
  BY <1>1, <1>3, <1>6, <1>7, <1>8 DEF Forest
<1>10. OneTree' /\ FileNested' /\ FileComplete'
  BY <1>1 DEF OneTree, FileNested, FileComplete
<1> QED BY <1>5, <1>9, <1>10

LEMMA LinkStep == LinkInv /\ [Next]_vars => LinkInv'
<1> SUFFICES ASSUME LinkInv, [Next]_vars
             PROVE  LinkInv'
  OBVIOUS
<1> USE DEF LinkInv
<1>1. ASSUME NEW a \in live, NEW b \in live, NEW w \in Weights, Merge(a, b, w)
      PROVE  LinkInv'
  BY <1>1, MergeStep
<1>2. CASE UNCHANGED <<num_services, Dist, clusters, height, live, next>>
  <2>1. Tree' = Tree /\ L' = L /\ Services' = Services
    BY <1>2 DEF Tree, Members, L, Services
  <2>2. Forest'
    BY <1>2, <2>1 DEF Forest
  <2>3. L \in Nat /\ next \in Nat
    BY DEF TypeOK, L
  <2>4. CASE TooFew \/ UNCHANGED vars
    <3>1. file' = file /\ (phase' = phase \/ phase' = "failed")
      BY <2>4 DEF TooFew, vars
    <3>2. TypeOK'
      BY <1>2, <2>1, <3>1 DEF TypeOK
    <3> QED BY <1>2, <2>1, <2>2, <3>1, <3>2 DEF OneTree, FileNested, FileComplete
  <2>5. CASE LastRow
    <3>1. /\ file' = file /\ phase' = "singles"
          /\ L >= 2 /\ \A a, b \in live : a = b
      BY <2>5 DEF LastRow
    <3>2. PICK e \in live : TRUE
      BY <2>3, <3>1 DEF Forest, Services
    <3>3. live = {e}
      BY <3>1
    <3>4. Cardinality(live) = 1
      BY <3>3, FS_Singleton
    <3>5. next = 2 * L - 1
      BY <2>3, <3>4 DEF Forest
    <3>6. e = next - 1
      BY <2>3, <3>1, <3>3, <3>5 DEF Forest
    <3>7. TypeOK'
      BY <1>2, <2>1, <3>1 DEF TypeOK
    <3> QED BY <1>2, <2>1, <2>2, <3>1, <3>3, <3>5, <3>6, <3>7
            DEF OneTree, FileNested, FileComplete
  <2>6. CASE WriteFile
    <3>1. /\ phase' = "done" /\ L >= 2 /\ next = 2 * L - 1 /\ live = {next - 1}
      BY <2>6 DEF WriteFile, OneTree
    <3>2. DOMAIN clusters = L .. (next - 1)
      BY DEF TypeOK
    <3>3. Services \cup DOMAIN clusters = 0 .. (next - 1)
      BY <2>3, <3>1, <3>2 DEF Services
    <3>4. file' = Tree
      BY <2>3, <2>6, <3>3 DEF WriteFile, Tree, Members
    <3>5. IsForest(file', next, live, Services)
      BY <3>4 DEF Forest
    <3>6. FileNested'
      <4>1. DOMAIN file' = 0 .. (next - 1) /\ \A c \in DOMAIN file' : file'[c] # {}
        BY <3>5 DEF IsForest
      <4>2. \A c, d \in DOMAIN file' : c < d => \/ file'[c] \subseteq file'[d]
                                                \/ file'[c] \cap file'[d] = {}
        BY <3>5, <4>1 DEF IsForest
      <4> QED BY <4>1, <4>2 DEF FileNested, Nested
    <3>7. FileComplete'
      <4>1. DOMAIN file' = 0 .. (2 * L - 2) /\ next - 1 = 2 * L - 2
        BY <2>3, <3>1, <3>5 DEF IsForest
      <4>2. \A s \in Services : file'[s] = {s}
        BY <2>3, <3>1, <3>4 DEF Services, Tree, Members
      <4>3. \A s \in Services : s \in file'[next - 1]
        BY <3>1, <3>4 DEF Forest
      <4>4. file'[next - 1] = Services
        BY <3>1, <3>5, <4>3 DEF IsForest
      <4> QED BY <2>1, <4>1, <4>2, <4>4 DEF FileComplete
    <3>8. TypeOK'
      <4>1. file' \in [DOMAIN file' -> SUBSET Services]
        BY <3>5 DEF IsForest
      <4> QED BY <1>2, <2>1, <3>1, <4>1 DEF TypeOK
    <3>9. OneTree'
      BY <3>1 DEF OneTree
    <3> QED BY <2>2, <3>6, <3>7, <3>8, <3>9
  <2> QED BY <1>2, <2>4, <2>5, <2>6, <1>1 DEF Next
<1>3. \/ UNCHANGED <<num_services, Dist, clusters, height, live, next>>
      \/ \E a, b \in live, w \in Weights : Merge(a, b, w)
  BY DEF Next, TooFew, LastRow, WriteFile, vars
<1> QED BY <1>1, <1>2, <1>3

LEMMA LinkAlways == Spec => []LinkInv
<1>1. Init => LinkInv
  BY LinkInit
<1>2. LinkInv /\ [Next]_vars => LinkInv'
  BY LinkStep
<1> QED BY <1>1, <1>2, PTL DEF Spec

(* The clusters in the file are nested or disjoint, parts before wholes.   *)
THEOREM HierarchyWritten == Spec => []FileNested
<1>1. LinkInv => FileNested
  BY DEF LinkInv
<1> QED BY <1>1, LinkAlways, PTL

(* The file holds 2 l - 1 clusters, the last of them all the services.     *)
THEOREM FileWritten == Spec => []FileComplete
<1>1. LinkInv => FileComplete
  BY DEF LinkInv
<1> QED BY <1>1, LinkAlways, PTL

-----------------------------------------------------------------------------
(* What a step does to the clusters there are: a row adds one, named next, *)
(* and every other step leaves them as they are.                           *)
Unmoved == UNCHANGED <<num_services, Dist, clusters, height, live, next>>

LEMMA RowOrNot ==
  ASSUME LinkInv, [Next]_vars
  PROVE  \/ Unmoved
         \/ \E a, b \in live, w \in Weights : Merge(a, b, w)
BY DEF Next, TooFew, LastRow, WriteFile, vars, Unmoved

LEMMA RowMade ==
  ASSUME LinkInv, NEW a \in live, NEW b \in live, NEW w \in Weights, Merge(a, b, w)
  PROVE  /\ UNCHANGED <<num_services, Dist, file>> /\ phase' = "linkage"
         /\ next' = next + 1 /\ live' = (live \ {a, b}) \cup {next} /\ a # b
         /\ next \in Nat /\ L \in Nat /\ next >= L
         /\ a \in 0 .. (next - 1) /\ b \in 0 .. (next - 1)
         /\ DOMAIN clusters = L .. (next - 1) /\ DOMAIN height = L .. (next - 1)
         /\ DOMAIN clusters' = DOMAIN clusters \cup {next}
         /\ DOMAIN height' = DOMAIN height \cup {next}
         /\ \A g \in DOMAIN clusters : /\ g # next
                                       /\ clusters'[g] = clusters[g]
                                       /\ height'[g] = height[g]
         /\ clusters'[next] = Members(a) \cup Members(b) /\ height'[next] = w
         /\ \A g : g = next => Members(g)' = Members(a) \cup Members(b)
         /\ \A g \in 0 .. (next - 1) : Members(g)' = Members(g)
<1>1. /\ UNCHANGED <<num_services, Dist, file>> /\ phase' = "linkage"
      /\ next' = next + 1 /\ live' = (live \ {a, b}) \cup {next} /\ a # b
  BY DEF Merge
<1>2. /\ next \in Nat /\ L \in Nat /\ next >= L /\ L' = L
      /\ a \in 0 .. (next - 1) /\ b \in 0 .. (next - 1)
      /\ DOMAIN clusters = L .. (next - 1) /\ DOMAIN height = L .. (next - 1)
  BY <1>1 DEF LinkInv, TypeOK, L
<1>3. /\ clusters' = [g \in DOMAIN clusters \cup {next} |->
                        IF g = next THEN Members(a) \cup Members(b) ELSE clusters[g]]
      /\ height' = [g \in DOMAIN height \cup {next} |-> IF g = next THEN w ELSE height[g]]
  BY DEF Merge
<1>4. /\ DOMAIN clusters' = DOMAIN clusters \cup {next}
      /\ DOMAIN height' = DOMAIN height \cup {next}
      /\ \A g \in DOMAIN clusters : /\ g # next
                                    /\ clusters'[g] = clusters[g]
                                    /\ height'[g] = height[g]
      /\ clusters'[next] = Members(a) \cup Members(b) /\ height'[next] = w
  BY <1>2, <1>3
<1>5. \A g : g = next => Members(g)' = Members(a) \cup Members(b)
  BY <1>1, <1>2, <1>4 DEF Members, L
<1>6. \A g \in 0 .. (next - 1) : Members(g)' = Members(g)
  BY <1>2, <1>4 DEF Members
<1> QED BY <1>1, <1>2, <1>4, <1>5, <1>6

(* The members of a cluster are services, and it has some.                 *)
LEMMA MembersFacts ==
  ASSUME LinkInv, NEW g \in 0 .. (next - 1)
  PROVE  /\ Members(g) \subseteq Services /\ Members(g) # {} /\ Members(g) = Tree[g]
         /\ g \in DOMAIN clusters => Members(g) = clusters[g]
         /\ g \notin DOMAIN clusters => Members(g) = {g}
<1>1. Tree[g] = Members(g) /\ Tree[g] \in (SUBSET Services) \ {{}}
  BY DEF LinkInv, Forest, IsForest, Tree
<1>2. /\ next \in Nat /\ L \in Nat /\ DOMAIN clusters = L .. (next - 1)
  BY DEF LinkInv, TypeOK, L
<1>3. Members(g) = IF g > L - 1 THEN clusters[g] ELSE {g}
  BY DEF Members
<1>4. g \in Nat /\ (g \in DOMAIN clusters <=> g > L - 1)
  <2> HIDE DEF L
  <2> QED BY <1>2
<1> QED BY <1>1, <1>3, <1>4, Zenon

-----------------------------------------------------------------------------
(* Why the clusters follow the traffic.  The link a row is made with is no *)
(* heavier than any before it, for those two clusters were apart when the  *)
(* earlier ones were made; so what splits a part of the new cluster cuts a *)
(* link of the part, which is heavy enough, and what splits none cuts the  *)
(* link of the row.                                                        *)
Symmetric == \A i, j \in Services : Dist[i][j] = Dist[j][i]

Weighed == \A i, j \in Services : Dist[i][j] \in Weights /\ Dist[i][j] \in Nat

HeldTogether ==
  \A g \in DOMAIN clusters, T \in SUBSET Services :
     T # {} /\ T # clusters[g] /\ T \subseteq clusters[g] =>
        \E i \in T, j \in clusters[g] \ T : Dist[i][j] >= height[g]

StillApart ==
  \A a, b \in live : a # b =>
     \A i \in Members(a), j \in Members(b), g \in DOMAIN height : Dist[i][j] <= height[g]

TrafficInv == LinkInv /\ Symmetric /\ HeldTogether /\ StillApart

LEMMA WeightsNat == TypeOK => Weighed
BY WeightsAssumption DEF TypeOK, Weighed

(* Whoever splits a part of a cluster to be made cuts a link of the part.  *)
LEMMA PartHolds ==
  ASSUME TrafficInv, NEW a \in live, NEW b \in live, a # b, NEW w \in Weights,
         Joined(a, b, w) \/ Joined(b, a, w),
         NEW T, T \cap Members(a) # {}, ~(Members(a) \subseteq T)
  PROVE  \E i \in T \cap Members(a), j \in Members(a) \ T : Dist[i][j] >= w
<1>1. a \in 0 .. (next - 1) /\ b \in 0 .. (next - 1)
  BY DEF TrafficInv, LinkInv, TypeOK
<1>2. a \in DOMAIN clusters /\ Members(a) = clusters[a] /\ Members(a) \subseteq Services
  BY <1>1, MembersFacts DEF TrafficInv
<1>3. PICK i \in T \cap Members(a), j \in Members(a) \ T : Dist[i][j] >= height[a]
  <2> DEFINE U == T \cap clusters[a]
  <2>1. U \in SUBSET Services /\ U # {} /\ U # clusters[a] /\ U \subseteq clusters[a]
    BY <1>2
  <2>2. \E i \in U, j \in clusters[a] \ U : Dist[i][j] >= height[a]
    BY <1>2, <2>1 DEF TrafficInv, HeldTogether
  <2> QED BY <1>2, <2>2
<1>4. DOMAIN height = DOMAIN clusters /\ height[a] \in Nat
  BY <1>2, WeightsAssumption DEF TrafficInv, LinkInv, TypeOK
<1>5. w <= height[a]
  <2>1. CASE Joined(a, b, w)
    BY <1>2, <1>4, <2>1 DEF Joined, TrafficInv, StillApart
  <2>2. CASE Joined(b, a, w)
    BY <1>2, <1>4, <2>2 DEF Joined, TrafficInv, StillApart
  <2> QED BY <2>1, <2>2
<1>6. Dist[i][j] \in Nat /\ w \in Nat
  BY <1>2, <1>3, WeightsNat, WeightsAssumption DEF Weighed, TrafficInv, LinkInv
<1> QED BY <1>3, <1>4, <1>5, <1>6

LEMMA TrafficMerge ==
  ASSUME TrafficInv, NEW a \in live, NEW b \in live, NEW w \in Weights, Merge(a, b, w)
  PROVE  (HeldTogether /\ StillApart)'
<1> DEFINE J == Members(a) \cup Members(b)
<1>1. LinkInv /\ Symmetric /\ HeldTogether /\ StillApart /\ Weighed
  BY WeightsNat DEF TrafficInv, LinkInv
<1>2. /\ UNCHANGED <<num_services, Dist>>
      /\ live' = (live \ {a, b}) \cup {next} /\ a # b
      /\ a \in 0 .. (next - 1) /\ b \in 0 .. (next - 1)
      /\ DOMAIN clusters = DOMAIN height
      /\ DOMAIN clusters' = DOMAIN clusters \cup {next}
      /\ DOMAIN height' = DOMAIN height \cup {next}
      /\ \A g \in DOMAIN clusters : /\ g # next
                                    /\ clusters'[g] = clusters[g]
                                    /\ height'[g] = height[g]
      /\ clusters'[next] = J /\ height'[next] = w
      /\ \A g : g = next => Members(g)' = J
      /\ \A g \in 0 .. (next - 1) : Members(g)' = Members(g)
  BY <1>1, RowMade
<1>3. live \subseteq 0 .. (next - 1) /\ next \notin live /\ Services' = Services
  BY <1>1, <1>2 DEF LinkInv, TypeOK, Services, L
<1>4. \A c \in live : Members(c) \subseteq Services /\ Members(c)' = Members(c)
  BY <1>1, <1>2, <1>3, MembersFacts
<1>5. Closest(a, b, w) /\ Joined(a, b, w) /\ w \in Nat
  BY WeightsAssumption DEF Merge, Closest
<1>6. PICK ia \in Members(a), jb \in Members(b) : Dist[ia][jb] = w
  BY <1>5 DEF Joined
<1>7. ASSUME NEW T \in SUBSET Services, T # {}, T # J, T \subseteq J
      PROVE  \E i \in T, j \in J \ T : Dist[i][j] >= w
  <2>1. CASE T \cap Members(a) # {} /\ ~(Members(a) \subseteq T)
    BY <1>2, <1>5, <2>1, PartHolds
  <2>2. CASE T \cap Members(b) # {} /\ ~(Members(b) \subseteq T)
    BY <1>2, <1>5, <2>2, PartHolds
  <2>3. CASE Members(a) \subseteq T /\ T \cap Members(b) = {}
    BY <1>5, <1>6, <2>3
  <2>4. CASE Members(b) \subseteq T /\ T \cap Members(a) = {}
    <3>1. Dist[jb][ia] = w
      BY <1>1, <1>2, <1>4, <1>6 DEF Symmetric
    <3> QED BY <1>5, <1>6, <2>4, <3>1
  <2> QED BY <1>7, <2>1, <2>2, <2>3, <2>4
<1>8. HeldTogether'
  <2> SUFFICES ASSUME NEW g \in DOMAIN clusters', NEW T \in SUBSET Services,
                      T # {}, T # clusters'[g], T \subseteq clusters'[g]
               PROVE  \E i \in T, j \in clusters'[g] \ T : Dist[i][j] >= height'[g]
    BY <1>2, <1>3 DEF HeldTogether
  <2>1. CASE g = next
    BY <1>2, <1>7, <2>1
  <2>2. CASE g # next
    <3>1. g \in DOMAIN clusters /\ clusters'[g] = clusters[g] /\ height'[g] = height[g]
      BY <1>2, <2>2
    <3> QED BY <1>1, <3>1 DEF HeldTogether
  <2> QED BY <2>1, <2>2
<1>9. ASSUME NEW c \in live, NEW d \in live, c # d, NEW i \in Members(c), NEW j \in Members(d)
      PROVE  Dist[i][j] <= w /\ \A g \in DOMAIN height : Dist[i][j] <= height[g]
  <2>1. Dist[i][j] \in Weights /\ Dist[i][j] \in Nat
    BY <1>1, <1>4, <1>9 DEF Weighed
  <2>2. Joined(c, d, Dist[i][j])
    BY DEF Joined
  <2>3. ~Heavier(Dist[i][j], w)
    BY <1>5, <1>9, <2>1, <2>2 DEF Closest
  <2>4. Dist[i][j] <= w
    BY <1>5, <2>1, <2>3 DEF Heavier
  <2> QED BY <1>1, <1>9, <2>4 DEF StillApart
<1>10. ASSUME NEW c \in live', NEW d \in live', c # d,
              NEW i \in Members(c)', NEW j \in Members(d)'
       PROVE  Dist[i][j] <= w /\ \A g \in DOMAIN height : Dist[i][j] <= height[g]
  <2>1. ASSUME NEW e \in live', NEW x \in Members(e)'
        PROVE  \E f \in live : x \in Members(f) /\ (e # next => f = e)
                                 /\ (e = next => f \in {a, b})
    <3>1. CASE e = next
      BY <1>2, <2>1, <3>1
    <3>2. CASE e # next
      BY <1>2, <1>4, <2>1, <3>2
    <3> QED BY <3>1, <3>2
  <2>2. PICK p \in live : i \in Members(p) /\ (c # next => p = c) /\ (c = next => p \in {a, b})
    BY <1>10, <2>1
  <2>3. PICK q \in live : j \in Members(q) /\ (d # next => q = d) /\ (d = next => q \in {a, b})
    BY <1>10, <2>1
  <2>4. p # q
    BY <1>2, <1>10, <2>2, <2>3
  <2> QED BY <1>9, <2>2, <2>3, <2>4
<1>11. StillApart'
  BY <1>2, <1>10 DEF StillApart
<1> QED BY <1>8, <1>11

(* Each cluster is held together by links as heavy as the one it was made  *)
(* with, and services still apart exchange no more (high.py 43-96).        *)
THEOREM TrafficFollowed == Spec => []FollowsTraffic
<1>1. Init => TrafficInv
  <2> SUFFICES ASSUME Init PROVE TrafficInv
    OBVIOUS
  <2>1. Symmetric /\ HeldTogether /\ StillApart
    BY DEF Init, Symmetric, HeldTogether, StillApart
  <2> QED BY <2>1, LinkInit DEF TrafficInv
<1>2. TrafficInv /\ [Next]_vars => TrafficInv'
  <2> SUFFICES ASSUME TrafficInv, [Next]_vars PROVE TrafficInv'
    OBVIOUS
  <2>1. LinkInv /\ LinkInv'
    BY LinkStep DEF TrafficInv
  <2>2. CASE Unmoved
    <3>1. L' = L /\ Services' = Services /\ UNCHANGED <<Dist, clusters, height, live>>
      BY <2>2 DEF Unmoved, Services, L
    <3>2. \A g : Members(g)' = Members(g)
      BY <3>1 DEF Members
    <3>3. (Symmetric /\ HeldTogether)'
      BY <3>1 DEF TrafficInv, Symmetric, HeldTogether
    <3>4. StillApart'
      BY <3>1, <3>2 DEF TrafficInv, StillApart
    <3> QED BY <2>1, <3>3, <3>4 DEF TrafficInv
  <2>3. ASSUME NEW a \in live, NEW b \in live, NEW w \in Weights, Merge(a, b, w)
        PROVE  TrafficInv'
    <3>1. (HeldTogether /\ StillApart)'
      BY <2>3, TrafficMerge
    <3>2. Symmetric'
      BY <2>3 DEF Merge, TrafficInv, Symmetric, Services, L
    <3> QED BY <2>1, <3>1, <3>2 DEF TrafficInv
  <2> QED BY <2>1, <2>2, <2>3, RowOrNot
<1>3. TrafficInv => FollowsTraffic
  BY DEF TrafficInv, HeldTogether, StillApart, FollowsTraffic
<1> QED BY <1>1, <1>2, <1>3, PTL DEF Spec

-----------------------------------------------------------------------------
(* Why the scheduler's model may take any file of module Clusters for the  *)
(* script's: each row is the union of two disjoint earlier clusters.       *)
Joins ==
  \A c \in L .. (next - 1) : \E a, b \in 0 .. (c - 1) :
     Members(a) \cap Members(b) = {} /\ Members(c) = Members(a) \cup Members(b)

LoadableInv == LinkInv /\ Joins /\ FileIsLoadable

LEMMA JoinsMerge ==
  ASSUME LinkInv, Joins, NEW a \in live, NEW b \in live, NEW w \in Weights, Merge(a, b, w)
  PROVE  Joins'
<1>1. /\ next' = next + 1 /\ L' = L /\ a # b
      /\ next \in Nat /\ L \in Nat /\ next >= L
      /\ a \in 0 .. (next - 1) /\ b \in 0 .. (next - 1)
      /\ \A g : g = next => Members(g)' = Members(a) \cup Members(b)
      /\ \A g \in 0 .. (next - 1) : Members(g)' = Members(g)
  BY RowMade DEF L
<1>2. Members(a) \cap Members(b) = {}
  <2>1. Members(a) = Tree[a] /\ Members(b) = Tree[b]
    BY <1>1, MembersFacts
  <2>2. Tree[a] \cap Tree[b] = {}
    BY <1>1 DEF LinkInv, Forest, IsForest
  <2> QED BY <2>1, <2>2
<1> SUFFICES ASSUME NEW c \in L .. next
             PROVE  \E d, e \in 0 .. (c - 1) :
                       /\ Members(d)' \cap Members(e)' = {}
                       /\ Members(c)' = Members(d)' \cup Members(e)'
  BY <1>1 DEF Joins
<1>3. CASE c = next
  BY <1>1, <1>2, <1>3
<1>4. CASE c # next
  <2>1. c \in L .. (next - 1) /\ c \in 0 .. (next - 1) /\ c - 1 < next
    BY <1>1, <1>4
  <2>2. PICK d \in 0 .. (c - 1), e \in 0 .. (c - 1) :
          Members(d) \cap Members(e) = {} /\ Members(c) = Members(d) \cup Members(e)
    BY <2>1 DEF Joins
  <2>3. d \in 0 .. (next - 1) /\ e \in 0 .. (next - 1)
    BY <1>1, <2>1
  <2> QED BY <1>1, <2>1, <2>2, <2>3
<1> QED BY <1>3, <1>4

LEMMA WrittenLoadable ==
  ASSUME LinkInv, LinkInv', Joins, WriteFile
  PROVE  file' \in C!Files(L)
<1> DEFINE all == 0 .. (L - 1)
           rows == [c \in L .. (2 * L - 3) |-> file'[c]]
<1>1. /\ L \in Nat /\ L >= 2 /\ next = 2 * L - 1 /\ Services = all /\ L' = L
      /\ phase' = "done" /\ Services' = all
  BY DEF WriteFile, LinkInv, OneTree, TypeOK, L, Services
<1>2. DOMAIN clusters = L .. (2 * L - 2)
  BY <1>1 DEF LinkInv, TypeOK
<1>3. /\ DOMAIN file' = 0 .. (2 * L - 2)
      /\ \A s \in all : file'[s] = {s}
      /\ file'[2 * L - 2] = all
      /\ \A c \in DOMAIN file' : file'[c] \subseteq all
      /\ file' = [c \in DOMAIN file' |-> file'[c]]
  BY <1>1 DEF LinkInv, FileComplete, TypeOK
<1>4. \A c \in 0 .. (2 * L - 2) : file'[c] = Members(c)
  BY <1>1, <1>2 DEF WriteFile, Members
<1>5. rows \in [L .. (2 * L - 3) -> SUBSET all]
  BY <1>1, <1>3
<1>6. file' = [c \in 0 .. (2 * L - 2) |->
                 IF c < L THEN {c} ELSE IF c = 2 * L - 2 THEN all ELSE rows[c]]
  <2> SUFFICES ASSUME NEW c \in 0 .. (2 * L - 2)
               PROVE  file'[c] = IF c < L THEN {c}
                                 ELSE IF c = 2 * L - 2 THEN all ELSE rows[c]
    BY <1>3
  <2>1. CASE c < L
    BY <1>1, <1>3, <2>1
  <2>2. CASE c = 2 * L - 2
    BY <1>1, <1>3, <2>2
  <2>3. CASE ~(c < L) /\ c # 2 * L - 2
    <3>1. c \in L .. (2 * L - 3)
      BY <1>1, <2>3
    <3> QED BY <2>3, <3>1
  <2> QED BY <2>1, <2>2, <2>3
<1>7. \A c, d \in DOMAIN file' : c < d => file'[c] \subseteq file'[d] \/ file'[c] \cap file'[d] = {}
  BY DEF LinkInv, FileNested, Nested
<1>8. \A c \in L .. (2 * L - 2) : \E a, b \in 0 .. (c - 1) :
         file'[a] \cap file'[b] = {} /\ file'[c] = file'[a] \cup file'[b]
  <2> SUFFICES ASSUME NEW c \in L .. (2 * L - 2)
               PROVE  \E a, b \in 0 .. (c - 1) :
                         file'[a] \cap file'[b] = {} /\ file'[c] = file'[a] \cup file'[b]
    OBVIOUS
  <2>1. c \in L .. (next - 1) /\ c \in 0 .. (2 * L - 2)
    BY <1>1
  <2>2. PICK a \in 0 .. (c - 1), b \in 0 .. (c - 1) :
          Members(a) \cap Members(b) = {} /\ Members(c) = Members(a) \cup Members(b)
    BY <2>1 DEF Joins
  <2>3. a \in 0 .. (2 * L - 2) /\ b \in 0 .. (2 * L - 2)
    BY <1>1, <2>1
  <2> QED BY <1>4, <2>1, <2>2, <2>3
<1> DEFINE F(rs) == [c \in 0 .. (2 * L - 2) |->
                       IF c < L THEN {c} ELSE IF c = 2 * L - 2 THEN all ELSE rs[c]]
           shaped == {F(rs) : rs \in [L .. (2 * L - 3) -> SUBSET all]}
<1>9. file' \in shaped
  <2> HIDE DEF rows
  <2>1. file' = F(rows)
    BY <1>6
  <2> HIDE DEF F
  <2> QED BY <1>5, <2>1
<1>10. C!Files(L) =
         {f \in shaped : /\ \A c, d \in DOMAIN f :
                              c < d => f[c] \subseteq f[d] \/ f[c] \cap f[d] = {}
                         /\ \A c \in L .. (2 * L - 2) : \E a, b \in 0 .. (c - 1) :
                              f[a] \cap f[b] = {} /\ f[c] = f[a] \cup f[b]}
  BY DEF C!Files
<1> HIDE DEF shaped
<1> QED BY <1>7, <1>8, <1>9, <1>10

(* Every file the script writes is one the scheduler's model loads.        *)
THEOREM FileLoadable == Spec => []FileIsLoadable
<1>1. Init => LoadableInv
  <2> SUFFICES ASSUME Init PROVE LoadableInv
    OBVIOUS
  <2>1. Joins /\ FileIsLoadable
    BY DEF Init, Joins, FileIsLoadable, L
  <2> QED BY <2>1, LinkInit DEF LoadableInv
<1>2. LoadableInv /\ [Next]_vars => LoadableInv'
  <2> SUFFICES ASSUME LoadableInv, [Next]_vars PROVE LoadableInv'
    OBVIOUS
  <2>1. LinkInv /\ LinkInv' /\ Joins /\ FileIsLoadable
    BY LinkStep DEF LoadableInv
  <2>2. Joins'
    <3>1. CASE Unmoved
      BY <2>1, <3>1 DEF Unmoved, Joins, Members, L
    <3>2. CASE \E a, b \in live, w \in Weights : Merge(a, b, w)
      BY <2>1, <3>2, JoinsMerge
    <3> QED BY <2>1, <3>1, <3>2, RowOrNot
  <2>3. FileIsLoadable'
    <3>1. CASE WriteFile
      <4>1. file' \in C!Files(L) /\ L = num_services /\ num_services' = num_services
        BY <2>1, <3>1, WrittenLoadable DEF WriteFile, L
      <4> QED BY <4>1 DEF FileIsLoadable
    <3>2. CASE ~WriteFile
      <4>1. /\ phase' = "done" => phase = "done"
            /\ UNCHANGED <<file, num_services>>
        BY <3>2 DEF Next, TooFew, Merge, LastRow, vars
      <4> QED BY <2>1, <4>1 DEF FileIsLoadable
    <3> QED BY <3>1, <3>2
  <2> QED BY <2>1, <2>2, <2>3 DEF LoadableInv
<1>3. LoadableInv => FileIsLoadable
  BY DEF LoadableInv
<1> QED BY <1>1, <1>2, <1>3, PTL DEF Spec
=============================================================================
