-------------------------- MODULE ServiceMapProofs --------------------------
(***************************************************************************)
(* The service map for every list of athena pods and every list of         *)
(* samples: it has the type it should have, high.py can divide by each of  *)
(* its entries, every byte of a sample is in them, and a listing that      *)
(* starts with the athena pods causes no panic.                            *)
(***************************************************************************)
EXTENDS ServiceMap, FiniteFacts

(* The lists are in order, so that their elements have a type.             *)
LEMMA SampleType ==
  ASSUME received \in Seq(Sample), sent \in Seq(Sample),
         read \in Nat, read < Len(Samples)
  PROVE  Current \in Sample
BY DEF Samples, Current

(* podMap finds a pod of the application, if there is one.                 *)
LEMMA PodMapped ==
  ASSUME pods \in Seq([Id : Nat, app : App]), NEW app, Known(app)
  PROVE  \E j \in 1 .. l : podMap(app) = pods[j].Id
<1>1. l \in Nat
  BY DEF l
<1> DEFINE S == {j \in 1 .. l : pods[j].app = app}
           T == {l - j : j \in S}
<1>2. T \subseteq Nat /\ T # {}
  BY <1>1 DEF Known
<1>3. Lowest(T) \in T /\ \A m \in T : Lowest(T) <= m
  <2> HIDE DEF T
  <2> QED BY <1>2, LowestExists
<1>4. PICK j \in S : Lowest(T) = l - j
  BY <1>3
<1>5. ASSUME NEW k \in S PROVE k <= j
  <2>1. l - k \in T
    OBVIOUS
  <2>2. l - j <= l - k
    <3> HIDE DEF T
    <3> QED BY <1>3, <1>4, <2>1
  <2>3. k \in Int /\ j \in Int
    BY <1>1, <1>4
  <2> HIDE DEF S, T
  <2> QED BY <1>1, <2>2, <2>3
<1>6. \A k \in (j + 1) .. l : pods[k].app # app
  BY <1>1, <1>5
<1> DEFINE last == CHOOSE i \in 1 .. l : /\ pods[i].app = app
                                         /\ \A k \in (i + 1) .. l : pods[k].app # app
<1>7. last \in 1 .. l
  BY <1>4, <1>6
<1>8. podMap(app) = pods[last].Id
  BY DEF podMap
<1> HIDE DEF last
<1> QED BY <1>7, <1>8

(* A sample whose ends are in range adds to one entry.                     *)
LEMMA AddedType ==
  ASSUME temp \in [Rows -> [Rows -> Nat]], NEW s \in Sample
  PROVE  Added(s) \in [Rows -> [Rows -> Nat]]
<1>1. s.n \in Nat
  BY BytesAssumption DEF Sample
<1> DEFINE i == podMap(s.to)
           j == podMap(s.from)
<1>2. Added(s) = [temp EXCEPT ![i] = [temp[i] EXCEPT ![j] = temp[i][j] + s.n]]
  BY DEF Added
<1> HIDE DEF i, j
<1>3. CASE i \in Rows
  <2>1. temp[i] \in [Rows -> Nat]
    BY <1>3
  <2>2. [temp[i] EXCEPT ![j] = temp[i][j] + s.n] \in [Rows -> Nat]
    <3>1. CASE j \in Rows
      <4>1. temp[i][j] + s.n \in Nat
        BY <1>1, <2>1, <3>1
      <4> QED BY <2>1, <4>1
    <3>2. CASE j \notin Rows
      BY <2>1, <3>2
    <3> QED BY <3>1, <3>2
  <2> QED BY <1>2, <2>2
<1>4. CASE i \notin Rows
  <2>1. Added(s) = temp
    BY <1>2, <1>4
  <2> QED BY <2>1
<1> QED BY <1>3, <1>4

(* The bandwidth of two rows is a positive number, the same both ways.     *)
LEMMA BandwidthPositive ==
  ASSUME temp \in [Rows -> [Rows -> Nat]], NEW i \in Rows, NEW j \in Rows
  PROVE  /\ Bandwidth(i, j) \in Nat \ {0}
         /\ Bandwidth(i, j) = Bandwidth(j, i)
<1>1. temp[i][j] \in Nat /\ temp[j][i] \in Nat
  OBVIOUS
<1> QED BY <1>1 DEF Bandwidth

-----------------------------------------------------------------------------
(* The inductive invariant: the types, the finished matrix, and the order  *)
(* of the Ids being what it was.                                           *)
MapInv == TypeOK /\ Divisible /\ NoPanic

LEMMA MapInit == Init => MapInv
<1> SUFFICES ASSUME Init PROVE MapInv
  OBVIOUS
<1>1. Len(received) \in Nat /\ Len(sent) \in Nat /\ Len(Samples) \in Nat
  BY DEF Init, Samples
<1> QED BY <1>1 DEF Init, MapInv, TypeOK, Divisible, NoPanic

LEMMA MapStep == MapInv /\ [Next]_vars => MapInv'
<1> SUFFICES ASSUME MapInv, [Next]_vars PROVE MapInv'
  OBVIOUS
<1> USE DEF MapInv
<1>0. Len(Samples) \in Nat /\ read \in Nat
  BY DEF TypeOK, Samples
<1>1. CASE Read
  <2>1. UNCHANGED <<pods, received, sent, weight, phase, l, Rows, Samples>>
    BY <1>1 DEF Read, l, Rows, Samples
  <2>2. Current \in Sample
    BY <1>0, <1>1, SampleType DEF Read, TypeOK
  <2>3. temp' \in [Rows -> [Rows -> Nat]]
    BY <1>1, <2>2, AddedType DEF Read, TypeOK
  <2>4. read' \in 0 .. Len(Samples)
    BY <1>0, <1>1 DEF Read, TypeOK
  <2>5. TypeOK'
    BY <2>1, <2>3, <2>4 DEF TypeOK
  <2>6. Divisible' /\ NoPanic'
    BY <2>1 DEF Divisible, NoPanic, Aligned
  <2> QED BY <2>5, <2>6
<1>2. CASE Panic
  <2>1. UNCHANGED <<pods, received, sent, read, temp, weight, l, Rows, Samples>>
    BY <1>2 DEF Panic, l, Rows, Samples
  <2>2. TypeOK' /\ Divisible'
    BY <1>2, <2>1 DEF Panic, TypeOK, Divisible
  <2>3. ~Aligned
    <3> SUFFICES ASSUME Aligned PROVE FALSE
      OBVIOUS
    <3>1. \A app : Known(app) => podMap(app) \in Rows
      <4> SUFFICES ASSUME NEW app, Known(app) PROVE podMap(app) \in Rows
        OBVIOUS
      <4>1. PICK j \in 1 .. l : podMap(app) = pods[j].Id
        BY PodMapped DEF TypeOK
      <4>2. l \in Nat
        BY DEF TypeOK, l
      <4> QED BY <4>1, <4>2 DEF Aligned, Rows
    <3> QED BY <1>2, <3>1 DEF Panic, Counts, InRange
  <2>4. NoPanic'
    BY <2>1, <2>3 DEF NoPanic, Aligned
  <2> QED BY <2>2, <2>4
<1>3. CASE Transform
  <2>1. UNCHANGED <<pods, received, sent, read, temp, l, Rows, Samples>>
    BY <1>3 DEF Transform, l, Rows, Samples
  <2>2. \A i, j \in Rows : weight'[i][j] = Bandwidth(i, j)
    BY <1>3 DEF Transform
  <2>3. \A i, j \in Rows : /\ Bandwidth(i, j) \in Nat \ {0}
                           /\ Bandwidth(i, j) = Bandwidth(j, i)
    BY BandwidthPositive DEF TypeOK
  <2>4. weight' \in [Rows -> [Rows -> Nat]]
    BY <1>3, <2>3 DEF Transform
  <2>5. TypeOK'
    BY <1>3, <2>1, <2>4 DEF Transform, TypeOK
  <2>6. Divisible'
    BY <2>1, <2>2, <2>3 DEF Divisible
  <2>7. NoPanic'
    BY <1>3 DEF Transform, NoPanic
  <2> QED BY <2>5, <2>6, <2>7
<1>4. CASE UNCHANGED vars
  BY <1>4 DEF vars, TypeOK, Divisible, NoPanic, Aligned, Samples, Rows, l
<1> QED BY <1>1, <1>2, <1>3, <1>4 DEF Next

(* The matrix servicemap_generator returns is symmetric and has no zero,   *)
(* so high.py 28 never divides by one.                                     *)
THEOREM MapDivisible == Spec => []Divisible
<1>1. MapInv => Divisible
  BY DEF MapInv
<1> QED BY <1>1, MapInit, MapStep, PTL DEF Spec

(* serviceMap_temp is indexed in range whenever the athena pods are the    *)
(* first in the listing (scheduler.go 485, 500).                           *)
THEOREM MapInRange == Spec => []NoPanic
<1>1. MapInv => NoPanic
  BY DEF MapInv
<1> QED BY <1>1, MapInit, MapStep, PTL DEF Spec

-----------------------------------------------------------------------------
(* Whatever is read so far is in the matrix, for every pair of pods.       *)
ReadCounted ==
  \A i, j \in Rows : i # j => temp[i][j] + temp[j][i] = Traffic(i, j, read)

(* The numbers that are added up, and the sets they are added up over.     *)
LEMMA TrafficSets ==
  ASSUME received \in Seq(Sample), sent \in Seq(Sample), NEW i, NEW j, NEW k \in Nat
  PROVE  /\ \A m \in 1 .. Len(Samples) : Samples[m].n \in Nat
         /\ IsFiniteSet({m \in 1 .. k : Between(Samples[m], i, j)})
<1>1. \A m \in 1 .. Len(Samples) : Samples[m] \in Sample
  BY DEF Samples
<1>2. IsFiniteSet(1 .. k)
  BY FS_Interval
<1> QED BY <1>1, <1>2, FS_Subset, BytesAssumption DEF Sample

(* One sample more adds its bytes if it is between the two, else nothing.  *)
LEMMA TrafficNext ==
  ASSUME received \in Seq(Sample), sent \in Seq(Sample),
         NEW i, NEW j, NEW k \in Nat, k < Len(Samples)
  PROVE  Traffic(i, j, k + 1) =
           Traffic(i, j, k) + (IF Between(Samples[k + 1], i, j) THEN Samples[k + 1].n ELSE 0)
<1> DEFINE S(h) == {m \in 1 .. h : Between(Samples[m], i, j)}
           f    == [m \in 1 .. Len(Samples) |-> Samples[m].n]
<1>1. Len(Samples) \in Nat
  BY DEF Samples
<1>2. IsFiniteSet(S(k)) /\ \A m \in 1 .. Len(Samples) : f[m] \in Nat
  BY TrafficSets
<1>3. k + 1 \notin S(k) /\ S(k) \subseteq 1 .. Len(Samples) /\ k + 1 \in 1 .. Len(Samples)
  BY <1>1
<1>4. Traffic(i, j, k) = SumFunctionOnSet(f, S(k))
  BY DEF Traffic
<1>5. Traffic(i, j, k + 1) = SumFunctionOnSet(f, S(k + 1))
  BY DEF Traffic
<1>6. CASE Between(Samples[k + 1], i, j)
  <2>1. S(k + 1) = S(k) \cup {k + 1}
    BY <1>1, <1>6
  <2>2. f[k + 1] = Samples[k + 1].n
    BY <1>3
  <2>3. SumFunctionOnSet(f, S(k)) \in Nat
    <3> HIDE DEF S, f
    <3> QED BY <1>2, <1>3, SumNat
  <2>4. SumFunctionOnSet(f, S(k) \cup {k + 1}) = f[k + 1] + SumFunctionOnSet(f, S(k))
    <3> HIDE DEF S, f
    <3> QED BY <1>2, <1>3, SumAdd
  <2>5. f[k + 1] \in Nat
    BY <1>2, <1>3
  <2>6. Traffic(i, j, k + 1) = f[k + 1] + Traffic(i, j, k)
    <3> HIDE DEF S, f
    <3> QED BY <1>4, <1>5, <2>1, <2>4
  <2>7. Traffic(i, j, k) \in Nat
    BY <1>4, <2>3
  <2> HIDE DEF S, f
  <2> QED BY <1>6, <2>2, <2>5, <2>6, <2>7
<1>7. CASE ~Between(Samples[k + 1], i, j)
  <2>1. S(k + 1) = S(k)
    BY <1>1, <1>7
  <2>2. SumFunctionOnSet(f, S(k)) \in Nat
    <3> HIDE DEF S, f
    <3> QED BY <1>2, <1>3, SumNat
  <2> HIDE DEF S, f
  <2> QED BY <1>4, <1>5, <1>7, <2>1, <2>2
<1> QED BY <1>6, <1>7

(* What Added does to the two entries of a pair.                           *)
LEMMA AddedBetween ==
  ASSUME temp \in [Rows -> [Rows -> Nat]], NEW s \in Sample, Counts(s), InRange(s),
         NEW i \in Rows, NEW j \in Rows, i # j
  PROVE  Added(s)[i][j] + Added(s)[j][i] =
           temp[i][j] + temp[j][i] + (IF Between(s, i, j) THEN s.n ELSE 0)
<1>1. s.n \in Nat
  BY BytesAssumption DEF Sample
<1> DEFINE a == podMap(s.to)
           b == podMap(s.from)
<1>2. a \in Rows /\ b \in Rows
  BY DEF InRange
<1>3. Between(s, i, j) <=> {a, b} = {i, j}
  BY DEF Between
<1>4. Added(s) = [temp EXCEPT ![a] = [temp[a] EXCEPT ![b] = temp[a][b] + s.n]]
  BY DEF Added
<1> HIDE DEF a, b
<1>5. \A g, h \in Rows :
        Added(s)[g][h] = IF g = a /\ h = b THEN temp[g][h] + s.n ELSE temp[g][h]
  <2> SUFFICES ASSUME NEW g \in Rows, NEW h \in Rows
               PROVE  Added(s)[g][h] = IF g = a /\ h = b THEN temp[g][h] + s.n ELSE temp[g][h]
    OBVIOUS
  <2>1. temp[g] \in [Rows -> Nat]
    OBVIOUS
  <2>2. Added(s)[g] = IF g = a THEN [temp[g] EXCEPT ![b] = temp[g][b] + s.n] ELSE temp[g]
    BY <1>4
  <2> QED BY <2>1, <2>2
<1>6. temp[i][j] \in Nat /\ temp[j][i] \in Nat
  OBVIOUS
<1>7. CASE a = i /\ b = j
  BY <1>1, <1>3, <1>5, <1>6, <1>7
<1>8. CASE a = j /\ b = i
  BY <1>1, <1>3, <1>5, <1>6, <1>8
<1>9. CASE ~(a = i /\ b = j) /\ ~(a = j /\ b = i)
  <2>1. {a, b} # {i, j}
    BY <1>9
  <2>2. Added(s)[i][j] = temp[i][j] /\ Added(s)[j][i] = temp[j][i]
    BY <1>5, <1>9
  <2>3. ~Between(s, i, j)
    BY <1>3, <2>1
  <2> QED BY <1>6, <2>2, <2>3
<1> QED BY <1>7, <1>8, <1>9

LEMMA CountInit == Init => ReadCounted
<1> SUFFICES ASSUME Init, NEW i \in Rows, NEW j \in Rows
             PROVE  temp[i][j] + temp[j][i] = Traffic(i, j, read)
  BY DEF ReadCounted
<1>1. {m \in 1 .. 0 : Between(Samples[m], i, j)} = {}
  OBVIOUS
<1>2. Traffic(i, j, 0) = 0
  BY <1>1, SumEmpty DEF Traffic
<1> QED BY <1>2 DEF Init

LEMMA CountStep == MapInv /\ ReadCounted /\ [Next]_vars => ReadCounted'
<1> SUFFICES ASSUME MapInv, ReadCounted, [Next]_vars
             PROVE  ReadCounted'
  OBVIOUS
<1>0. TypeOK
  BY DEF MapInv
<1>1. UNCHANGED <<pods, received, sent>>
  BY DEF Next, Read, Panic, Transform, vars
<1>2. UNCHANGED <<Rows, Samples, l>> /\ \A i, j, k : Traffic(i, j, k)' = Traffic(i, j, k)
  BY <1>1 DEF Rows, Samples, l, Traffic, Between, Counts, Known, podMap
<1>3. CASE Read
  <2> SUFFICES ASSUME NEW i \in Rows, NEW j \in Rows, i # j
               PROVE  temp'[i][j] + temp'[j][i] = Traffic(i, j, read')
    BY <1>2 DEF ReadCounted
  <2>1. read \in Nat /\ read < Len(Samples) /\ read' = read + 1
    BY <1>0, <1>3 DEF Read, TypeOK
  <2>2. Current \in Sample /\ Current = Samples[read + 1]
    BY <1>0, <2>1, SampleType DEF Current, TypeOK
  <2>3. Traffic(i, j, read') =
          Traffic(i, j, read) + (IF Between(Current, i, j) THEN Current.n ELSE 0)
    BY <1>0, <2>1, <2>2, TrafficNext DEF TypeOK
  <2>4. temp[i][j] + temp[j][i] = Traffic(i, j, read)
    BY DEF ReadCounted
  <2>5. CASE Counts(Current)
    <3>1. InRange(Current) /\ temp' = Added(Current)
      BY <1>3, <2>5 DEF Read
    <3> QED BY <1>0, <2>2, <2>3, <2>4, <2>5, <3>1, AddedBetween DEF TypeOK
  <2>6. CASE ~Counts(Current)
    <3>1. temp' = temp /\ ~Between(Current, i, j)
      BY <1>3, <2>6 DEF Read, Between
    <3>2. temp[i][j] \in Nat /\ temp[j][i] \in Nat
      BY <1>0 DEF TypeOK
    <3> QED BY <2>3, <2>4, <3>1, <3>2
  <2> QED BY <2>5, <2>6
<1>4. CASE Panic \/ Transform \/ UNCHANGED vars
  <2>1. UNCHANGED <<read, temp>>
    BY <1>4 DEF Panic, Transform, vars
  <2> QED BY <1>2, <2>1 DEF ReadCounted
<1> QED BY <1>3, <1>4 DEF Next

(* The weights are made from the full matrix.                              *)
LEMMA WeightsCounted ==
  MapInv /\ ReadCounted /\ TrafficCounted /\ [Next]_vars => TrafficCounted'
<1> SUFFICES ASSUME MapInv, ReadCounted, TrafficCounted, [Next]_vars
             PROVE  TrafficCounted'
  OBVIOUS
<1>1. UNCHANGED <<pods, received, sent>>
  BY DEF Next, Read, Panic, Transform, vars
<1>2. UNCHANGED <<Rows, Samples, l>> /\ \A i, j : Total(i, j)' = Total(i, j)
  BY <1>1 DEF Rows, Samples, l, Total, Traffic, Between, Counts, Known, podMap
<1>3. CASE Transform
  <2>1. \A i, j \in Rows : i # j => temp[i][j] + temp[j][i] = Total(i, j)
    BY <1>3 DEF Transform, ReadCounted, Total
  <2>2. \A i, j \in Rows : weight'[i][j] = Bandwidth(i, j)
    BY <1>3 DEF Transform
  <2> QED BY <1>2, <2>1, <2>2 DEF TrafficCounted, Bandwidth
<1>4. CASE Read \/ Panic
  BY <1>4 DEF Read, Panic, TrafficCounted
<1>5. CASE UNCHANGED vars
  BY <1>2, <1>5 DEF vars, TrafficCounted
<1> QED BY <1>3, <1>4, <1>5 DEF Next

(* No byte is lost or put down to the wrong pair, however many samples     *)
(* there are and in whatever order and direction Istio reports them        *)
(* (scheduler.go 475-512).                                                 *)
THEOREM AllTrafficCounted == Spec => []TrafficCounted
<1>1. Init => TrafficCounted
  BY DEF Init, TrafficCounted
<1> QED BY <1>1, MapInit, MapStep, CountInit, CountStep, WeightsCounted, PTL DEF Spec
=============================================================================
