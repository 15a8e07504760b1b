--------------------------- MODULE PrometheusProofs -------------------------
(***************************************************************************)
(* Theorems about the Prometheus data model, for all documents, label sets *)
(* and lists of alerts.                                                    *)
(*                                                                         *)
(* Before is a strict total order of label sets, which is what sort.Sort   *)
(* needs of it.  The lemmas about first differing names turn it into the   *)
(* statement of its comment: Before decides at a name below which the sets *)
(* agree.                                                                  *)
(*                                                                         *)
(* Then: the loop of sort.Sort brings what was decoded into that order; the*)
(* status of alerts; durations and times, whose texts give them back; and  *)
(* the bytes hashed for fingerprints, from which the labels are known.     *)
(***************************************************************************)
EXTENDS Prometheus, FiniteFacts, SequenceTheorems

(* At n, which ls lacks or has with the smaller value, the sets differ for *)
(* the first time.                                                         *)
DecidesAt(n, ls, o) ==
  /\ \A x \in Nat : x < n => x \notin Differ(ls, o)
  /\ n \in DOMAIN o
  /\ n \in DOMAIN ls => ls[n] < o[n]

(* The number of labels of a label set is a natural number, and its names  *)
(* and values are.                                                         *)
LEMMA LabelSetFacts ==
  ASSUME NEW ls, IsLabelSet(ls)
  PROVE  /\ Cardinality(DOMAIN ls) \in Nat
         /\ DOMAIN ls \subseteq Nat
         /\ \A n \in DOMAIN ls : ls[n] \in Nat
BY FS_CardinalityType DEF IsLabelSet

(* Sets of equal size are ordered by the first name at which they differ.  *)
LEMMA BeforeDecides ==
  ASSUME NEW ls, NEW o, IsLabelSet(ls), IsLabelSet(o),
         Cardinality(DOMAIN ls) = Cardinality(DOMAIN o)
  PROVE  Before(ls, o) <=> \E n \in Nat : DecidesAt(n, ls, o)
<1> DEFINE D == Differ(ls, o)
           first == Lowest(D)
<1>1. D \subseteq Nat
  BY LabelSetFacts DEF Differ
<1>2. D # {} => /\ first \in D /\ first \in Nat
                /\ \A x \in D : first <= x
  BY <1>1, LowestExists
<1>3. ~(Cardinality(DOMAIN ls) < Cardinality(DOMAIN o))
  BY LabelSetFacts
<1>4. ASSUME Before(ls, o)
      PROVE  DecidesAt(first, ls, o) /\ first \in Nat
  <2>1. /\ D # {}
        /\ \/ first \in DOMAIN o \ DOMAIN ls
           \/ first \in DOMAIN ls \cap DOMAIN o /\ ls[first] < o[first]
    BY <1>3, <1>4 DEF Before
  <2>2. \A x \in Nat : x < first => x \notin D
    BY <1>2, <2>1
  <2> QED BY <1>2, <2>1, <2>2 DEF DecidesAt
<1>5. ASSUME NEW n \in Nat, DecidesAt(n, ls, o)
      PROVE  Before(ls, o)
  <2>1. n \in D
    <3>1. n \in DOMAIN o /\ (n \in DOMAIN ls => ls[n] < o[n])
      BY <1>5 DEF DecidesAt
    <3>2. n \in DOMAIN ls => ls[n] # o[n]
      BY <3>1, LabelSetFacts
    <3> QED BY <3>1, <3>2 DEF Differ
  <2>2. first = n
    <3>1. first \in Nat /\ first <= n /\ first \in D
      BY <1>2, <2>1
    <3>2. ~(first < n)
      BY <1>5, <3>1 DEF DecidesAt
    <3> QED BY <3>1, <3>2
  <2>3. \/ n \in DOMAIN o \ DOMAIN ls
        \/ n \in DOMAIN ls \cap DOMAIN o /\ ls[n] < o[n]
    BY <1>5 DEF DecidesAt
  <2> QED BY <2>1, <2>2, <2>3 DEF Before
<1> QED BY <1>4, <1>5

(* Both ways, a name is where the sets differ or not.                      *)
LEMMA DifferSymmetric ==
  ASSUME NEW ls, NEW o
  PROVE  Differ(ls, o) = Differ(o, ls)
BY DEF Differ

(* Two different label sets are ordered, one way or the other.             *)
THEOREM BeforeTotal ==
  ASSUME NEW ls, NEW o, IsLabelSet(ls), IsLabelSet(o), ls # o
  PROVE  Before(ls, o) \/ Before(o, ls)
<1>1. CASE Cardinality(DOMAIN ls) # Cardinality(DOMAIN o)
  BY <1>1, LabelSetFacts DEF Before
<1>2. CASE Cardinality(DOMAIN ls) = Cardinality(DOMAIN o)
  <2> DEFINE D == Differ(ls, o)
             first == Lowest(D)
  <2>1. D # {}
    <3> SUFFICES ASSUME D = {} PROVE FALSE
      OBVIOUS
    <3>1. DOMAIN ls = DOMAIN o
      BY DEF Differ
    <3>2. \A n \in DOMAIN ls : ls[n] = o[n]
      BY <3>1 DEF Differ
    <3> QED BY <3>1, <3>2 DEF IsLabelSet
  <2>2. D \subseteq Nat
    BY LabelSetFacts DEF Differ
  <2>3. first \in D /\ first \in Nat /\ \A x \in D : first <= x
    BY <2>1, <2>2, LowestExists
  <2>4. \A x \in Nat : x < first => x \notin D
    BY <2>3
  <2>5. \/ first \in DOMAIN o /\ (first \in DOMAIN ls => ls[first] < o[first])
        \/ first \in DOMAIN ls /\ (first \in DOMAIN o => o[first] < ls[first])
    <3>1. \/ first \in DOMAIN o \ DOMAIN ls
          \/ first \in DOMAIN ls \ DOMAIN o
          \/ first \in DOMAIN ls \cap DOMAIN o /\ ls[first] # o[first]
      BY <2>3 DEF Differ
    <3> QED BY <3>1, LabelSetFacts
  <2>6. DecidesAt(first, ls, o) \/ DecidesAt(first, o, ls)
    BY <2>4, <2>5, DifferSymmetric DEF DecidesAt
  <2> QED BY <1>2, <2>3, <2>6, BeforeDecides
<1> QED BY <1>1, <1>2

(* No two label sets come before each other, and none before itself.       *)
THEOREM BeforeAsymmetric ==
  ASSUME NEW ls, NEW o, IsLabelSet(ls), IsLabelSet(o), Before(ls, o)
  PROVE  ~Before(o, ls)
<1>1. CASE Cardinality(DOMAIN ls) # Cardinality(DOMAIN o)
  BY <1>1, LabelSetFacts DEF Before
<1>2. CASE Cardinality(DOMAIN ls) = Cardinality(DOMAIN o)
  <2> SUFFICES ASSUME Before(o, ls) PROVE FALSE
    OBVIOUS
  <2>1. PICK n \in Nat : DecidesAt(n, ls, o)
    BY <1>2, BeforeDecides
  <2>2. PICK k \in Nat : DecidesAt(k, o, ls)
    BY <1>2, BeforeDecides
  <2>3. n \in Differ(ls, o) /\ k \in Differ(ls, o)
    BY <2>1, <2>2, LabelSetFacts DEF DecidesAt, Differ
  <2>4. n = k
    BY <2>1, <2>2, <2>3, DifferSymmetric DEF DecidesAt
  <2> QED BY <2>1, <2>2, <2>4, LabelSetFacts DEF DecidesAt
<1> QED BY <1>1, <1>2

(* What is before a label set that is before a third is before the third.  *)
THEOREM BeforeTransitive ==
  ASSUME NEW a, NEW b, NEW c, IsLabelSet(a), IsLabelSet(b), IsLabelSet(c),
         Before(a, b), Before(b, c)
  PROVE  Before(a, c)
<1>1. /\ Cardinality(DOMAIN a) <= Cardinality(DOMAIN b)
      /\ Cardinality(DOMAIN b) <= Cardinality(DOMAIN c)
  BY LabelSetFacts DEF Before
<1>2. CASE Cardinality(DOMAIN a) < Cardinality(DOMAIN c)
  BY <1>2 DEF Before
<1>3. CASE ~(Cardinality(DOMAIN a) < Cardinality(DOMAIN c))
  <2>1. /\ Cardinality(DOMAIN a) = Cardinality(DOMAIN b)
        /\ Cardinality(DOMAIN b) = Cardinality(DOMAIN c)
        /\ Cardinality(DOMAIN a) = Cardinality(DOMAIN c)
    BY <1>1, <1>3, LabelSetFacts
  <2>2. PICK n \in Nat : DecidesAt(n, a, b)
    BY <2>1, BeforeDecides
  <2>3. PICK k \in Nat : DecidesAt(k, b, c)
    BY <2>1, BeforeDecides
  <2>4. ASSUME NEW x \in Nat, x \notin Differ(a, b), x \notin Differ(b, c)
        PROVE  x \notin Differ(a, c)
    BY <2>4 DEF Differ
  <2>5. CASE n < k
    <3>1. n \notin Differ(b, c)
      BY <2>3, <2>5 DEF DecidesAt
    <3>2. n \in DOMAIN c /\ (n \in DOMAIN a => a[n] < c[n])
      BY <2>2, <3>1 DEF DecidesAt, Differ
    <3>3. \A x \in Nat : x < n => x \notin Differ(a, c)
      BY <2>2, <2>3, <2>4, <2>5 DEF DecidesAt
    <3> QED BY <2>1, <3>2, <3>3, BeforeDecides DEF DecidesAt
  <2>6. CASE k < n
    <3>1. k \notin Differ(a, b)
      BY <2>2, <2>6 DEF DecidesAt
    <3>2. k \in DOMAIN c /\ (k \in DOMAIN a => a[k] < c[k])
      BY <2>3, <3>1 DEF DecidesAt, Differ
    <3>3. \A x \in Nat : x < k => x \notin Differ(a, c)
      BY <2>2, <2>3, <2>4, <2>6 DEF DecidesAt
    <3> QED BY <2>1, <3>2, <3>3, BeforeDecides DEF DecidesAt
  <2>7. CASE n = k
    <3>1. n \in DOMAIN c /\ (n \in DOMAIN a => a[n] < c[n])
      BY <2>2, <2>3, <2>7, LabelSetFacts DEF DecidesAt
    <3>2. \A x \in Nat : x < n => x \notin Differ(a, c)
      BY <2>2, <2>3, <2>4, <2>7 DEF DecidesAt
    <3> QED BY <2>1, <3>1, <3>2, BeforeDecides DEF DecidesAt
  <2> QED BY <2>5, <2>6, <2>7
<1> QED BY <1>2, <1>3

-----------------------------------------------------------------------------
(* A matrix that is printed, and a vector that a caller has sorted, are in *)
(* order: Before totally orders the metrics, so Less is an order that the  *)
(* insertion sort of sort.Sort can work with.                              *)

(* s may stand before o in a sorted result.                                *)
NotAfter(s, o) ==
  \/ Before(s.metric, o.metric)
  \/ s.metric = o.metric /\ (doc.type = "vector" => s.time <= o.time)

(* Up to the i-th, every sample but the one that moves down stands after   *)
(* what it may not precede.                                                *)
PrefixSorted ==
  \A n, k \in 1 .. Len(sorted) :
    n < k /\ k <= i /\ k # j => NotAfter(sorted[n], sorted[k])

Permuted ==
  /\ Len(sorted) = Len(result)
  /\ \E p \in Injection(1 .. Len(sorted), 1 .. Len(sorted)) :
       \A k \in 1 .. Len(sorted) : sorted[k] = result[p[k]]

(* sort.Sort has returned: to the String of a Matrix, or to a caller.      *)
Finished == (phase = "printed" /\ doc.type = "matrix") \/ phase = "sorted"

QueryInv ==
  /\ QueryTypeOK
  /\ phase \in {"received", "decoded"} => i = 1 /\ j = 1
  /\ phase = "sorting" \/ Finished =>
       PrefixSorted /\ Permuted /\ (i > Len(sorted) => j = i)
  /\ Finished => i > Len(sorted)

(* Samples that are decoded have label sets and numbers for times.         *)
LEMMA DecodedFacts ==
  ASSUME NEW s \in Decoded
  PROVE  IsLabelSet(s.metric) /\ s.time \in Int
BY DocumentsAssumption DEF IsSample

(* The order of a sorted result is transitive.                             *)
LEMMA NotAfterTransitive ==
  ASSUME NEW a \in Decoded, NEW b \in Decoded, NEW c \in Decoded,
         NotAfter(a, b), NotAfter(b, c)
  PROVE  NotAfter(a, c)
<1>1. CASE Before(a.metric, b.metric) /\ Before(b.metric, c.metric)
  BY <1>1, DecodedFacts, BeforeTransitive DEF NotAfter
<1>2. CASE ~(Before(a.metric, b.metric) /\ Before(b.metric, c.metric))
  BY <1>2, DecodedFacts DEF NotAfter
<1> QED BY <1>1, <1>2

(* Less says which of two samples may not be first, and the one that is    *)
(* less may be.                                                            *)
LEMMA LessFacts ==
  ASSUME NEW s \in Decoded, NEW o \in Decoded
  PROVE  /\ Less(s, o) => NotAfter(s, o)
         /\ ~Less(s, o) => NotAfter(o, s)
<1>1. s.metric # o.metric => Before(s.metric, o.metric) \/ Before(o.metric, s.metric)
  BY DecodedFacts, BeforeTotal
<1>2. s.time \in Int /\ o.time \in Int
  BY DecodedFacts
<1>3. s.metric = o.metric => ~Before(s.metric, o.metric)
  BY DecodedFacts, BeforeAsymmetric
<1> QED BY <1>1, <1>2, <1>3 DEF Less, MatrixLess, VectorLess, NotAfter

(* Before orders label sets as its comment says.                           *)
LEMMA BeforeAsDocumented ==
  ASSUME NEW m, NEW o, IsLabelSet(m), IsLabelSet(o), Before(m, o)
  PROVE  SeriesFirst(m, o)
<1>1. CASE Cardinality(DOMAIN m) < Cardinality(DOMAIN o)
  BY <1>1 DEF SeriesFirst
<1>2. CASE ~(Cardinality(DOMAIN m) < Cardinality(DOMAIN o))
  <2>1. Cardinality(DOMAIN m) = Cardinality(DOMAIN o)
    BY <1>2 DEF Before
  <2>2. PICK n \in Nat : DecidesAt(n, m, o)
    BY <2>1, BeforeDecides
  <2>3. AgreeBelow(n, m, o)
    BY <2>2, LabelSetFacts DEF DecidesAt, Differ, AgreeBelow
  <2> QED BY <2>1, <2>2, <2>3 DEF DecidesAt, SeriesFirst
<1> QED BY <1>1, <1>2

(* The invariant holds of the result just received.                        *)
LEMMA QueryInitInv == QueryInit => QueryInv
BY DEF QueryInit, QueryInv, QueryTypeOK, Finished

LEMMA DecodeInv == QueryInv /\ Decode => QueryInv'
<1> SUFFICES ASSUME QueryInv, Decode PROVE QueryInv'
  OBVIOUS
<1>1. result' \in Seq(Decoded)
  <2>1. CASE phase' = "failed"
    BY <2>1 DEF QueryInv, QueryTypeOK, Decode
  <2>2. CASE phase' # "failed"
    <3>1. doc.samples \in Seq(Sent)
      BY DocumentsAssumption DEF QueryInv, QueryTypeOK
    <3>2. \A k \in DOMAIN doc.samples : UnmarshalSample(doc.samples[k]) \in Decoded
      BY <3>1 DEF Decoded
    <3>3. result' = [k \in DOMAIN doc.samples |-> UnmarshalSample(doc.samples[k])]
      BY <2>2 DEF Decode
    <3> HIDE DEF Decoded
    <3> QED BY <3>1, <3>2, <3>3
  <2> QED BY <2>1, <2>2
<1> HIDE DEF Decoded
<1> QED BY <1>1 DEF QueryInv, QueryTypeOK, Decode, Finished

(* A sort starts with what was decoded.                                    *)
LEMMA SortInv == QueryInv /\ (MatrixString \/ SortVector) => QueryInv'
<1> SUFFICES ASSUME QueryInv, MatrixString \/ SortVector PROVE QueryInv'
  OBVIOUS
<1>1. /\ phase = "decoded" /\ phase' = "sorting"
      /\ sorted' = result /\ result \in Seq(Decoded)
      /\ i = 1 /\ j = 1 /\ UNCHANGED <<doc, result, i, j>>
  BY DEF QueryInv, QueryTypeOK, MatrixString, SortVector
<1>2. PrefixSorted'
  BY <1>1 DEF PrefixSorted
<1>3. Permuted'
  <2> DEFINE L == Len(result)
             p == [k \in 1 .. L |-> k]
  <2>1. p \in Injection(1 .. L, 1 .. L) /\ \A k \in 1 .. L : result[k] = result[p[k]]
    BY DEF Injection, IsInjective
  <2> HIDE DEF p
  <2> QED BY <1>1, <2>1 DEF Permuted
<1>4. QueryTypeOK'
  <2>1. Len(sorted') \in Nat
    BY <1>1
  <2> HIDE DEF Decoded
  <2> QED BY <1>1, <2>1 DEF QueryInv, QueryTypeOK
<1> QED BY <1>1, <1>2, <1>3, <1>4 DEF QueryInv, Finished

(* A swap moves the lesser sample down, and the one it passes stands where *)
(* it stood: the rest of the prefix keeps its order.                       *)
LEMMA SwapInv == QueryInv /\ Swap => QueryInv'
<1> SUFFICES ASSUME QueryInv, Swap PROVE QueryInv'
  OBVIOUS
<1> USE DEF Sinks
<1> DEFINE L == Len(sorted)
<1>1. /\ sorted \in Seq(Decoded) /\ L \in Nat
      /\ i \in 1 .. L /\ j \in 2 .. i /\ j - 1 \in 1 .. L /\ j \in 1 .. L
      /\ \A k \in 1 .. L : sorted[k] \in Decoded
  BY DEF QueryInv, QueryTypeOK, Swap
<1>2. /\ sorted' \in Seq(Decoded) /\ Len(sorted') = L
      /\ \A k \in 1 .. L : sorted'[k] = IF k = j - 1 THEN sorted[j]
                                     ELSE IF k = j THEN sorted[j - 1] ELSE sorted[k]
  <2> HIDE DEF Decoded
  <2> QED BY <1>1 DEF Swap
<1>3. NotAfter(sorted[j], sorted[j - 1])
  BY <1>1, LessFacts DEF Swap
<1>4. PrefixSorted'
  <2> SUFFICES ASSUME NEW n \in 1 .. L, NEW k \in 1 .. L,
                      n < k, k <= i, k # j - 1
               PROVE  NotAfter(sorted'[n], sorted'[k])
    <3>1. doc' = doc /\ i' = i /\ j' = j - 1
      BY DEF Swap
    <3> QED BY <1>2, <3>1 DEF PrefixSorted, NotAfter
  <2>1. \A x, y \in 1 .. L :
          x < y /\ y <= i /\ y # j => NotAfter(sorted[x], sorted[y])
    BY DEF QueryInv, Swap, PrefixSorted
  <2>2. CASE k = j /\ n = j - 1
    BY <1>1, <1>2, <1>3, <2>2
  <2>3. CASE k = j /\ n # j - 1
    <3>1. n < j - 1 /\ j - 1 <= i /\ j - 1 # j
      BY <1>1, <2>3
    <3>2. sorted'[n] = sorted[n] /\ sorted'[k] = sorted[j - 1]
      BY <1>1, <1>2, <2>3
    <3> QED BY <1>1, <2>1, <3>1, <3>2
  <2>4. CASE k # j
    <3>1. sorted'[k] = sorted[k]
      BY <1>2, <2>4
    <3>2. PICK x \in 1 .. L : sorted'[n] = sorted[x] /\ x < k
      BY <1>1, <1>2, <2>4
    <3> QED BY <2>1, <2>4, <3>1, <3>2
  <2> QED BY <2>2, <2>3, <2>4
<1>5. Permuted'
  <2>1. Permuted
    BY DEF QueryInv, Swap
  <2>2. PICK p \in Injection(1 .. L, 1 .. L) : \A k \in 1 .. L : sorted[k] = result[p[k]]
    BY <2>1 DEF Permuted
  <2>3. /\ p \in [1 .. L -> 1 .. L]
        /\ \A x, y \in 1 .. L : p[x] = p[y] => x = y
    BY DEF Injection, IsInjective
  <2> DEFINE q == [k \in 1 .. L |-> IF k = j - 1 THEN p[j]
                                   ELSE IF k = j THEN p[j - 1] ELSE p[k]]
  <2>4. q \in [1 .. L -> 1 .. L]
    BY <1>1, <2>3
  <2>5. \A x, y \in 1 .. L : q[x] = q[y] => x = y
    BY <1>1, <2>3
  <2>6. \A k \in 1 .. L : sorted'[k] = result[q[k]]
    BY <1>1, <1>2, <2>2
  <2>7. q \in Injection(1 .. L, 1 .. L)
    BY <2>4, <2>5 DEF Injection, IsInjective
  <2>8. result' = result /\ Len(sorted') = L /\ L = Len(result)
    BY <1>2, <2>1 DEF Swap, Permuted
  <2> HIDE DEF q, L
  <2> QED BY <2>6, <2>7, <2>8 DEF Permuted
<1>6. QueryTypeOK'
  <2> HIDE DEF Decoded
  <2> QED BY <1>1, <1>2 DEF QueryInv, QueryTypeOK, Swap
<1> QED BY <1>1, <1>2, <1>4, <1>5, <1>6 DEF QueryInv, Swap, Finished

(* A sample that is not less than the one before it is not less than any   *)
(* further down.                                                           *)
LEMMA NextElementInv == QueryInv /\ NextElement => QueryInv'
<1> SUFFICES ASSUME QueryInv, NextElement PROVE QueryInv'
  OBVIOUS
<1> DEFINE L == Len(sorted)
<1>1. /\ L \in Nat /\ i \in 1 .. L /\ j \in 1 .. i /\ j \in 1 .. L
      /\ \A k \in 1 .. L : sorted[k] \in Decoded
  BY DEF QueryInv, QueryTypeOK, NextElement
<1>2. \A x, y \in 1 .. L :
        x < y /\ y <= i /\ y # j => NotAfter(sorted[x], sorted[y])
  BY DEF QueryInv, NextElement, PrefixSorted
<1>3. ASSUME NEW n \in 1 .. L, n < j
      PROVE  NotAfter(sorted[n], sorted[j])
  <2>1. j - 1 \in 1 .. L /\ j > 1
    BY <1>1, <1>3
  <2>2. NotAfter(sorted[j - 1], sorted[j])
    BY <1>1, <2>1, LessFacts DEF NextElement, Sinks
  <2>3. CASE n = j - 1
    BY <2>2, <2>3
  <2>4. CASE n # j - 1
    <3>1. NotAfter(sorted[n], sorted[j - 1])
      BY <1>1, <1>2, <1>3, <2>1, <2>4
    <3> QED BY <1>1, <2>1, <2>2, <3>1, NotAfterTransitive
  <2> QED BY <2>3, <2>4
<1>4. PrefixSorted'
  <2> SUFFICES ASSUME NEW n \in 1 .. L, NEW k \in 1 .. L, n < k, k <= i
               PROVE  NotAfter(sorted[n], sorted[k])
    <3>1. doc' = doc /\ i' = i + 1 /\ j' = i + 1 /\ sorted' = sorted
      BY DEF NextElement
    <3> QED BY <1>1, <3>1 DEF PrefixSorted, NotAfter
  <2>1. CASE k = j
    BY <1>3, <2>1
  <2>2. CASE k # j
    BY <1>2, <2>2
  <2> QED BY <2>1, <2>2
<1>5. Permuted'
  BY DEF QueryInv, NextElement, Permuted
<1>6. QueryTypeOK'
  <2> HIDE DEF Decoded
  <2> QED BY <1>1 DEF QueryInv, QueryTypeOK, NextElement
<1> QED BY <1>4, <1>5, <1>6 DEF QueryInv, NextElement, Finished

(* A sort returns when there is no element left.                           *)
LEMMA ReturnInv == QueryInv /\ (VectorSorted \/ PrintMatrix) => QueryInv'
<1> SUFFICES ASSUME QueryInv, VectorSorted \/ PrintMatrix PROVE QueryInv'
  OBVIOUS
<1> USE DEF VectorSorted, PrintMatrix
<1>1. PrefixSorted'
  BY DEF QueryInv, PrefixSorted, NotAfter
<1>2. Permuted'
  BY DEF QueryInv, Permuted
<1>3. QueryTypeOK'
  BY DEF QueryInv, QueryTypeOK
<1> QED BY <1>1, <1>2, <1>3 DEF QueryInv, Finished

(* Printing a vector does not sort it.                                     *)
LEMMA VectorStringInv == QueryInv /\ VectorString => QueryInv'
<1> SUFFICES ASSUME QueryInv, VectorString PROVE QueryInv'
  OBVIOUS
<1>1. QueryTypeOK'
  BY DEF QueryInv, QueryTypeOK, VectorString
<1> QED BY <1>1 DEF QueryInv, VectorString, Finished

LEMMA QueryStutter == QueryInv /\ UNCHANGED queryVars => QueryInv'
<1> SUFFICES ASSUME QueryInv, UNCHANGED queryVars PROVE QueryInv'
  OBVIOUS
<1>1. PrefixSorted <=> PrefixSorted'
  BY DEF queryVars, PrefixSorted, NotAfter
<1>2. Permuted <=> Permuted'
  BY DEF queryVars, Permuted
<1>3. QueryTypeOK'
  BY DEF QueryInv, QueryTypeOK, queryVars
<1> QED BY <1>1, <1>2, <1>3 DEF QueryInv, queryVars, Finished

(* When the sort has returned no sample is left that moves: all of them    *)
(* are in order.                                                           *)
LEMMA InvSorted == QueryInv => SortedInOrder
<1> SUFFICES ASSUME QueryInv, Finished PROVE InDocumentedOrder
  BY DEF SortedInOrder, Finished
<1>1. /\ sorted \in Seq(Decoded) /\ result \in Seq(Decoded)
      /\ Len(sorted) \in Nat
      /\ DOMAIN sorted = 1 .. Len(sorted) /\ DOMAIN result = 1 .. Len(result)
      /\ \A k \in 1 .. Len(sorted) : sorted[k] \in Decoded
  <2> HIDE DEF Decoded
  <2> QED BY DEF QueryInv, QueryTypeOK
<1>2. /\ Len(sorted) = Len(result)
      /\ \E p \in Injection(DOMAIN sorted, DOMAIN result) :
           \A k \in DOMAIN sorted : sorted[k] = result[p[k]]
  <2>1. Permuted
    BY DEF QueryInv
  <2> QED BY <1>1, <2>1 DEF Permuted
<1>3. ASSUME NEW n \in DOMAIN sorted, NEW k \in DOMAIN sorted, n < k
      PROVE  \/ SeriesFirst(sorted[n].metric, sorted[k].metric)
             \/ /\ sorted[n].metric = sorted[k].metric
                /\ doc.type = "vector" => sorted[n].time <= sorted[k].time
  <2>1. i \in Int /\ i > Len(sorted) /\ j = i
    BY DEF QueryInv, QueryTypeOK
  <2>2. NotAfter(sorted[n], sorted[k])
    BY <1>1, <1>3, <2>1 DEF QueryInv, PrefixSorted
  <2>3. IsLabelSet(sorted[n].metric) /\ IsLabelSet(sorted[k].metric)
    BY <1>1, DecodedFacts
  <2> QED BY <2>2, <2>3, BeforeAsDocumented DEF NotAfter
<1> QED BY <1>2, <1>3 DEF InDocumentedOrder

LEMMA QueryNextInv == QueryInv /\ [QueryNext]_queryVars => QueryInv'
BY DecodeInv, SortInv, SwapInv, NextElementInv, ReturnInv, VectorStringInv, QueryStutter
   DEF QueryNext

(* Whatever the documents and the order the server sends the samples in,   *)
(* a matrix is printed in the documented order, and a vector that a caller *)
(* sorts is in that order then.  sort.Sort is the insertion sort it is for *)
(* short results.                                                          *)
THEOREM SortsInOrder == QuerySpec => []SortedInOrder
BY QueryInitInv, QueryNextInv, InvSorted, PTL DEF QuerySpec

-----------------------------------------------------------------------------
(* The status of a list of alerts: the clock only moves on, so an alert    *)
(* HasFiring found resolved stays resolved while it looks at the others.   *)
Passed ==
  task = "status" =>
    \A k \in DOMAIN alerts : k < next => alerts[k].EndsAt # 0 /\ alerts[k].EndsAt <= now

Alerted ==
  /\ alerts \in Seq(Alert)
  /\ \A k \in DOMAIN alerts : Validate(alerts[k])
  /\ asked \in Nat /\ now \in Nat /\ 1 <= asked /\ asked <= now /\ now <= End
  /\ next \in Nat /\ 1 <= next /\ next <= Len(alerts) + 1
  /\ pos \in Nat /\ 1 <= pos /\ pos <= Len(alerts) + 1
  /\ task \in {"idle", "status", "sort", "sorted", "firing", "resolved"}
  /\ task = "sort" => pos <= next

AlertsInv == Alerted /\ Passed /\ StatusSound

LEMMA AlertFacts ==
  ASSUME alerts \in Seq(Alert)
  PROVE  /\ Len(alerts) \in Nat /\ DOMAIN alerts = 1 .. Len(alerts)
         /\ \A k \in DOMAIN alerts : alerts[k] \in Alert /\ alerts[k].EndsAt \in Nat
         /\ End \in Nat /\ 1 <= End
<1>1. Len(alerts) \in Nat /\ DOMAIN alerts = 1 .. Len(alerts)
  OBVIOUS
<1>2. \A k \in DOMAIN alerts : alerts[k] \in Alert
  OBVIOUS
<1> QED BY <1>1, <1>2, AlertsAssumption DEF Alert

LEMMA AlertsStart == AlertsInit => AlertsInv
<1> SUFFICES ASSUME AlertsInit PROVE AlertsInv
  OBVIOUS
<1>1. alerts \in Seq(Alert)
  BY AlertsAssumption DEF AlertsInit
<1>2. Alerted
  BY <1>1, AlertFacts DEF AlertsInit, Alerted
<1> QED BY <1>2 DEF AlertsInit, AlertsInv, Passed, StatusSound

(* Swapping two neighbours leaves a list of valid alerts.                  *)
LEMMA SwapListed == Alerted /\ SwapAlerts => Alerted'
<1> SUFFICES ASSUME Alerted, SwapAlerts PROVE Alerted'
  OBVIOUS
<1>1. /\ task = "sort" /\ next <= Len(alerts) /\ pos > 1
      /\ alerts' = [alerts EXCEPT ![pos] = alerts[pos - 1], ![pos - 1] = alerts[pos]]
      /\ pos' = pos - 1
      /\ UNCHANGED <<now, asked, next, task>>
  BY DEF SwapAlerts, AlertSinks
<1>2. /\ alerts \in Seq(Alert) /\ pos \in Nat /\ pos <= next /\ next \in Nat
      /\ \A k \in DOMAIN alerts : Validate(alerts[k])
  BY <1>1 DEF Alerted
<1>3. Len(alerts) \in Nat /\ DOMAIN alerts = 1 .. Len(alerts)
  BY <1>2, AlertFacts
<1>4. pos \in 1 .. Len(alerts) /\ pos - 1 \in 1 .. Len(alerts)
  BY <1>1, <1>2, <1>3
<1>5. alerts[pos] \in Alert /\ alerts[pos - 1] \in Alert
  BY <1>2, <1>3, <1>4, AlertFacts
<1>6. alerts' \in Seq(Alert) /\ Len(alerts') = Len(alerts)
  BY <1>1, <1>2, <1>3, <1>4, <1>5
<1>7. \A k \in DOMAIN alerts' : Validate(alerts'[k])
  <2>1. DOMAIN alerts' = DOMAIN alerts
    BY <1>1
  <2>2. \A k \in DOMAIN alerts : alerts'[k] \in {alerts[pos], alerts[pos - 1], alerts[k]}
    BY <1>1, <1>3, <1>4
  <2>3. pos \in DOMAIN alerts /\ pos - 1 \in DOMAIN alerts
    BY <1>3, <1>4
  <2> QED BY <1>2, <2>1, <2>2, <2>3
<1> QED BY <1>1, <1>2, <1>3, <1>4, <1>6, <1>7 DEF Alerted

LEMMA AlertsStep == AlertsInv /\ [AlertsNext]_alertVars => AlertsInv'
<1> SUFFICES ASSUME Alerted, Passed, StatusSound, [AlertsNext]_alertVars
             PROVE  (Alerted /\ Passed /\ StatusSound)'
  BY DEF AlertsInv
<1>1. /\ Len(alerts) \in Nat /\ DOMAIN alerts = 1 .. Len(alerts)
      /\ \A k \in DOMAIN alerts : alerts[k].EndsAt \in Nat
      /\ asked \in Nat /\ now \in Nat /\ asked <= now /\ next \in Nat
  BY AlertFacts DEF Alerted
<1>2. CASE Tick
  <2>1. now' = now + 1 /\ now < End /\ UNCHANGED <<alerts, asked, next, pos, task>>
    BY <1>2 DEF Tick
  <2>2. Alerted'
    BY <1>1, <2>1, AlertFacts DEF Alerted
  <2>3. Passed'
    BY <1>1, <2>1 DEF Passed
  <2>4. StatusSound'
    BY <1>1, <2>1 DEF StatusSound, Active
  <2> QED BY <2>2, <2>3, <2>4
<1>3. CASE Status
  <2>1. /\ task' = "status" /\ asked' = now /\ next' = 1
        /\ UNCHANGED <<alerts, now, pos>>
    BY <1>3 DEF Status
  <2>2. Alerted'
    BY <1>1, <2>1 DEF Alerted
  <2>3. Passed'
    BY <1>1, <2>1 DEF Passed
  <2> QED BY <2>1, <2>2, <2>3 DEF StatusSound
<1>4. CASE HasFiring
  <2>1. task = "status" /\ UNCHANGED <<alerts, now, asked, pos>>
    BY <1>4 DEF HasFiring
  <2>2. CASE next > Len(alerts)
    <3>1. task' = "resolved" /\ next' = next
      BY <1>4, <2>2 DEF HasFiring
    <3>2. Alerted' /\ Passed'
      BY <2>1, <3>1 DEF Alerted, Passed
    <3>3. \A k \in DOMAIN alerts : alerts[k].EndsAt # 0 /\ alerts[k].EndsAt <= now
      BY <1>1, <2>1, <2>2 DEF Passed
    <3>4. StatusSound'
      BY <1>1, <2>1, <3>1, <3>3 DEF StatusSound, Active
    <3> QED BY <3>2, <3>4
  <2>3. CASE next <= Len(alerts) /\ ~ResolvedAt(alerts[next], now)
    <3>1. task' = "firing" /\ next' = next
      BY <1>1, <1>4, <2>3 DEF HasFiring
    <3>2. Alerted' /\ Passed'
      BY <2>1, <3>1 DEF Alerted, Passed
    <3>3. next \in DOMAIN alerts
      BY <1>1, <2>3 DEF Alerted
    <3>4. Active(alerts[next], asked)
      BY <1>1, <2>3, <3>3 DEF ResolvedAt, Active
    <3>5. StatusSound'
      BY <2>1, <3>1, <3>3, <3>4 DEF StatusSound, Active
    <3> QED BY <3>2, <3>5
  <2>4. CASE next <= Len(alerts) /\ ResolvedAt(alerts[next], now)
    <3>1. next' = next + 1 /\ task' = task
      BY <1>1, <1>4, <2>4 DEF HasFiring
    <3>2. Alerted'
      BY <1>1, <2>1, <2>4, <3>1 DEF Alerted
    <3>3. Passed'
      BY <1>1, <2>1, <2>4, <3>1 DEF Passed, ResolvedAt
    <3> QED BY <2>1, <3>1, <3>2, <3>3 DEF StatusSound
  <2> QED BY <1>1, <2>2, <2>3, <2>4
<1>5. CASE SortAlerts
  BY <1>1, <1>5 DEF SortAlerts, Alerted, Passed, StatusSound
<1>6. CASE SwapAlerts
  BY <1>6, SwapListed DEF SwapAlerts, Passed, StatusSound
<1>7. CASE NextAlert
  BY <1>1, <1>7 DEF NextAlert, Alerted, Passed, StatusSound
<1>8. CASE SortEnds
  BY <1>8 DEF SortEnds, Alerted, Passed, StatusSound
<1>9. CASE UNCHANGED alertVars
  BY <1>9 DEF alertVars, Alerted, Passed, StatusSound, Active
<1> QED BY <1>2, <1>3, <1>4, <1>5, <1>6, <1>7, <1>8, <1>9 DEF AlertsNext

(* Although the clock moves between two alerts of the list (alert.go       *)
(* 120-136), "resolved" means that none is active any more, and "firing"   *)
(* that one was active when the question was asked.                        *)
THEOREM StatusAnswers == AlertsSpec => []StatusSound
<1>1. AlertsInv => StatusSound
  BY DEF AlertsInv
<1> QED BY <1>1, AlertsStart, AlertsStep, PTL DEF AlertsSpec

-----------------------------------------------------------------------------
(* Durations.  Below the overflow multiplication is what it should be, and *)
(* String picks a unit that divides: reading its text gives the duration.  *)
LEMMA WrapSame ==
  ASSUME NEW x \in 0 .. MaxInt
  PROVE  Wrap(x) = x
<1> DEFINE y == x + MaxInt + 1
           z == 2 * (MaxInt + 1)
<1>1. y \in Nat /\ z \in Nat \ {0} /\ y < z
  BY DurationAssumption
<1>2. y % z = y
  <2> HIDE DEF y, z
  <2> QED BY <1>1
<1>3. Wrap(x) = y - MaxInt - 1
  BY <1>2 DEF Wrap
<1> QED BY <1>3, DurationAssumption

LEMMA WrapType ==
  ASSUME NEW x \in Int
  PROVE  Wrap(x) \in -(MaxInt + 1) .. MaxInt
<1> DEFINE y == x + MaxInt + 1
           z == 2 * (MaxInt + 1)
<1>1. y \in Int /\ z \in Nat \ {0}
  BY DurationAssumption
<1>2. y % z \in 0 .. (z - 1)
  <2> HIDE DEF y, z
  <2> QED BY <1>1
<1>3. Wrap(x) = (y % z) - MaxInt - 1
  BY DEF Wrap
<1> QED BY <1>2, <1>3, DurationAssumption

LEMMA Division ==
  ASSUME NEW x \in Nat, NEW y \in Nat \ {0}, x % y = 0
  PROVE  x = y * (x \div y) /\ x \div y \in Nat
OBVIOUS

LEMMA UnitNames == DOMAIN Units = 1 .. 7 /\ \A k \in 1 .. 7 : Units[k] \in DOMAIN Factor
BY DurationAssumption DEF Units

(* The unit String picks divides the milliseconds.                         *)
LEMMA UnitDivides ==
  ASSUME NEW ms \in Int \ {0}
  PROVE  LET unit == Units[Lowest({k \in DOMAIN Units : Divides(Factor[Units[k]], ms)})]
         IN unit \in DOMAIN Factor /\ Divides(Factor[unit], ms)
<1> DEFINE S == {k \in DOMAIN Units : Divides(Factor[Units[k]], ms)}
<1>1. Units[7] = "ms" /\ 7 \in DOMAIN Units
  BY DEF Units
<1>2. (IF ms < 0 THEN -ms ELSE ms) % 1 = 0
  OBVIOUS
<1>3. 7 \in S
  BY <1>1, <1>2, DurationAssumption DEF Divides
<1>4. S \subseteq Nat
  BY UnitNames
<1>5. Lowest(S) \in S
  <2> HIDE DEF S
  <2> QED BY <1>3, <1>4, LowestExists
<1>6. Units[Lowest(S)] \in DOMAIN Factor
  BY <1>5, UnitNames
<1>7. Divides(Factor[Units[Lowest(S)]], ms)
  BY <1>5
<1> QED BY <1>6, <1>7

(* A duration of whole milliseconds, above 0, is read as it was written.   *)
LEMMA ReadsBack ==
  ASSUME NEW d \in 1 .. MaxInt, Divides(Millisecond, d)
  PROVE  /\ DurationString(d) \in [n : Int, unit : DOMAIN Factor]
         /\ Matches(DurationString(d))
         /\ ParseDuration(DurationString(d)) = d
<1> DEFINE ms   == d \div Millisecond
           unit == Units[Lowest({k \in DOMAIN Units : Divides(Factor[Units[k]], ms)})]
           n    == ms \div Factor[unit]
<1>1. Millisecond \in Nat \ {0} /\ d \in Nat \ {0} /\ d <= MaxInt /\ ~(d < 0) /\ MaxInt \in Nat
  BY DurationAssumption
<1>2. d % Millisecond = 0
  BY <1>1 DEF Divides
<1>3. d = Millisecond * ms /\ ms \in Nat
  <2> HIDE DEF ms
  <2>1. ms = d \div Millisecond
    BY DEF ms
  <2> QED BY <1>1, <1>2, <2>1, Division
<1>4. ms # 0
  <2> HIDE DEF ms
  <2> QED BY <1>1, <1>3
<1>5. Quot(d, Millisecond) = ms
  BY <1>1 DEF Quot
<1> HIDE DEF ms
<1>6. unit \in DOMAIN Factor /\ ms % Factor[unit] = 0
  <2>1. unit \in DOMAIN Factor /\ Divides(Factor[unit], ms)
    BY <1>3, <1>4, UnitDivides
  <2> HIDE DEF unit
  <2> QED BY <1>3, <2>1 DEF Divides
<1>7. DurationString(d) = [n |-> n, unit |-> unit]
  <2>1. Quot(ms, Factor[unit]) = n
    BY <1>3 DEF Quot
  <2>2. DurationString(d) = IF ms = 0 THEN [n |-> 0, unit |-> "s"]
                            ELSE [n |-> Quot(ms, Factor[unit]), unit |-> unit]
    BY <1>5 DEF DurationString
  <2> QED BY <1>4, <2>1, <2>2
<1>8. Factor[unit] \in Nat \ {0}
  <2> HIDE DEF unit
  <2> QED BY <1>6, DurationAssumption
<1> DEFINE f == Factor[unit]
<1>9. ms = f * n /\ n \in Nat
  <2> HIDE DEF unit
  <2> QED BY <1>3, <1>6, <1>8, Division
<1> HIDE DEF unit, n, f
<1>10. f \in Nat \ {0}
  BY <1>8 DEF f
<1>11. n * Millisecond \in Nat /\ (n * Millisecond) * f = d
  BY <1>1, <1>3, <1>9, <1>10
<1>12. n * Millisecond <= d
  <2> DEFINE q == n * Millisecond
  <2>1. q \in Nat /\ q * f = d
    BY <1>11
  <2> HIDE DEF q
  <2>2. q <= q * f
    BY <1>10, <2>1
  <2> QED BY <2>1, <2>2 DEF q
<1>13. n <= n * Millisecond
  BY <1>1, <1>9
<1>14. n \in 0 .. MaxInt /\ n * Millisecond \in 0 .. MaxInt
  BY <1>1, <1>9, <1>11, <1>12, <1>13
<1>15. Atoi(n) = n
  BY <1>1, <1>14 DEF Atoi
<1>16. Wrap(n * Millisecond) = n * Millisecond
  BY <1>14, WrapSame
<1>17. Wrap((n * Millisecond) * f) = d
  BY <1>1, <1>11, WrapSame
<1>18. ParseDuration(DurationString(d)) = d
  BY <1>7, <1>15, <1>16, <1>17 DEF ParseDuration, f
<1> QED BY <1>6, <1>7, <1>9, <1>18 DEF Matches

(* What is inductive: a text that was written is the duration's.           *)
Written ==
  /\ DurTypeOK
  /\ step = "text" /\ dur > 0 /\ Divides(Millisecond, dur) => text = DurationString(dur)

LEMMA DurStart == DurInit => Written
BY DurationAssumption DEF DurInit, Written, DurTypeOK

(* What String writes is a number with a unit, whatever it is given.       *)
LEMMA StringType ==
  ASSUME NEW d \in Int
  PROVE  DurationString(d) \in [n : Int, unit : DOMAIN Factor]
<1> DEFINE ms   == Quot(d, Millisecond)
           unit == Units[Lowest({k \in DOMAIN Units : Divides(Factor[Units[k]], ms)})]
<1>1. ms \in Int
  <2>1. (-d) \div Millisecond \in Int /\ d \div Millisecond \in Int
    BY DurationAssumption
  <2> QED BY <2>1 DEF Quot
<1>2. CASE ms = 0
  <2>1. DurationString(d) = [n |-> 0, unit |-> "s"]
    BY <1>2 DEF DurationString
  <2>2. "s" \in DOMAIN Factor
    BY UnitNames DEF Units
  <2> QED BY <2>1, <2>2
<1>3. CASE ms # 0
  <2>1. DurationString(d) = [n |-> Quot(ms, Factor[unit]), unit |-> unit]
    BY <1>3 DEF DurationString
  <2> HIDE DEF ms
  <2>2. unit \in DOMAIN Factor
    BY <1>1, <1>3, UnitDivides
  <2> HIDE DEF unit
  <2>3. Factor[unit] \in Nat \ {0}
    BY <2>2, DurationAssumption
  <2>4. (-ms) \div Factor[unit] \in Int /\ ms \div Factor[unit] \in Int
    BY <1>1, <2>3
  <2>5. Quot(ms, Factor[unit]) \in Int
    BY <2>4 DEF Quot
  <2> QED BY <2>1, <2>2, <2>5
<1> QED BY <1>2, <1>3

LEMMA ParseType ==
  ASSUME NEW t \in [n : Int, unit : DOMAIN Factor]
  PROVE  ParseDuration(t) \in -(MaxInt + 1) .. MaxInt
<1>1. Atoi(t.n) \in Int /\ Millisecond \in Int /\ Factor[t.unit] \in Int /\ MaxInt \in Int
  BY DurationAssumption DEF Atoi
<1>2. Atoi(t.n) * Millisecond \in Int
  BY <1>1
<1>3. Wrap(Atoi(t.n) * Millisecond) \in Int
  BY <1>1, <1>2, WrapType
<1>4. Wrap(Atoi(t.n) * Millisecond) * Factor[t.unit] \in Int
  BY <1>1, <1>3
<1> QED BY <1>4, WrapType DEF ParseDuration

LEMMA DurStep ==
  Written /\ [DurNext]_durVars =>
    /\ Written'
    /\ [dur > 0 /\ Divides(Millisecond, dur) => dur' = dur /\ step' # "refused"]_durVars
<1> SUFFICES ASSUME Written, [DurNext]_durVars
             PROVE  /\ Written'
                    /\ \/ dur > 0 /\ Divides(Millisecond, dur) => dur' = dur /\ step' # "refused"
                       \/ UNCHANGED durVars
  OBVIOUS
<1>1. DurTypeOK /\ dur \in Int /\ MaxInt \in Nat
  BY DurationAssumption DEF Written, DurTypeOK
<1>2. CASE UnmarshalYAML
  <2>1. step = "text" /\ text' = text /\ step' \in {"value", "refused"}
    BY <1>2 DEF UnmarshalYAML
  <2>2. dur' \in -(MaxInt + 1) .. MaxInt
    BY <1>1, <1>2, ParseType DEF UnmarshalYAML, DurTypeOK
  <2>3. Written'
    BY <1>1, <2>1, <2>2 DEF Written, DurTypeOK
  <2>4. ASSUME dur > 0, Divides(Millisecond, dur)
        PROVE  dur' = dur /\ step' # "refused"
    <3>1. dur \in 1 .. MaxInt
      BY <1>1, <2>4 DEF DurTypeOK
    <3>2. text = DurationString(dur)
      BY <2>1, <2>4 DEF Written
    <3> QED BY <1>2, <2>4, <3>1, <3>2, ReadsBack DEF UnmarshalYAML
  <2> QED BY <2>3, <2>4
<1>3. CASE MarshalYAML
  <2>1. dur' = dur /\ step' = "text" /\ text' = DurationString(dur)
    BY <1>3 DEF MarshalYAML
  <2>2. Written'
    BY <1>1, <2>1, StringType DEF Written, DurTypeOK
  <2> QED BY <2>1, <2>2
<1>4. CASE UNCHANGED durVars
  BY <1>4 DEF durVars, Written, DurTypeOK
<1> QED BY <1>2, <1>3, <1>4 DEF DurNext

(* However often a configuration is read and written, a duration of whole  *)
(* milliseconds stays what it is and is never refused, for units of any    *)
(* length and integers of any size (model/time.go 182-264).                *)
THEOREM KeepsDuration == DurSpec => DurationKept
<1>1. Written /\ [DurNext]_durVars =>
        [dur > 0 /\ Divides(Millisecond, dur) => dur' = dur /\ step' # "refused"]_durVars
  BY DurStep
<1>2. Written /\ [DurNext]_durVars => Written'
  BY DurStep
<1> QED BY <1>1, <1>2, DurStart, PTL DEF DurSpec, DurationKept

-----------------------------------------------------------------------------
(* The powers of ten, and the times that are written with them.            *)
PowersTo(n, p) ==
  /\ p \in [0 .. n -> Nat \ {0}]
  /\ p[0] = 1
  /\ \A k \in 1 .. n : p[k] = 10 * p[k - 1]

LEMMA PowersExist == \A n \in Nat : \E p : PowersTo(n, p)
<1> DEFINE S == {n \in Nat : ~\E p : PowersTo(n, p)}
<1>1. SUFFICES ASSUME S # {} PROVE FALSE
  OBVIOUS
<1>2. PICK n \in S : \A m \in S : n <= m
  <2> HIDE DEF S
  <2>1. S \subseteq Nat
    BY DEF S
  <2> QED BY <1>1, <2>1, LowestExists
<1>3. n \in Nat /\ ~\E p : PowersTo(n, p)
  OBVIOUS
<1>4. CASE n = 0
  <2>1. PowersTo(0, [k \in 0 .. 0 |-> 1])
    BY DEF PowersTo
  <2> QED BY <1>3, <1>4, <2>1
<1>5. CASE n # 0
  <2>1. n - 1 \in Nat /\ n - 1 \notin S
    BY <1>2, <1>3, <1>5
  <2>2. PICK p : PowersTo(n - 1, p)
    BY <2>1
  <2> DEFINE q == [k \in 0 .. n |-> IF k = n THEN 10 * p[n - 1] ELSE p[k]]
  <2>3. \A k \in 0 .. n : k # n => k \in 0 .. (n - 1)
    BY <1>3
  <2>4. p[n - 1] \in Nat \ {0}
    BY <2>1, <2>2 DEF PowersTo
  <2>5. q \in [0 .. n -> Nat \ {0}]
    BY <2>2, <2>3, <2>4 DEF PowersTo
  <2>6. q[0] = 1
    BY <1>3, <1>5, <2>2 DEF PowersTo
  <2>7. ASSUME NEW k \in 1 .. n PROVE q[k] = 10 * q[k - 1]
    <3>1. k \in Nat /\ k - 1 \in 0 .. n /\ k - 1 # n /\ k \in 0 .. n
      BY <1>3
    <3>2. q[k - 1] = p[k - 1]
      BY <3>1
    <3>3. CASE k = n
      BY <3>1, <3>2, <3>3
    <3>4. CASE k # n
      <4>1. k \in 1 .. (n - 1)
        BY <1>3, <3>4
      <4>2. p[k] = 10 * p[k - 1]
        BY <2>2, <4>1 DEF PowersTo
      <4> QED BY <3>1, <3>2, <3>4, <4>2
    <3> QED BY <3>3, <3>4
  <2>8. PowersTo(n, q)
    <3> HIDE DEF q
    <3> QED BY <2>5, <2>6, <2>7 DEF PowersTo
  <2> QED BY <1>3, <2>8
<1> QED BY <1>4, <1>5

LEMMA PowersAgree ==
  ASSUME NEW m \in Nat, NEW n \in Nat, m <= n, NEW p, NEW q, PowersTo(m, p), PowersTo(n, q)
  PROVE  \A k \in 0 .. m : p[k] = q[k]
<1> DEFINE S == {k \in 0 .. m : p[k] # q[k]}
<1>1. SUFFICES ASSUME S # {} PROVE FALSE
  OBVIOUS
<1>2. PICK k \in S : \A h \in S : k <= h
  <2> HIDE DEF S
  <2>1. S \subseteq Nat
    BY DEF S
  <2> QED BY <1>1, <2>1, LowestExists
<1>3. k \in 0 .. m /\ p[k] # q[k]
  OBVIOUS
<1>4. k # 0
  BY <1>3 DEF PowersTo
<1>5. k - 1 \in 0 .. m /\ k - 1 \notin S /\ k \in 1 .. m /\ k \in 1 .. n
  BY <1>2, <1>3, <1>4
<1>6. p[k - 1] = q[k - 1]
  BY <1>5
<1> QED BY <1>3, <1>5, <1>6 DEF PowersTo

LEMMA Powers ==
  /\ Ten[0] = 1
  /\ \A n \in Nat : Ten[n] \in Nat \ {0}
  /\ \A n \in Nat \ {0} : Ten[n] = 10 * Ten[n - 1]
<1> DEFINE f(n) == CHOOSE p : PowersTo(n, p)
           g    == [n \in Nat |-> f(n)[n]]
<1>1. \A n \in Nat : PowersTo(n, f(n))
  BY PowersExist
<1>2. ASSUME NEW n \in Nat \ {0} PROVE g[n] = 10 * g[n - 1]
  <2>1. n - 1 \in Nat /\ n - 1 <= n /\ n \in 1 .. n /\ n - 1 \in 0 .. (n - 1)
    OBVIOUS
  <2>2. PowersTo(n, f(n)) /\ PowersTo(n - 1, f(n - 1))
    BY <1>1, <2>1
  <2> HIDE DEF f
  <2>3. f(n - 1)[n - 1] = f(n)[n - 1]
    BY <2>1, <2>2, PowersAgree
  <2>4. f(n)[n] = 10 * f(n)[n - 1]
    BY <2>1, <2>2 DEF PowersTo
  <2> QED BY <2>1, <2>3, <2>4
<1>3. g[0] = 1 /\ \A n \in Nat : g[n] \in Nat \ {0}
  <2> HIDE DEF f
  <2> QED BY <1>1 DEF PowersTo
<1>4. g = [n \in Nat |-> IF n = 0 THEN 1 ELSE 10 * g[n - 1]]
  <2> HIDE DEF f
  <2>1. \A n \in Nat : g[n] = IF n = 0 THEN 1 ELSE 10 * g[n - 1]
    BY <1>2, <1>3
  <2>2. g = [n \in Nat |-> g[n]]
    OBVIOUS
  <2> HIDE DEF g
  <2> QED BY <2>1, <2>2
<1>5. Ten = CHOOSE t : t = [n \in Nat |-> IF n = 0 THEN 1 ELSE 10 * t[n - 1]]
  BY DEF Ten
<1> HIDE DEF g
<1>6. Ten = [n \in Nat |-> IF n = 0 THEN 1 ELSE 10 * Ten[n - 1]]
  BY <1>4, <1>5
<1>7. Ten[0] = 1 /\ \A n \in Nat \ {0} : Ten[n] = 10 * Ten[n - 1]
  BY <1>6
<1>8. \A n \in Nat : Ten[n] \in Nat \ {0}
  <2> DEFINE S == {n \in Nat : Ten[n] \notin Nat \ {0}}
  <2>1. SUFFICES ASSUME S # {} PROVE FALSE
    OBVIOUS
  <2>2. PICK n \in S : \A m \in S : n <= m
    <3> HIDE DEF S
    <3>1. S \subseteq Nat
      BY DEF S
    <3> QED BY <2>1, <3>1, LowestExists
  <2>3. n \in Nat /\ Ten[n] \notin Nat \ {0}
    OBVIOUS
  <2>4. n # 0
    BY <1>7, <2>3
  <2>5. n - 1 \in Nat /\ Ten[n - 1] \in Nat \ {0}
    BY <2>2, <2>3, <2>4
  <2> QED BY <1>7, <2>3, <2>4, <2>5
<1> QED BY <1>7, <1>8

(* Rules of division that the numbers of digits need.                      *)
LEMMA DivSum ==
  ASSUME NEW q \in Nat \ {0}, NEW m \in Nat, NEW f \in Nat
  PROVE  (m * q + f) \div q = m + f \div q
<1>1. f = q * (f \div q) + (f % q) /\ f \div q \in Nat /\ f % q \in 0 .. (q - 1)
  OBVIOUS
<1> DEFINE d == f \div q
           r == f % q
<1> HIDE DEF d, r
<1>2. m * q + f = q * (m + d) + r /\ r \in 0 .. (q - 1) /\ d \in Nat
  BY <1>1 DEF d, r
<1>3. (q * (m + d) + r) \div q = m + d
  <2> DEFINE e == m + d
  <2>1. e \in Nat
    BY <1>2
  <2> HIDE DEF e
  <2>2. (q * e + r) \div q = e
    BY <1>2, <2>1
  <2> QED BY <2>2 DEF e
<1> QED BY <1>2, <1>3 DEF d

LEMMA DivScaled ==
  ASSUME NEW q \in Nat \ {0}, NEW k \in Nat \ {0}, NEW a \in Nat
  PROVE  (a * k) \div (k * q) = a \div q
<1>1. a = q * (a \div q) + (a % q) /\ a \div q \in Nat /\ a % q \in 0 .. (q - 1)
  OBVIOUS
<1> DEFINE d == a \div q
           r == a % q
<1> HIDE DEF d, r
<1>2. a = q * d + r /\ r \in 0 .. (q - 1) /\ d \in Nat
  BY <1>1 DEF d, r
<1>3. a * k = (k * q) * d + k * r
  BY <1>2
<1>4. k * r \in 0 .. (k * q - 1)
  <2>1. r + 1 <= q
    BY <1>2
  <2>2. k * (r + 1) <= k * q
    BY <1>2, <2>1
  <2> QED BY <1>2, <2>2
<1> DEFINE b == k * q
           c == k * r
<1>5. b \in Nat \ {0} /\ c \in 0 .. (b - 1)
  BY <1>4
<1> HIDE DEF b, c
<1>6. (b * d + c) \div b = d
  BY <1>2, <1>5
<1> QED BY <1>3, <1>6 DEF b, c, d

LEMMA Thousand ==
  /\ Ten[0] = 1 /\ Ten[1] = 10 /\ Ten[2] = 100 /\ Ten[3] = 1000
  /\ \A d \in Nat : d > 3 => Ten[d] = 1000 * Ten[d - 3]
<1>1. Ten[1] = 10 * Ten[0] /\ Ten[2] = 10 * Ten[1] /\ Ten[3] = 10 * Ten[2]
  <2>1. Ten[1] = 10 * Ten[1 - 1] /\ Ten[2] = 10 * Ten[2 - 1] /\ Ten[3] = 10 * Ten[3 - 1]
    BY Powers
  <2> QED BY <2>1
<1>2. ASSUME NEW d \in Nat, d > 3
      PROVE  Ten[d] = 1000 * Ten[d - 3]
  <2>1. d - 1 \in Nat \ {0} /\ d - 2 \in Nat \ {0} /\ d - 3 \in Nat /\ d # 0
        /\ (d - 1) - 1 = d - 2 /\ (d - 2) - 1 = d - 3
    BY <1>2
  <2>2. Ten[d] = 10 * Ten[d - 1] /\ Ten[d - 1] = 10 * Ten[d - 2] /\ Ten[d - 2] = 10 * Ten[d - 3]
    BY <2>1, Powers
  <2>3. Ten[d - 3] \in Nat
    BY <2>1, Powers
  <2> QED BY <2>2, <2>3
<1> QED BY <1>1, <1>2, Powers

(* UnmarshalJSON reads the instant the text denotes, unless it is negative *)
(* with a fraction.                                                        *)
LEMMA ReadsInstant ==
  ASSUME NEW t, IsInstant(t), ~t.neg \/ t.frac = 0
  PROVE  /\ Denotes(t, UnmarshalTime(t))
         /\ UnmarshalTime(t) \in Int
         /\ t.neg => UnmarshalTime(t) = -1000 * t.whole
         /\ ~t.neg => UnmarshalTime(t) \in Nat
<1> DEFINE w == t.whole
           f == t.frac
           d == t.digits
           p == Ten[d]
<1>1. w \in Nat /\ f \in Nat /\ d \in Nat /\ t.neg \in BOOLEAN /\ p \in Nat \ {0}
  BY Powers DEF IsInstant
<1>2. dotPrecision = 3 /\ second = 1000
  BY DEF dotPrecision, second
<1> DEFINE ms == IF d > 3 THEN f \div Ten[d - 3] ELSE f * Ten[3 - d]
<1>3. UnmarshalTime(t) = 1000 * (IF t.neg THEN -w ELSE w) + ms
  <2>1. UnmarshalTime(t) =
          IF d > 3 THEN 1000 * (IF t.neg THEN -w ELSE w) + f \div Ten[d - 3]
          ELSE 1000 * (IF t.neg THEN -w ELSE w) + f * Ten[3 - d]
    BY <1>2 DEF UnmarshalTime
  <2> QED BY <2>1
<1>4. ms \in Nat /\ ((w * p + f) * 1000) \div p = 1000 * w + ms
  <2>1. CASE d > 3
    <3> DEFINE q == Ten[d - 3]
    <3>1. q \in Nat \ {0} /\ p = 1000 * q
      BY <1>1, <2>1, Powers, Thousand
    <3> HIDE DEF q, p, w, f
    <3>2. ((w * p + f) * 1000) \div (1000 * q) = (w * p + f) \div q
      <4>1. w * p + f \in Nat
        BY <1>1
      <4> QED BY <3>1, <4>1, DivScaled
    <3>3. w * p = (1000 * w) * q
      BY <1>1, <3>1
    <3>4. ((1000 * w) * q + f) \div q = 1000 * w + f \div q
      <4> DEFINE h == 1000 * w
      <4>1. h \in Nat /\ q \in Nat \ {0} /\ f \in Nat
        BY <1>1, <3>1
      <4> HIDE DEF h
      <4>2. (h * q + f) \div q = h + f \div q
        BY <4>1, DivSum, Zenon
      <4> QED BY <4>2 DEF h
    <3>5. f \div q \in Nat
      BY <1>1, <3>1
    <3> QED BY <2>1, <3>1, <3>2, <3>3, <3>4, <3>5 DEF q
  <2>2. CASE ~(d > 3)
    <3> DEFINE k == Ten[3 - d]
    <3>1. k \in Nat \ {0} /\ p * k = 1000
      <4>1. d = 0 \/ d = 1 \/ d = 2 \/ d = 3
        BY <1>1, <2>2
      <4>2. CASE d = 0
        BY <4>2, Thousand
      <4>3. CASE d = 1
        BY <4>3, Thousand
      <4>4. CASE d = 2
        BY <4>4, Thousand
      <4>5. CASE d = 3
        BY <4>5, Thousand
      <4> QED BY <4>1, <4>2, <4>3, <4>4, <4>5
    <3> HIDE DEF k, p, w, f
    <3> DEFINE e == 1000 * w + f * k
    <3>2. e \in Nat
      BY <1>1, <3>1
    <3>3. (w * p + f) * 1000 = p * e
      <4>1. (w * p + f) * 1000 = (w * p) * 1000 + f * (p * k)
        BY <1>1, <3>1
      <4>2. (w * p) * 1000 = p * (1000 * w)
        BY <1>1
      <4>3. f * (p * k) = p * (f * k)
        BY <1>1, <3>1
      <4>4. p * (1000 * w) + p * (f * k) = p * (1000 * w + f * k)
        BY <1>1, <3>1
      <4> QED BY <4>1, <4>2, <4>3, <4>4
    <3> HIDE DEF e
    <3>4. (p * e) \div p = e
      BY <1>1, <3>2
    <3>5. ms = f * k
      BY <2>2 DEF k
    <3>6. f * k \in Nat
      BY <1>1, <3>1
    <3> QED BY <3>3, <3>4, <3>5, <3>6 DEF e
  <2> QED BY <2>1, <2>2
<1>5. f = 0 => ms = 0
  <2>1. d > 3 => Ten[d - 3] \in Nat \ {0}
    BY <1>1, Powers
  <2>2. ~(d > 3) => Ten[3 - d] \in Nat \ {0}
    BY <1>1, Powers
  <2> QED BY <2>1, <2>2
<1> HIDE DEF ms
<1>6. CASE t.neg
  <2>1. f = 0
    BY <1>6
  <2>2. UnmarshalTime(t) = -1000 * w
    BY <1>1, <1>3, <1>5, <1>6, <2>1
  <2>3. ((w * p + f) * 1000) \div p = 1000 * w
    BY <1>1, <1>4, <1>5, <2>1
  <2>4. Denotes(t, UnmarshalTime(t)) <=>
          UnmarshalTime(t) = (-1) * (((w * p + f) * 1000) \div p)
    BY <1>2, <1>6 DEF Denotes
  <2>5. (-1) * (1000 * w) = -1000 * w
    BY <1>1
  <2> QED BY <1>1, <1>6, <2>2, <2>3, <2>4, <2>5
<1>7. CASE ~t.neg
  <2>1. UnmarshalTime(t) = 1000 * w + ms
    BY <1>3, <1>7
  <2>2. Denotes(t, UnmarshalTime(t)) <=>
          UnmarshalTime(t) = 1 * (((w * p + f) * 1000) \div p)
    BY <1>2, <1>7 DEF Denotes
  <2>3. 1000 * w + ms \in Nat
    BY <1>1, <1>4
  <2> QED BY <1>4, <1>7, <2>1, <2>2, <2>3
<1> QED BY <1>6, <1>7

(* A time that is not negative, or is a whole second, is read as it was    *)
(* written.                                                                *)
LEMMA TimeReadsBack ==
  ASSUME NEW t \in Int, t >= 0 \/ t % 1000 = 0
  PROVE  UnmarshalTime(TimeString(t)) = t
<1> DEFINE size == IF t < 0 THEN -t ELSE t
           part == size % 1000
           S    == {k \in 0 .. 3 : part % Ten[3 - k] = 0}
           d    == Lowest(S)
           q    == Ten[3 - d]
<1>1. size \in Nat /\ part \in Nat /\ size = 1000 * (size \div 1000) + part /\ size \div 1000 \in Nat
  OBVIOUS
<1>2. dotPrecision = 3 /\ second = 1000
  BY DEF dotPrecision, second
<1>3. TimeString(t) = [neg |-> t < 0, whole |-> size \div 1000,
                       frac |-> part \div q, digits |-> d]
  BY <1>2 DEF TimeString
<1>4. d \in S
  <2> HIDE DEF part
  <2>1. part % 1 = 0
    BY <1>1
  <2>2. Ten[3 - 3] = 1
    BY Thousand
  <2>3. 3 \in S
    BY <2>1, <2>2
  <2>4. S \subseteq Nat
    OBVIOUS
  <2> HIDE DEF S
  <2>5. S # {}
    BY <2>3
  <2>6. Lowest(S) \in S
    BY <2>4, <2>5, LowestExists, ZenonT(30)
  <2> QED BY <2>6
<1> HIDE DEF d, part, size
<1>5. d \in 0 .. 3 /\ part % q = 0
  BY <1>4
<1>6. q \in Nat \ {0}
  <2>1. 3 - d \in Nat
    BY <1>5
  <2> QED BY <2>1, Powers
<1>7. (part \div q) * q = part
  <2> HIDE DEF q
  <2>1. part = q * (part \div q) /\ part \div q \in Nat
    BY <1>1, <1>5, <1>6, Division
  <2> QED BY <1>6, <2>1
<1>8. UnmarshalTime(TimeString(t)) =
        1000 * (IF t < 0 THEN -(size \div 1000) ELSE size \div 1000) + (part \div q) * q
  <2> DEFINE x == TimeString(t)
             v == 1000 * (IF x.neg THEN -x.whole ELSE x.whole)
  <2>0. x.neg = (t < 0)
    BY <1>3
  <2>1. /\ (x.neg <=> t < 0) /\ x.whole = size \div 1000
        /\ x.frac = part \div q /\ x.digits = d
    <3>1. x.neg <=> t < 0
      <4> HIDE DEF x, v, q
      <4> QED BY <2>0, ZenonT(30)
    <3> QED BY <1>3, <3>1
  <2> HIDE DEF x, q
  <2>2. ~(x.digits > 3)
    BY <1>5, <2>1
  <2>3. UnmarshalTime(x) = v + x.frac * Ten[3 - x.digits]
    BY <1>2, <2>2 DEF UnmarshalTime
  <2>4. x.frac * Ten[3 - x.digits] = (part \div q) * q
    BY <2>1 DEF q
  <2>5. v = 1000 * (IF t < 0 THEN -(size \div 1000) ELSE size \div 1000)
    <3>1. CASE t < 0
      BY <1>1, <2>1, <3>1
    <3>2. CASE ~(t < 0)
      BY <1>1, <2>1, <3>2
    <3> QED BY <3>1, <3>2
  <2> HIDE DEF v
  <2>6. UnmarshalTime(x) =
          1000 * (IF t < 0 THEN -(size \div 1000) ELSE size \div 1000) + (part \div q) * q
    BY <2>3, <2>4, <2>5
  <2> QED BY <2>6 DEF x
<1>9. CASE t >= 0
  <2>1. size = t /\ ~(t < 0)
    BY <1>9 DEF size
  <2> QED BY <1>1, <1>7, <1>8, <2>1
<1>10. CASE t < 0
  <2>1. t % 1000 = 0 /\ size = -t
    BY <1>10 DEF size
  <2>2. part = 0
    BY <2>1 DEF part
  <2> QED BY <1>1, <1>7, <1>8, <1>10, <2>1, <2>2
<1> QED BY <1>9, <1>10

(* Two values are equal if they are one, NaN included.                     *)
LEMMA SampleEqualItself ==
  ASSUME NEW s, NEW o, IsSample(s), o.metric = s.metric, o.time = s.time, o.value = s.value
  PROVE  SampleEqual(o, s)
<1>1. s.value.nan \in BOOLEAN
  BY FloatAssumption DEF IsSample
<1> QED BY <1>1 DEF SampleEqual, Equal, ValueEqual

(* What is decoded comes from the document.                                *)
FromDocument ==
  /\ doc \in Documents
  /\ phase = "received" => result = <<>>
  /\ result = <<>> \/ result = [k \in DOMAIN doc.samples |-> UnmarshalSample(doc.samples[k])]

LEMMA FromDocumentStep == FromDocument /\ [QueryNext]_queryVars => FromDocument'
<1> SUFFICES ASSUME FromDocument, [QueryNext]_queryVars PROVE FromDocument'
  OBVIOUS
<1>1. CASE Decode
  BY <1>1 DEF Decode, FromDocument
<1>2. CASE MatrixString \/ SortVector \/ VectorString
  BY <1>2 DEF MatrixString, SortVector, VectorString, FromDocument
<1>3. CASE Swap \/ NextElement
  BY <1>3 DEF Swap, NextElement, FromDocument
<1>4. CASE VectorSorted \/ PrintMatrix \/ UNCHANGED queryVars
  BY <1>4 DEF VectorSorted, PrintMatrix, queryVars, FromDocument
<1> QED BY <1>3, <1>4, <1>1, <1>2 DEF QueryNext

LEMMA DocumentSurvives == FromDocument => SurvivesJSON
<1> SUFFICES ASSUME FromDocument,
                    \A k \in DOMAIN result : ~doc.samples[k].time.neg \/ doc.samples[k].time.frac = 0
             PROVE  /\ \A k \in DOMAIN result : Denotes(doc.samples[k].time, result[k].time)
                    /\ VectorEqual([k \in DOMAIN result |->
                                      UnmarshalSample(MarshalSample(result[k]))], result)
  BY DEF SurvivesJSON
<1>1. doc.samples \in Seq(Sent)
  BY DocumentsAssumption DEF FromDocument
<1>2. ASSUME NEW k \in DOMAIN result
      PROVE  /\ Denotes(doc.samples[k].time, result[k].time)
             /\ SampleEqual(UnmarshalSample(MarshalSample(result[k])), result[k])
  <2>1. k \in DOMAIN doc.samples /\ result[k] = UnmarshalSample(doc.samples[k])
    BY DEF FromDocument
  <2>2. doc.samples[k] \in Sent
    BY <1>1, <2>1
  <2> DEFINE s == doc.samples[k]
             t == UnmarshalTime(s.time)
  <2>3. IsInstant(s.time) /\ IsSample(result[k])
    BY <2>1, <2>2, DocumentsAssumption DEF Decoded
  <2>4. result[k].time = t
    BY <2>1 DEF UnmarshalSample
  <2>5. ~s.time.neg \/ s.time.frac = 0
    OBVIOUS
  <2> HIDE DEF s
  <2>6. /\ Denotes(s.time, t) /\ t \in Int
        /\ s.time.neg => t = -1000 * s.time.whole
        /\ ~s.time.neg => t \in Nat
    BY <2>3, <2>5, ReadsInstant
  <2>7. t >= 0 \/ t % 1000 = 0
    <3>1. s.time.whole \in Nat
      BY <2>3 DEF IsInstant
    <3> HIDE DEF t
    <3> QED BY <2>6, <3>1
  <2> HIDE DEF t
  <2>8. UnmarshalTime(TimeString(t)) = t
    BY <2>6, <2>7, TimeReadsBack
  <2> DEFINE back == UnmarshalSample(MarshalSample(result[k]))
  <2>9. /\ back.metric = result[k].metric
        /\ back.time = UnmarshalTime(TimeString(result[k].time))
        /\ back.value = result[k].value
    BY DEF UnmarshalSample, MarshalSample
  <2> HIDE DEF back
  <2>10. SampleEqual(back, result[k])
    BY <2>3, <2>4, <2>8, <2>9, SampleEqualItself
  <2> QED BY <2>4, <2>6, <2>10 DEF s, back
<1>3. PICK n \in Nat : DOMAIN result = 1 .. n
  BY <1>1 DEF FromDocument
<1>4. Len(result) = n
  BY <1>1, <1>3 DEF FromDocument
<1> DEFINE copy == [k \in DOMAIN result |-> UnmarshalSample(MarshalSample(result[k]))]
<1>5. Len(copy) = n /\ DOMAIN copy = DOMAIN result
  BY <1>3
<1>6. VectorEqual(copy, result)
  BY <1>2, <1>4, <1>5 DEF VectorEqual
<1> QED BY <1>2, <1>6

(* Each time that is decoded is the instant the server sent, with however  *)
(* many digits, and a result that is written as JSON and read again is an  *)
(* equal result (model/time.go 113-159, value.go 158-196).                 *)
THEOREM JSONKeepsResults == QuerySpec => []SurvivesJSON
<1>1. QueryInit => FromDocument
  BY DEF QueryInit, FromDocument
<1> QED BY <1>1, FromDocumentStep, DocumentSurvives, PTL DEF QuerySpec

-----------------------------------------------------------------------------
(* sort.Sort of signature.go: the list of names that comes out has the     *)
(* names that went in, in increasing order, so it is the same for every    *)
(* order in which a map or a caller gave them.                             *)

(* A list of names in increasing order.                                    *)
Increasing(s) == \A k, n \in DOMAIN s : k < n => s[k] < s[n]

(* The positions whose names are not after the one at k.                   *)
Upto(names, k) ==
  {n \in DOMAIN names : IF n <= k THEN names[n] <= names[k] ELSE names[n] < names[k]}

(* What is less, or equal and before, gets a lower place.                  *)
LEMMA PlacesDiffer ==
  ASSUME NEW N \in Nat, NEW names \in [1 .. N -> Nat]
  PROVE  /\ \A k \in 1 .. N : PlaceOf(names, k) \in 1 .. N
         /\ \A k, n \in 1 .. N : \/ names[k] < names[n]
                                 \/ names[k] = names[n] /\ k < n
                                 => PlaceOf(names, k) < PlaceOf(names, n)
<1> DEFINE D == 1 .. N
           U(k) == Upto(names, k)
<1>1. IsFiniteSet(D) /\ Cardinality(D) = N
  BY FS_Interval
<1>2. ASSUME NEW k \in D
      PROVE  /\ U(k) \subseteq D /\ k \in U(k)
             /\ PlaceOf(names, k) = Cardinality(U(k))
             /\ IsFiniteSet(U(k)) /\ Cardinality(U(k)) \in 1 .. N
  <2>1. U(k) \subseteq D /\ k \in U(k)
    BY <1>2 DEF Upto
  <2>2. PlaceOf(names, k) = Cardinality(U(k))
    BY DEF PlaceOf, Upto
  <2> HIDE DEF U, D
  <2>3. IsFiniteSet(U(k)) /\ Cardinality(U(k)) <= N
    BY <1>1, <2>1, FS_Subset
  <2>4. Cardinality(U(k)) \in Nat /\ Cardinality(U(k)) # 0
    BY <2>1, <2>3, FS_CardinalityType, FS_EmptySet
  <2> QED BY <2>1, <2>2, <2>3, <2>4
<1>3. ASSUME NEW k \in D, NEW n \in D,
             \/ names[k] < names[n]
             \/ names[k] = names[n] /\ k < n
      PROVE  PlaceOf(names, k) < PlaceOf(names, n)
  <2>1. U(k) \subseteq U(n)
    BY <1>3 DEF Upto
  <2>2. n \notin U(k)
    BY <1>3 DEF Upto
  <2>3. U(k) # U(n) /\ IsFiniteSet(U(n))
    BY <1>2, <2>2
  <2> HIDE DEF U
  <2>4. /\ PlaceOf(names, k) = Cardinality(U(k)) /\ Cardinality(U(k)) \in 1 .. N
        /\ PlaceOf(names, n) = Cardinality(U(n)) /\ Cardinality(U(n)) \in 1 .. N
    BY <1>2
  <2>5. /\ Cardinality(U(k)) <= Cardinality(U(n))
        /\ Cardinality(U(n)) = Cardinality(U(k)) => U(n) = U(k)
    BY <2>1, <2>3, FS_Subset
  <2> QED BY <2>3, <2>4, <2>5
<1>4. \A k \in D : PlaceOf(names, k) \in 1 .. N
  <2> HIDE DEF U
  <2> QED BY <1>2
<1> QED BY <1>3, <1>4

LEMMA ValuesWithin ==
  ASSUME NEW D, NEW f, NEW g, \A k \in D : \E n \in D : f[k] = g[n]
  PROVE  {f[k] : k \in D} \subseteq {g[k] : k \in D}
OBVIOUS

(* Sorted puts different names in increasing order.                        *)
LEMMA SortedFacts ==
  ASSUME NEW N \in Nat, NEW names \in [1 .. N -> Nat],
         \A k, n \in 1 .. N : names[k] = names[n] => k = n
  PROVE  /\ Sorted(names) \in [1 .. N -> Nat]
         /\ Increasing(Sorted(names))
         /\ {Sorted(names)[k] : k \in 1 .. N} = {names[k] : k \in 1 .. N}
<1> DEFINE D == 1 .. N
           place == [k \in D |-> PlaceOf(names, k)]
           at(p) == CHOOSE k \in D : PlaceOf(names, k) = p
<1>1. IsFiniteSet(D)
  BY FS_Interval
<1>2. place \in Injection(D, D)
  <2>1. place \in [D -> D]
    BY PlacesDiffer
  <2>2. ASSUME NEW k \in D, NEW n \in D, place[k] = place[n]
        PROVE  k = n
    <3> DEFINE x == PlaceOf(names, k)
               y == PlaceOf(names, n)
    <3>1. x = y /\ x \in Nat /\ names[k] \in Nat /\ names[n] \in Nat
      BY <2>2, PlacesDiffer
    <3>2. \/ names[k] < names[n]
          \/ names[k] = names[n] /\ k < n
          => x < y
      BY PlacesDiffer
    <3>3. \/ names[n] < names[k]
          \/ names[n] = names[k] /\ n < k
          => y < x
      BY PlacesDiffer
    <3> HIDE DEF x, y, place
    <3> QED BY <3>1, <3>2, <3>3
  <2> QED BY <2>1, <2>2 DEF Injection, IsInjective
<1>3. place \in Surjection(D, D)
  BY <1>1, <1>2, FS_Injection
<1>4. \A p \in D : at(p) \in D /\ PlaceOf(names, at(p)) = p
  <2>1. \A p \in D : \E k \in D : PlaceOf(names, k) = p
    BY <1>3 DEF Surjection
  <2> QED BY <2>1
<1>5. Sorted(names) = [p \in D |-> names[at(p)]]
  BY DEF Sorted
<1> HIDE DEF at
<1>6. ASSUME NEW p \in D, NEW q \in D, p < q
      PROVE  names[at(p)] < names[at(q)]
  <2>1. /\ at(p) \in D /\ PlaceOf(names, at(p)) = p
        /\ at(q) \in D /\ PlaceOf(names, at(q)) = q
    BY <1>4
  <2>2. ~(names[at(q)] < names[at(p)])
    <3>1. names[at(q)] < names[at(p)] => PlaceOf(names, at(q)) < PlaceOf(names, at(p))
      BY <2>1, PlacesDiffer
    <3> QED BY <1>6, <2>1, <3>1
  <2> QED BY <1>6, <2>1, <2>2
<1>7. \A k \in D : PlaceOf(names, k) \in D /\ at(PlaceOf(names, k)) = k
  BY <1>2, <1>4 DEF Injection, IsInjective
<1>8. Sorted(names) \in [1 .. N -> Nat] /\ Increasing(Sorted(names))
  <2>1. \A p \in D : Sorted(names)[p] = names[at(p)]
    BY <1>5
  <2>2. Sorted(names) \in [1 .. N -> Nat]
    BY <1>4, <1>5
  <2>3. Increasing(Sorted(names))
    BY <1>6, <2>1, <2>2 DEF Increasing
  <2> QED BY <2>2, <2>3
<1>9. {Sorted(names)[k] : k \in D} = {names[k] : k \in D}
  <2>1. \A k \in D : Sorted(names)[k] = names[at(k)] /\ at(k) \in D
    BY <1>4, <1>5
  <2>2. ASSUME NEW k \in D
        PROVE  \E p \in D : names[k] = Sorted(names)[p]
    BY <1>7, <2>1
  <2> DEFINE inOrder == Sorted(names)
             Found == {inOrder[k] : k \in D}
             Given == {names[k] : k \in D}
  <2> HIDE DEF D, inOrder
  <2>3. Found \subseteq Given
    BY <2>1, ValuesWithin DEF inOrder
  <2>4. Given \subseteq Found
    BY <2>2, ValuesWithin DEF inOrder
  <2> HIDE DEF Found, Given
  <2>5. Found = Given
    BY <2>3, <2>4
  <2> QED BY <2>5 DEF Found, Given, inOrder
<1> QED BY <1>8, <1>9

(* A set in any order.                                                     *)
LEMMA ListsOfSet ==
  ASSUME NEW S, IsFiniteSet(S)
  PROVE  /\ Cardinality(S) \in Nat
         /\ SetToSeq(S) \in SetToSeqs(S)
         /\ \A s \in SetToSeqs(S) :
               /\ s \in [1 .. Cardinality(S) -> S]
               /\ \A k, n \in 1 .. Cardinality(S) : s[k] = s[n] => k = n
               /\ {s[k] : k \in 1 .. Cardinality(S)} = S
<1> DEFINE D == 1 .. Cardinality(S)
<1>1. Cardinality(S) \in Nat /\ ExistsBijection(D, S)
  BY FS_CardinalityType
<1>2. IsFiniteSet(D) /\ Cardinality(D) = Cardinality(S)
  BY <1>1, FS_Interval
<1>3. \E f \in [D -> S] : IsInjective(f)
  <2>1. PICK f \in [D -> S] : \A k, n \in D : f[k] = f[n] => k = n
    BY <1>1 DEF ExistsBijection, Bijection, Injection, IsInjective
  <2> QED BY <2>1 DEF IsInjective
<1>4. SetToSeq(S) \in [D -> S] /\ IsInjective(SetToSeq(S))
  BY <1>3 DEF SetToSeq
<1>5. SetToSeq(S) \in SetToSeqs(S)
  BY <1>4 DEF SetToSeqs, IsInjective
<1>6. ASSUME NEW s \in SetToSeqs(S)
      PROVE  /\ s \in [D -> S]
             /\ \A k, n \in D : s[k] = s[n] => k = n
             /\ {s[k] : k \in D} = S
  <2>1. s \in [D -> S] /\ \A k, n \in D : s[k] = s[n] => k = n
    BY DEF SetToSeqs
  <2>2. s \in Injection(D, S)
    BY <2>1 DEF Injection, IsInjective
  <2>3. s \in Surjection(D, S)
    BY <1>2, <2>2, FS_Injection
  <2> QED BY <2>1, <2>3 DEF Surjection
<1> QED BY <1>1, <1>5, <1>6

(* Two increasing lists of the same names are the same.                    *)
LEMMA IncreasingAgree ==
  ASSUME NEW N \in Nat, NEW s \in [1 .. N -> Nat], NEW t \in [1 .. N -> Nat],
         Increasing(s), Increasing(t),
         {s[k] : k \in 1 .. N} = {t[k] : k \in 1 .. N}
  PROVE  s = t
<1> DEFINE B == {k \in 1 .. N : s[k] # t[k]}
<1>1. SUFFICES ASSUME B # {}
               PROVE  FALSE
  OBVIOUS
<1>2. PICK k \in B : \A n \in B : k <= n
  <2>1. B \subseteq Nat
    OBVIOUS
  <2> HIDE DEF B
  <2> QED BY <1>1, <2>1, LowestExists
<1>3. \A n \in 1 .. N : n < k => s[n] = t[n]
  BY <1>2
<1>4. PICK n \in 1 .. N : s[k] = t[n]
  BY <1>2
<1>5. PICK m \in 1 .. N : t[k] = s[m]
  BY <1>2
<1>6. s[k] \in Nat /\ t[k] \in Nat /\ s[k] # t[k]
  BY <1>2
<1>7. s[k] > t[k]
  BY <1>2, <1>3, <1>4, <1>6 DEF Increasing
<1>8. t[k] > s[k]
  BY <1>2, <1>3, <1>5, <1>6 DEF Increasing
<1> QED BY <1>6, <1>7, <1>8

(* The sorted list of a set, whatever its order was.                       *)
LEMMA SortedNames ==
  ASSUME NEW S, IsFiniteSet(S), S \subseteq Nat, NEW s \in SetToSeqs(S)
  PROVE  /\ Sorted(s) = Sorted(SetToSeq(S))
         /\ Sorted(s) \in [1 .. Cardinality(S) -> Nat]
         /\ {Sorted(s)[k] : k \in 1 .. Cardinality(S)} = S
<1> DEFINE N == Cardinality(S)
<1>1. \A t \in SetToSeqs(S) : /\ t \in [1 .. N -> Nat]
                              /\ \A k, n \in 1 .. N : t[k] = t[n] => k = n
                              /\ {t[k] : k \in 1 .. N} = S
  <2>1. ASSUME NEW t \in SetToSeqs(S)
        PROVE  /\ t \in [1 .. N -> S]
               /\ \A k, n \in 1 .. N : t[k] = t[n] => k = n
               /\ {t[k] : k \in 1 .. N} = S
    BY ListsOfSet
  <2> HIDE DEF N
  <2> QED BY <2>1
<1>2. N \in Nat /\ SetToSeq(S) \in SetToSeqs(S)
  BY ListsOfSet
<1> HIDE DEF N
<1>3. \A t \in SetToSeqs(S) : /\ Sorted(t) \in [1 .. N -> Nat] /\ Increasing(Sorted(t))
                              /\ {Sorted(t)[k] : k \in 1 .. N} = S
  BY <1>1, <1>2, SortedFacts
<1>4. Sorted(s) = Sorted(SetToSeq(S))
  <2>1. {Sorted(s)[k] : k \in 1 .. N} = {Sorted(SetToSeq(S))[k] : k \in 1 .. N}
    BY <1>2, <1>3
  <2> QED BY <1>2, <1>3, <2>1, IncreasingAgree
<1> QED BY <1>3, <1>4 DEF N

(* SignatureForLabels, SignatureWithoutLabels and labelSetToFingerprint    *)
(* hash the same bytes for the same labels.                                *)
LEMMA Agreement ==
  ASSUME NEW m, IsLabelSet(m), NEW L \in SUBSET DOMAIN m, NEW labels \in SetToSeqs(L),
         NEW N, DOMAIN m \subseteq N
  PROVE  /\ SignatureForLabels(m, labels) = SignatureWithoutLabels(m, N \ L)
         /\ SignatureForLabels(m, labels) = labelSetToFingerprint([ln \in L |-> m[ln]])
<1> DEFINE names == Sorted(SetToSeq(L))
           r     == [ln \in L |-> m[ln]]
<1>1. IsFiniteSet(L) /\ L \subseteq Nat
  BY FS_Subset DEF IsLabelSet
<1>2. SetToSeq(L) \in SetToSeqs(L) /\ Cardinality(L) \in Nat
  BY <1>1, ListsOfSet
<1>3. /\ Sorted(labels) = names
      /\ names \in [1 .. Cardinality(L) -> Nat]
      /\ {names[k] : k \in 1 .. Cardinality(L)} = L
  BY <1>1, <1>2, SortedNames
<1>4. SignatureForLabels(m, labels) = hashAdd(hashNew, Stream(m, names))
  BY <1>3 DEF SignatureForLabels
<1>5. SignatureWithoutLabels(m, N \ L) = hashAdd(hashNew, Stream(m, names))
  <2>1. DOMAIN m \ (N \ L) = L
    OBVIOUS
  <2> QED BY <2>1 DEF SignatureWithoutLabels
<1>6. labelSetToFingerprint(r) = hashAdd(hashNew, Stream(r, names))
  BY DEF labelSetToFingerprint
<1>7. Stream(r, names) = Stream(m, names)
  <2>1. \A k \in DOMAIN names : Value(r, names[k]) = Value(m, names[k])
    <3>1. \A k \in DOMAIN names : names[k] \in L
      BY <1>3
    <3> HIDE DEF names
    <3> QED BY <3>1 DEF Value
  <2> HIDE DEF names, r
  <2> QED BY <2>1 DEF Stream
<1> QED BY <1>4, <1>5, <1>6, <1>7

-----------------------------------------------------------------------------
(* What is hashed tells names and values apart: no string has the          *)
(* separator, so the first separator after a string is its end.            *)

(* What is hashed for one label, from the bytes of its name and value.     *)
Segment(p, q) == (p \o <<SeparatorByte>>) \o (q \o <<SeparatorByte>>)

(* The bytes of strings.                                                   *)
Bytes == 0 .. SeparatorByte - 1

(* In a, the string p of n bytes and a separator follow the first `from'.  *)
Ends(a, from, p, n) ==
  /\ \A k \in 1 .. n : a[from + k] = p[k]
  /\ a[from + (n + 1)] = SeparatorByte

(* Where the elements of two strings are in their concatenation.           *)
LEMMA Concatenated ==
  ASSUME NEW S, NEW s \in Seq(S), NEW t \in Seq(S)
  PROVE  /\ Len(s) \in Nat /\ Len(t) \in Nat
         /\ s \o t \in Seq(S)
         /\ Len(s \o t) = Len(s) + Len(t) /\ DOMAIN (s \o t) = 1 .. (Len(s) + Len(t))
         /\ \A k \in 1 .. Len(s) : (s \o t)[k] = s[k]
         /\ \A k \in 1 .. Len(t) : (s \o t)[Len(s) + k] = t[k]
<1> DEFINE n == Len(s)
           m == Len(t)
<1>1. n \in Nat /\ m \in Nat
  BY LenProperties
<1>2. s \o t \in Seq(S) /\ Len(s \o t) = n + m /\ DOMAIN (s \o t) = 1 .. (n + m)
  BY ConcatProperties, LenProperties
<1> DEFINE c == s \o t
<1>3. \A k \in 1 .. n + m : c[k] = IF k <= n THEN s[k] ELSE t[k - n]
  BY ConcatProperties
<1> HIDE DEF c, n, m
<1>4. \A k \in 1 .. n : c[k] = s[k]
  BY <1>1, <1>3
<1>5. \A k \in 1 .. m : c[n + k] = t[k]
  <2>1. \A k \in 1 .. m : n + k \in 1 .. n + m /\ ~(n + k <= n) /\ (n + k) - n = k
    BY <1>1
  <2> QED BY <1>3, <2>1
<1> QED BY <1>1, <1>2, <1>4, <1>5 DEF c, n, m

(* A string of names and values and the separator after it.                *)
LEMMA StringEnds ==
  ASSUME NEW p \in Seq(Bytes)
  PROVE  /\ Len(p) \in Nat /\ p \in [1 .. Len(p) -> Bytes]
         /\ p \o <<SeparatorByte>> \in Seq(Byte)
         /\ Len(p \o <<SeparatorByte>>) = Len(p) + 1
         /\ \A k \in 1 .. Len(p) : (p \o <<SeparatorByte>>)[k] = p[k]
         /\ (p \o <<SeparatorByte>>)[Len(p) + 1] = SeparatorByte
<1> DEFINE s == <<SeparatorByte>>
           n == Len(p)
<1>1. p \in Seq(Byte) /\ s \in Seq(Byte) /\ Len(s) = 1 /\ s[1] = SeparatorByte
  BY DEF Bytes, Byte, SeparatorByte
<1>2. n \in Nat /\ p \in [1 .. n -> Bytes]
  BY LenProperties
<1> HIDE DEF s
<1>3. /\ p \o s \in Seq(Byte) /\ Len(p \o s) = n + 1
      /\ \A k \in 1 .. n : (p \o s)[k] = p[k]
      /\ \A k \in 1 .. Len(s) : (p \o s)[n + k] = s[k]
  <2>1. p \o s \in Seq(Byte)
    BY <1>1, Concatenated
  <2>2. Len(p \o s) = Len(p) + Len(s)
    BY <1>1, Concatenated
  <2>3. \A k \in 1 .. Len(p) : (p \o s)[k] = p[k]
    BY <1>1, Concatenated
  <2> DEFINE c == p \o s
  <2>0. p \in Seq(Byte) /\ s \in Seq(Byte)
    BY <1>1
  <2>4. \A k \in 1 .. Len(s) : c[Len(p) + k] = s[k]
    BY <2>0, Concatenated
  <2> QED BY <1>1, <2>1, <2>2, <2>3, <2>4
<1>4. 1 \in 1 .. Len(s)
  BY <1>1
<1> QED BY <1>1, <1>2, <1>3, <1>4 DEF s

(* In a segment the name ends where the value begins.                      *)
LEMMA SegmentEnds ==
  ASSUME NEW p \in Seq(Bytes), NEW q \in Seq(Bytes)
  PROVE  /\ Len(p) \in Nat /\ Len(q) \in Nat
         /\ Segment(p, q) \in Seq(Byte)
         /\ DOMAIN Segment(p, q) = 1 .. (Len(p) + Len(q) + 2)
         /\ Ends(Segment(p, q), 0, p, Len(p))
         /\ Ends(Segment(p, q), Len(p) + 1, q, Len(q))
<1> DEFINE n == Len(p)
           m == Len(q)
           s == p \o <<SeparatorByte>>
           t == q \o <<SeparatorByte>>
<1>1. /\ n \in Nat /\ s \in Seq(Byte) /\ Len(s) = n + 1
      /\ \A k \in 1 .. n : s[k] = p[k]
      /\ s[n + 1] = SeparatorByte
  BY StringEnds
<1>2. /\ m \in Nat /\ t \in Seq(Byte) /\ Len(t) = m + 1
      /\ \A k \in 1 .. m : t[k] = q[k]
      /\ t[m + 1] = SeparatorByte
  BY StringEnds
<1> HIDE DEF s, t
<1> DEFINE a == s \o t
<1>3. /\ a \in Seq(Byte) /\ DOMAIN a = 1 .. ((n + 1) + (m + 1))
      /\ \A k \in 1 .. n + 1 : a[k] = s[k]
      /\ \A k \in 1 .. m + 1 : a[(n + 1) + k] = t[k]
  <2>1. s \in Seq(Byte) /\ t \in Seq(Byte)
    BY <1>1, <1>2
  <2>2. a \in Seq(Byte)
    BY <2>1, Concatenated
  <2>3. DOMAIN a = 1 .. (Len(s) + Len(t))
    BY <2>1, Concatenated
  <2>4. \A k \in 1 .. Len(s) : a[k] = s[k]
    BY <2>1, Concatenated
  <2>5. \A k \in 1 .. Len(t) : a[Len(s) + k] = t[k]
    BY <2>1, Concatenated
  <2>6. Len(s) = n + 1 /\ Len(t) = m + 1
    BY <1>1, <1>2
  <2> HIDE DEF a, n, m
  <2> QED BY <2>2, <2>3, <2>4, <2>5, <2>6
<1> HIDE DEF a, n, m
<1>4. (n + 1) + (m + 1) = n + m + 2
  BY <1>1, <1>2
<1>5. Ends(a, 0, p, n)
  <2>1. \A k \in 1 .. n : k \in 1 .. n + 1 /\ 0 + k = k
    BY <1>1
  <2>2. n + 1 \in 1 .. n + 1 /\ 0 + (n + 1) = n + 1
    BY <1>1
  <2> QED BY <1>1, <1>3, <2>1, <2>2 DEF Ends
<1>6. Ends(a, n + 1, q, m)
  <2>1. m + 1 \in 1 .. m + 1 /\ \A k \in 1 .. m : k \in 1 .. m + 1
    BY <1>2
  <2> QED BY <1>2, <1>3, <2>1 DEF Ends
<1>7. a = Segment(p, q)
  BY DEF a, s, t, Segment
<1> QED BY <1>1, <1>2, <1>3, <1>4, <1>5, <1>6, <1>7 DEF n, m

(* A string ends at the first separator.                                   *)
LEMMA StringsAgree ==
  ASSUME NEW n \in Nat, NEW p \in [1 .. n -> Bytes],
         NEW m \in Nat, NEW r \in [1 .. m -> Bytes],
         NEW from \in Nat, NEW a, NEW b, Ends(a, from, p, n), Ends(b, from, r, m),
         \A k \in DOMAIN a \cap DOMAIN b : a[k] = b[k],
         \A k \in 1 .. n + 1 : k <= m + 1 => from + k \in DOMAIN a \cap DOMAIN b
  PROVE  n = m /\ p = r
<1> DEFINE D == DOMAIN a \cap DOMAIN b
<1>0. /\ \A k \in D : a[k] = b[k]
      /\ \A k \in 1 .. n + 1 : k <= m + 1 => from + k \in D
  OBVIOUS
<1> HIDE DEF D
<1>1. SeparatorByte \notin Bytes
  BY DEF SeparatorByte, Bytes
<1>2. ~(n < m)
  <2>1. n < m => n + 1 \in 1 .. m /\ from + (n + 1) \in D
    BY <1>0
  <2> QED BY <1>0, <1>1, <2>1 DEF Ends
<1>3. ~(m < n)
  <2>1. m < n => m + 1 \in 1 .. n /\ from + (m + 1) \in D
    BY <1>0
  <2> QED BY <1>0, <1>1, <2>1 DEF Ends
<1>4. n = m
  BY <1>2, <1>3
<1>5. \A k \in 1 .. n : from + k \in D
  BY <1>0, <1>4
<1>6. \A k \in 1 .. n : p[k] = r[k]
  BY <1>0, <1>4, <1>5 DEF Ends
<1> QED BY <1>4, <1>6

(* A segment ends at its second separator: of two segments neither is a    *)
(* proper beginning of the other, and equal ones have equal parts.         *)
LEMMA SegmentsAgree ==
  ASSUME NEW p \in Seq(Bytes), NEW q \in Seq(Bytes),
         NEW r \in Seq(Bytes), NEW s \in Seq(Bytes),
         \A k \in DOMAIN Segment(p, q) \cap DOMAIN Segment(r, s) :
            Segment(p, q)[k] = Segment(r, s)[k]
  PROVE  p = r /\ q = s
<1> DEFINE a  == Segment(p, q)
           b  == Segment(r, s)
           np == Len(p)
           nq == Len(q)
           nr == Len(r)
           ns == Len(s)
           D  == DOMAIN a \cap DOMAIN b
<1>1. /\ np \in Nat /\ nq \in Nat /\ DOMAIN a = 1 .. (np + nq + 2)
      /\ Ends(a, 0, p, np) /\ Ends(a, np + 1, q, nq)
  BY SegmentEnds
<1>2. /\ nr \in Nat /\ ns \in Nat /\ DOMAIN b = 1 .. (nr + ns + 2)
      /\ Ends(b, 0, r, nr) /\ Ends(b, nr + 1, s, ns)
  BY SegmentEnds
<1>3. /\ p \in [1 .. np -> Bytes] /\ q \in [1 .. nq -> Bytes]
      /\ r \in [1 .. nr -> Bytes] /\ s \in [1 .. ns -> Bytes]
  BY StringEnds
<1>4. \A k \in D : a[k] = b[k]
  OBVIOUS
<1>5. \A k \in 1 .. np + nq + 2 : k <= nr + ns + 2 => k \in D
  BY <1>1, <1>2
<1> HIDE DEF a, b, np, nq, nr, ns
<1>6. np = nr /\ p = r
  <2>1. \A k \in 1 .. np + 1 : k <= nr + 1 => 0 + k \in D
    BY <1>1, <1>2, <1>5
  <2> QED BY <1>1, <1>2, <1>3, <1>4, <2>1, StringsAgree
<1>7. nq = ns /\ q = s
  <2> DEFINE from == np + 1
  <2>1. from \in Nat /\ \A k \in 1 .. nq + 1 : k <= ns + 1 => from + k \in D
    BY <1>1, <1>2, <1>5, <1>6
  <2>2. Ends(a, from, q, nq) /\ Ends(b, from, s, ns)
    BY <1>1, <1>2, <1>6
  <2> HIDE DEF from
  <2> QED BY <1>1, <1>2, <1>3, <1>4, <2>1, <2>2, StringsAgree
<1> QED BY <1>6, <1>7

-----------------------------------------------------------------------------
(* A list of segments is known from the string they make: FlattenSeq is a  *)
(* recursive function, followed from its first string to the first place   *)
(* where two lists could differ.                                           *)

(* g[k] is the concatenation of the first k strings of a list of n.        *)
Runs(g, ss, n, S) ==
  /\ g \in [0 .. n -> Seq(S)]
  /\ g[0] = <<>>
  /\ \A k \in 1 .. n : g[k] = g[k - 1] \o ss[k]

(* There is such a g for each list.                                        *)
LEMMA RunsExist ==
  ASSUME NEW S, NEW N \in Nat, NEW ss \in [1 .. N -> Seq(S)]
  PROVE  \E g : Runs(g, ss, N, S)
<1> DEFINE B == {n \in 0 .. N : ~\E g : Runs(g, ss, n, S)}
<1>0. SUFFICES ASSUME ~\E g : Runs(g, ss, N, S)
               PROVE  FALSE
  OBVIOUS
<1>1. B # {}
  <2>1. N \in B
    BY <1>0
  <2> QED BY <2>1
<1>2. PICK n \in B : n \in Nat /\ \A m \in Nat : m < n => m \notin B
  <2>1. B \subseteq Nat
    OBVIOUS
  <2> HIDE DEF B
  <2> QED BY <1>1, <2>1, LeastExists
<1>3. n \in 0 .. N /\ ~\E g : Runs(g, ss, n, S)
  BY <1>2
<1>4. n # 0
  <2>1. Runs([k \in 0 .. 0 |-> <<>>], ss, 0, S)
    BY DEF Runs
  <2> QED BY <1>3, <2>1
<1>5. n - 1 \in 0 .. N /\ n - 1 \in Nat /\ n - 1 < n
  BY <1>3, <1>4
<1>6. PICK f : Runs(f, ss, n - 1, S)
  <2>1. n - 1 \notin B
    <3> HIDE DEF B
    <3> QED BY <1>2, <1>5
  <2> QED BY <1>5, <2>1
<1> HIDE DEF B
<1> DEFINE t == f[n - 1] \o ss[n]
           g == [k \in 0 .. n |-> IF k = n THEN t ELSE f[k]]
<1>7. t \in Seq(S)
  <2>1. f[n - 1] \in Seq(S) /\ ss[n] \in Seq(S)
    BY <1>3, <1>4, <1>6 DEF Runs
  <2> QED BY <2>1, ConcatProperties
<1>8. /\ g[n] = t /\ g[n - 1] = f[n - 1]
      /\ \A k \in 0 .. (n - 1) : g[k] = f[k]
  <2> HIDE DEF t
  <2> QED BY <1>3, <1>4
<1>9. g \in [0 .. n -> Seq(S)]
  <2> HIDE DEF t
  <2>1. \A k \in 0 .. n : k # n => k \in 0 .. (n - 1)
    BY <1>3
  <2> QED BY <1>6, <1>7, <2>1 DEF Runs
<1> HIDE DEF g
<1>10. \A k \in 1 .. n : g[k] = g[k - 1] \o ss[k]
  <2>1. \A k \in 1 .. n : k # n => k \in 1 .. (n - 1) /\ k - 1 \in 0 .. (n - 1) /\ k \in 0 .. (n - 1)
    BY <1>3
  <2>2. \A k \in 1 .. (n - 1) : f[k] = f[k - 1] \o ss[k]
    BY <1>6 DEF Runs
  <2>3. \A k \in 1 .. n : k # n => g[k] = g[k - 1] \o ss[k]
    BY <1>8, <2>1, <2>2
  <2>4. g[n] = g[n - 1] \o ss[n]
    BY <1>8
  <2> QED BY <2>3, <2>4
<1>11. g[0] = <<>>
  <2>1. f[0] = <<>>
    BY <1>6 DEF Runs
  <2>2. 0 \in 0 .. (n - 1)
    BY <1>5
  <2> QED BY <1>8, <2>1, <2>2
<1> QED BY <1>3, <1>9, <1>10, <1>11 DEF Runs

(* FlattenSeq, a recursive function, is the last of them.                  *)
LEMMA Flattened ==
  ASSUME NEW S, NEW N \in Nat, NEW ss \in [1 .. N -> Seq(S)]
  PROVE  \E g : Runs(g, ss, N, S) /\ FlattenSeq(ss) = g[N]
<1>1. CASE N = 0
  <2>1. ss = <<>> /\ Len(ss) = 0
    BY <1>1
  <2>2. FlattenSeq(ss) = <<>>
    BY <2>1 DEF FlattenSeq
  <2>3. PICK g : Runs(g, ss, N, S)
    BY RunsExist
  <2>4. g[N] = <<>>
    BY <1>1, <2>3 DEF Runs
  <2> QED BY <2>2, <2>3, <2>4
<1>2. CASE N # 0
  <2> DEFINE Step(f) == [i_ \in 1 .. N |-> IF i_ = 1 THEN ss[i_] ELSE f[i_ - 1] \o ss[i_]]
             fl == CHOOSE f : f = Step(f)
  <2>1. Len(ss) = N
    OBVIOUS
  <2>2. FlattenSeq(ss) = fl[N]
    BY <1>2, <2>1 DEF FlattenSeq
  <2>3. PICK h : Runs(h, ss, N, S)
    BY RunsExist
  <2>4. \E f : f = Step(f)
    <3> DEFINE f == [k \in 1 .. N |-> h[k]]
    <3>1. ASSUME NEW k \in 1 .. N
          PROVE  f[k] = IF k = 1 THEN ss[k] ELSE f[k - 1] \o ss[k]
      <4>1. h[k] = h[k - 1] \o ss[k]
        BY <2>3 DEF Runs
      <4>2. CASE k = 1
        <5>1. h[k] = <<>> \o ss[1]
          <6>1. k - 1 = 0 /\ h[0] = <<>>
            BY <2>3, <4>2 DEF Runs
          <6> QED BY <4>1, <4>2, <6>1
        <5>2. ss[1] \in Seq(S)
          BY <1>2
        <5>3. <<>> \o ss[1] = ss[1]
          BY <5>2, ConcatEmptySeq
        <5> QED BY <4>2, <5>1, <5>3
      <4>3. CASE k # 1
        <5>1. k - 1 \in 1 .. N
          BY <4>3
        <5> QED BY <4>1, <4>3, <5>1
      <4> QED BY <4>2, <4>3
    <3>2. f = [k \in 1 .. N |-> f[k]]
      OBVIOUS
    <3> HIDE DEF f
    <3>3. f = Step(f)
      BY <3>1, <3>2
    <3> QED BY <3>3
  <2>5. fl = Step(fl)
    <3> HIDE DEF Step
    <3> QED BY <2>4
  <2> HIDE DEF fl
  <2>6. \A k \in 1 .. N : fl[k] = IF k = 1 THEN ss[k] ELSE fl[k - 1] \o ss[k]
    BY <2>5
  <2> HIDE DEF Step
  <2> DEFINE B == {k \in 1 .. N : fl[k] # h[k]}
  <2>7. B = {}
    <3> SUFFICES ASSUME B # {}
                 PROVE  FALSE
      OBVIOUS
    <3>1. PICK k \in B : k \in Nat /\ \A m \in Nat : m < k => m \notin B
      <4>1. B \subseteq Nat
        OBVIOUS
      <4> HIDE DEF B
      <4> QED BY <4>1, LeastExists
    <3>2. k \in 1 .. N /\ fl[k] # h[k]
      BY <3>1
    <3>3. h[k] = h[k - 1] \o ss[k] /\ h[0] = <<>> /\ ss[k] \in Seq(S)
      BY <2>3, <3>2 DEF Runs
    <3>4. CASE k = 1
      <4>1. <<>> \o ss[k] = ss[k]
        BY <3>3, ConcatEmptySeq
      <4>2. fl[k] = ss[k]
        BY <2>6, <3>2, <3>4
      <4>3. h[k] = ss[k]
        <5>1. k - 1 = 0
          BY <3>4
        <5> QED BY <3>3, <4>1, <5>1
      <4> QED BY <3>2, <4>2, <4>3
    <3>5. CASE k # 1
      <4>1. k - 1 \in 1 .. N /\ k - 1 \in Nat /\ k - 1 < k
        BY <3>2, <3>5
      <4>2. k - 1 \notin B
        <5> HIDE DEF B
        <5> QED BY <3>1, <4>1
      <4>3. fl[k - 1] = h[k - 1]
        BY <4>1, <4>2
      <4> QED BY <2>6, <3>2, <3>3, <3>5, <4>3
    <3> QED BY <3>4, <3>5
  <2>8. fl[N] = h[N]
    BY <1>2, <2>7
  <2> QED BY <2>2, <2>3, <2>8
<1> QED BY <1>1, <1>2

(* The string y begins with x.                                             *)
Begins(x, y) ==
  /\ Len(x) <= Len(y)
  /\ \A z \in 1 .. Len(x) : y[z] = x[z]

(* The strings so far are where the whole begins.                          *)
LEMMA RunsBegin ==
  ASSUME NEW S, NEW N \in Nat, NEW ss \in [1 .. N -> Seq(S)], NEW g, Runs(g, ss, N, S),
         NEW k \in 0 .. N
  PROVE  Begins(g[k], g[N])
<1> DEFINE B == {d \in 0 .. N : ~Begins(g[N - d], g[N])}
<1>1. \A n \in 0 .. N : g[n] \in Seq(S) /\ Len(g[n]) \in Nat
  BY DEF Runs
<1>2. B = {}
  <2> SUFFICES ASSUME B # {}
               PROVE  FALSE
    OBVIOUS
  <2>1. PICK d \in B : d \in Nat /\ \A m \in Nat : m < d => m \notin B
    <3>1. B \subseteq Nat
      OBVIOUS
    <3> HIDE DEF B
    <3> QED BY <3>1, LeastExists
  <2>2. d \in 0 .. N /\ ~Begins(g[N - d], g[N])
    BY <2>1
  <2>3. Begins(g[N], g[N])
    BY <1>1 DEF Begins
  <2>4. d # 0
    BY <2>2, <2>3
  <2> DEFINE n == N - d
  <2>5. n \in 0 .. N /\ n + 1 \in 1 .. N /\ n + 1 = N - (d - 1) /\ d - 1 \in 0 .. N
    BY <2>2, <2>4
  <2>6. d - 1 \notin B
    <3>1. d - 1 \in Nat /\ d - 1 < d
      BY <2>5
    <3> HIDE DEF B
    <3> QED BY <2>1, <3>1
  <2>7. Begins(g[n + 1], g[N])
    BY <2>5, <2>6
  <2>8. ~Begins(g[n], g[N])
    BY <2>2
  <2> HIDE DEF n, B
  <2>9. g[n + 1] = g[n] \o ss[n + 1] /\ g[n] \in Seq(S) /\ ss[n + 1] \in Seq(S)
    <3>1. (n + 1) - 1 = n
      BY <2>5
    <3> QED BY <1>1, <2>5, <3>1 DEF Runs
  <2> DEFINE a == g[n]
             b == ss[n + 1]
             c == g[n + 1]
  <2>12. a \in Seq(S) /\ b \in Seq(S) /\ c = a \o b
    BY <2>9
  <2> HIDE DEF a, b, c
  <2>10. Len(a) \in Nat /\ Len(b) \in Nat /\ Len(c) = Len(a) + Len(b)
    BY <2>12, Concatenated
  <2>11. \A x \in 1 .. Len(a) : c[x] = a[x]
    BY <2>12, Concatenated
  <2> DEFINE e == g[N]
  <2>13. /\ Len(c) <= Len(e) /\ Len(e) \in Nat
         /\ \A x \in 1 .. Len(c) : e[x] = c[x]
    BY <1>1, <2>7 DEF c, Begins
  <2>14. ~(Len(a) <= Len(e) /\ \A x \in 1 .. Len(a) : e[x] = a[x])
    BY <2>8 DEF a, Begins
  <2> HIDE DEF e
  <2> QED BY <2>10, <2>11, <2>13, <2>14
<1>3. N - k \in 0 .. N /\ N - (N - k) = k
  OBVIOUS
<1> QED BY <1>2, <1>3

(* The strings that are hashed for labels.                                 *)
Segments == {Segment(p, q) : p, q \in Seq(Bytes)}

(* A segment is a string that is not empty.                                *)
LEMMA SegmentFacts ==
  ASSUME NEW a \in Segments
  PROVE  a \in Seq(Byte) /\ DOMAIN a = 1 .. Len(a) /\ Len(a) \in Nat \ {0}
<1>1. PICK p \in Seq(Bytes), q \in Seq(Bytes) : a = Segment(p, q)
  BY DEF Segments
<1>2. /\ Len(p) \in Nat /\ Len(q) \in Nat /\ a \in Seq(Byte)
      /\ DOMAIN a = 1 .. (Len(p) + Len(q) + 2)
  BY <1>1, SegmentEnds
<1> DEFINE n == Len(p) + Len(q) + 2
<1>3. n \in Nat \ {0} /\ DOMAIN a = 1 .. n
  BY <1>2
<1> HIDE DEF n
<1>4. Len(a) = n
  BY <1>2, <1>3
<1> QED BY <1>2, <1>3, <1>4

(* Two segments that agree wherever both are are the same.                 *)
LEMMA SegmentsDiffer ==
  ASSUME NEW a \in Segments, NEW b \in Segments,
         \A k \in 1 .. Len(a) : k <= Len(b) => a[k] = b[k]
  PROVE  a = b
<1>1. PICK p \in Seq(Bytes), q \in Seq(Bytes) : a = Segment(p, q)
  BY DEF Segments
<1>2. PICK r \in Seq(Bytes), s \in Seq(Bytes) : b = Segment(r, s)
  BY DEF Segments
<1>3. \A k \in DOMAIN a \cap DOMAIN b : a[k] = b[k]
  <2>1. DOMAIN a = 1 .. Len(a) /\ DOMAIN b = 1 .. Len(b)
    BY SegmentFacts
  <2>2. Len(a) \in Nat /\ Len(b) \in Nat
    BY SegmentFacts
  <2> QED BY <2>1, <2>2
<1>4. p = r /\ q = s
  BY <1>1, <1>2, <1>3, SegmentsAgree
<1> QED BY <1>1, <1>2, <1>4

(* As long as two lists of segments that make the same string last, they   *)
(* are the same.                                                           *)
LEMMA ListsAgree ==
  ASSUME NEW N \in Nat, NEW u \in [1 .. N -> Segments], NEW g, Runs(g, u, N, Byte),
         NEW M \in Nat, NEW v \in [1 .. M -> Segments], NEW h, Runs(h, v, M, Byte),
         g[N] = h[M], N <= M
  PROVE  g[N] = h[N] /\ \A k \in 1 .. N : u[k] = v[k]
<1> DEFINE B == {k \in 1 .. N : g[k] # h[k] \/ u[k] # v[k]}
<1>1. B = {}
  <2> SUFFICES ASSUME B # {}
               PROVE  FALSE
    OBVIOUS
  <2>1. PICK k \in B : k \in Nat /\ \A m \in Nat : m < k => m \notin B
    <3>1. B \subseteq Nat
      OBVIOUS
    <3> HIDE DEF B
    <3> QED BY <3>1, LeastExists
  <2>2. k \in 1 .. N /\ (g[k] # h[k] \/ u[k] # v[k])
    BY <2>1
  <2> DEFINE n == k - 1
  <2>3. n \in Nat /\ n < k /\ n \in 0 .. N /\ n \in 0 .. M /\ k \in 1 .. M /\ k \in 0 .. N /\ k \in 0 .. M
    BY <2>2
  <2>4. g[n] = h[n]
    <3>1. CASE n = 0
      BY <3>1 DEF Runs
    <3>2. CASE n # 0
      <4>1. n \notin B
        <5> HIDE DEF B, n
        <5> QED BY <2>1, <2>3
      <4>2. n \in 1 .. N
        BY <2>3, <3>2
      <4> HIDE DEF n
      <4> QED BY <4>1, <4>2
    <3> QED BY <3>1, <3>2
  <2>5. g[k] = g[n] \o u[k] /\ h[k] = h[n] \o v[k]
    BY <2>2, <2>3 DEF Runs
  <2> DEFINE a == u[k]
             b == v[k]
             w == g[n]
             x == g[N]
  <2>6. a \in Segments /\ b \in Segments
    BY <2>2, <2>3
  <2>7. w \in Seq(Byte) /\ a \in Seq(Byte) /\ b \in Seq(Byte)
    BY <2>3, <2>6, SegmentFacts DEF Runs
  <2>8. /\ Len(w \o a) <= Len(x) /\ \A z \in 1 .. Len(w \o a) : x[z] = (w \o a)[z]
    <3>1. \A z \in 1 .. N : u[z] \in Seq(Byte)
      BY SegmentFacts
    <3>2. u \in [1 .. N -> Seq(Byte)]
      BY <3>1
    <3>0. k \in 0 .. N
      BY <2>3
    <3>3. Begins(g[k], g[N])
      BY <3>0, <3>2, RunsBegin
    <3> QED BY <2>5, <3>3 DEF Begins
  <2>9. /\ Len(w \o b) <= Len(x) /\ \A z \in 1 .. Len(w \o b) : x[z] = (w \o b)[z]
    <3>1. \A z \in 1 .. M : v[z] \in Seq(Byte)
      BY SegmentFacts
    <3>2. v \in [1 .. M -> Seq(Byte)]
      BY <3>1
    <3>0. k \in 0 .. M
      BY <2>3
    <3>3. Begins(h[k], h[M])
      BY <3>0, <3>2, RunsBegin
    <3>4. w \o b = h[k] /\ x = h[M]
      BY <2>4, <2>5
    <3> QED BY <3>3, <3>4 DEF Begins
  <2> HIDE DEF a, b, w, x
  <2>10. /\ Len(w) \in Nat /\ Len(a) \in Nat
         /\ Len(w \o a) = Len(w) + Len(a)
    BY <2>7, Concatenated
  <2>11. \A z \in 1 .. Len(a) : (w \o a)[Len(w) + z] = a[z]
    BY <2>7, Concatenated
  <2>12. Len(b) \in Nat /\ Len(w \o b) = Len(w) + Len(b)
    BY <2>7, Concatenated
  <2>13. \A z \in 1 .. Len(b) : (w \o b)[Len(w) + z] = b[z]
    BY <2>7, Concatenated
  <2>14. \A z \in 1 .. Len(a) : z <= Len(b) => a[z] = b[z]
    <3>1. ASSUME NEW z \in 1 .. Len(a), z <= Len(b)
          PROVE  a[z] = b[z]
      <4> DEFINE y == Len(w) + z
      <4>1. y \in 1 .. Len(w \o a) /\ y \in 1 .. Len(w \o b) /\ z \in 1 .. Len(b)
        BY <2>10, <2>12, <3>1
      <4>2. (w \o a)[y] = a[z] /\ (w \o b)[y] = b[z]
        BY <2>11, <2>13, <4>1
      <4> HIDE DEF y
      <4>3. x[y] = (w \o a)[y] /\ x[y] = (w \o b)[y]
        BY <2>8, <2>9, <4>1
      <4> QED BY <4>2, <4>3
    <3> QED BY <3>1
  <2>15. a = b
    BY <2>6, <2>14, SegmentsDiffer
  <2> QED BY <2>2, <2>4, <2>5, <2>15 DEF a, b
<1>2. CASE N = 0
  BY <1>2 DEF Runs
<1>3. CASE N # 0
  <2>1. \A k \in 1 .. N : g[k] = h[k] /\ u[k] = v[k]
    BY <1>1
  <2> HIDE DEF B
  <2> QED BY <1>3, <2>1
<1> QED BY <1>2, <1>3

(* The segments are known from the string they make.                       *)
LEMMA SegmentsKnown ==
  ASSUME NEW N \in Nat, NEW u \in [1 .. N -> Segments],
         NEW M \in Nat, NEW v \in [1 .. M -> Segments],
         FlattenSeq(u) = FlattenSeq(v), N <= M
  PROVE  N = M /\ u = v
<1>1. u \in [1 .. N -> Seq(Byte)] /\ v \in [1 .. M -> Seq(Byte)]
  <2>1. Segments \subseteq Seq(Byte)
    BY SegmentFacts
  <2> QED BY <2>1
<1>2. PICK g : Runs(g, u, N, Byte) /\ FlattenSeq(u) = g[N]
  BY <1>1, Flattened
<1>3. PICK h : Runs(h, v, M, Byte) /\ FlattenSeq(v) = h[M]
  BY <1>1, Flattened
<1>4. g[N] = h[M]
  BY <1>2, <1>3
<1>5. g[N] = h[N] /\ \A k \in 1 .. N : u[k] = v[k]
  BY <1>2, <1>3, <1>4, ListsAgree
<1>6. ~(N < M)
  <2> SUFFICES ASSUME N < M
               PROVE  FALSE
    OBVIOUS
  <2> DEFINE n == N + 1
             a == h[N]
             b == v[n]
  <2>1. n \in 1 .. M /\ n \in 0 .. M /\ N \in 0 .. M /\ n - 1 = N
    OBVIOUS
  <2> HIDE DEF n
  <2>2. h[n] = a \o b /\ a \in Seq(Byte) /\ b \in Segments
    BY <1>3, <2>1 DEF Runs
  <2>3. b \in Seq(Byte) /\ Len(b) \in Nat \ {0}
    BY <2>2, SegmentFacts
  <2> HIDE DEF a, b
  <2>4. Len(a) \in Nat /\ Len(a \o b) = Len(a) + Len(b)
    BY <2>2, <2>3, Concatenated
  <2>5. Len(h[n]) <= Len(h[M])
    BY <1>1, <1>3, <2>1, RunsBegin DEF Begins
  <2>6. h[M] = a
    BY <1>4, <1>5 DEF a
  <2> QED BY <2>2, <2>3, <2>4, <2>5, <2>6
<1>7. N = M
  BY <1>6
<1> QED BY <1>5, <1>7

(* The ranks of the strings whose bytes Text has.                          *)
Ranks == {r \in Nat : r + 1 \in DOMAIN Text}

(* Strings of different rank have different bytes, for the order of ranks  *)
(* is the order of the strings.                                            *)
LEMMA TextFacts ==
  /\ \A r \in Ranks : r \in Nat /\ Text[r + 1] \in Seq(Bytes)
  /\ \A r, q \in Ranks : Text[r + 1] = Text[q + 1] => r = q
  /\ Ranks # {} => 0 \in Ranks
<1>1. Text \in Seq(Seq(Bytes))
  BY TextAssumption DEF Bytes
<1>2. \A k \in DOMAIN Text : Text[k] \in Seq(Bytes)
  BY <1>1
<1>3. \A k, n \in DOMAIN Text : k < n => Text[k] # Text[n]
  <2> SUFFICES ASSUME NEW k \in DOMAIN Text, NEW n \in DOMAIN Text, k < n, Text[k] = Text[n]
               PROVE  FALSE
    OBVIOUS
  <2> DEFINE s == Text[k]
  <2>1. ByteBefore(s, s)
    BY TextAssumption
  <2>2. s \in Seq(Bytes)
    BY <1>2
  <2> HIDE DEF s
  <2>3. \A z \in DOMAIN s : ~(s[z] < s[z])
    <3>1. Bytes \subseteq Nat
      BY DEF Bytes, SeparatorByte
    <3>2. \A z \in DOMAIN s : s[z] \in Bytes
      BY <2>2
    <3>3. \A z \in DOMAIN s : s[z] \in Nat
      BY <3>1, <3>2
    <3> QED BY <3>3
  <2>4. ~IsStrictPrefix(s, s)
    BY DEF IsStrictPrefix
  <2> QED BY <2>1, <2>3, <2>4 DEF ByteBefore
<1>4. \A k \in DOMAIN Text : k \in Nat /\ 1 \in DOMAIN Text
  BY <1>1
<1>5. ASSUME NEW r \in Ranks, NEW q \in Ranks, Text[r + 1] = Text[q + 1]
      PROVE  r = q
  <2>1. r \in Nat /\ q \in Nat /\ r + 1 \in DOMAIN Text /\ q + 1 \in DOMAIN Text
    BY DEF Ranks
  <2>2. ~(r + 1 < q + 1) /\ ~(q + 1 < r + 1)
    BY <1>3, <1>5, <2>1
  <2> QED BY <2>1, <2>2
<1>6. Ranks # {} => 0 \in Ranks
  BY <1>4 DEF Ranks
<1> QED BY <1>2, <1>5, <1>6 DEF Ranks

(* The bytes of the names of a list, and of their values, are known.       *)
Spelled(m, names) ==
  \A k \in DOMAIN names : names[k] \in Ranks /\ Value(m, names[k]) \in Ranks

(* The same names, in the same order, have the same values in m and o.     *)
Alike(m, s, o, t) ==
  \A k \in DOMAIN s : s[k] = t[k] /\ Value(m, s[k]) = Value(o, t[k])

(* What signature.go hashes is a list of segments.                         *)
LEMMA StreamSegments ==
  ASSUME NEW m, NEW N \in Nat, NEW s \in [1 .. N -> Nat], Spelled(m, s)
  PROVE  \E u \in [1 .. N -> Segments] :
           /\ Stream(m, s) = FlattenSeq(u)
           /\ \A k \in 1 .. N : u[k] = Segment(Text[s[k] + 1], Text[Value(m, s[k]) + 1])
<1> DEFINE u == [k \in 1 .. N |-> Segment(Text[s[k] + 1], Text[Value(m, s[k]) + 1])]
<1>1. ASSUME NEW k \in 1 .. N
      PROVE  Segment(Text[s[k] + 1], Text[Value(m, s[k]) + 1]) \in Segments
  <2>1. Text[s[k] + 1] \in Seq(Bytes) /\ Text[Value(m, s[k]) + 1] \in Seq(Bytes)
    BY TextFacts DEF Spelled
  <2> QED BY <2>1 DEF Segments
<1>2. u \in [1 .. N -> Segments]
  BY <1>1
<1>3. Stream(m, s) = FlattenSeq(u)
  BY DEF Stream, Segment
<1> HIDE DEF u
<1>4. \A k \in 1 .. N : u[k] = Segment(Text[s[k] + 1], Text[Value(m, s[k]) + 1])
  BY DEF u
<1> QED BY <1>2, <1>3, <1>4

(* The names and their values are known from the bytes that are hashed.    *)
LEMMA StreamKnown ==
  ASSUME NEW m, NEW N \in Nat, NEW s \in [1 .. N -> Nat], Spelled(m, s),
         NEW o, NEW M \in Nat, NEW t \in [1 .. M -> Nat], Spelled(o, t),
         Stream(m, s) = Stream(o, t)
  PROVE  N = M /\ Alike(m, s, o, t)
<1>1. PICK u \in [1 .. N -> Segments] :
        /\ Stream(m, s) = FlattenSeq(u)
        /\ \A k \in 1 .. N : u[k] = Segment(Text[s[k] + 1], Text[Value(m, s[k]) + 1])
  BY StreamSegments
<1>2. PICK v \in [1 .. M -> Segments] :
        /\ Stream(o, t) = FlattenSeq(v)
        /\ \A k \in 1 .. M : v[k] = Segment(Text[t[k] + 1], Text[Value(o, t[k]) + 1])
  BY StreamSegments
<1>3. FlattenSeq(u) = FlattenSeq(v)
  BY <1>1, <1>2
<1>4. N = M /\ u = v
  <2>1. CASE N <= M
    BY <1>3, <2>1, SegmentsKnown
  <2>2. CASE M <= N
    BY <1>3, <2>2, SegmentsKnown
  <2> QED BY <2>1, <2>2
<1>5. ASSUME NEW k \in 1 .. N
      PROVE  s[k] = t[k] /\ Value(m, s[k]) = Value(o, t[k])
  <2> DEFINE p == Text[s[k] + 1]
             q == Text[Value(m, s[k]) + 1]
             r == Text[t[k] + 1]
             z == Text[Value(o, t[k]) + 1]
  <2>0. k \in 1 .. M
    BY <1>4
  <2>1. /\ s[k] \in Ranks /\ Value(m, s[k]) \in Ranks
        /\ t[k] \in Ranks /\ Value(o, t[k]) \in Ranks
    BY <2>0 DEF Spelled
  <2>2. p \in Seq(Bytes) /\ q \in Seq(Bytes) /\ r \in Seq(Bytes) /\ z \in Seq(Bytes)
    BY <2>1, TextFacts
  <2>3. Segment(p, q) = Segment(r, z)
    <3>1. u[k] = Segment(p, q) /\ v[k] = Segment(r, z) /\ u[k] = v[k]
      BY <1>1, <1>2, <1>4, <2>0
    <3> QED BY <3>1
  <2> HIDE DEF p, q, r, z
  <2>4. p = r /\ q = z
    BY <2>2, <2>3, SegmentsAgree
  <2> QED BY <2>1, <2>4, TextFacts DEF p, q, r, z
<1> QED BY <1>4, <1>5 DEF Alike

(* What is known of a decoded series.                                      *)
LEMMA SeriesFacts ==
  ASSUME QueryTypeOK, NEW m \in Series
  PROVE  /\ IsLabelSet(m) /\ IsFiniteSet(DOMAIN m) /\ DOMAIN m \subseteq Nat
         /\ DOMAIN m \subseteq Ranks
         /\ \A ln \in Ranks : Value(m, ln) \in Ranks
<1>1. PICK k \in DOMAIN result : m = result[k].metric
  BY DEF Series
<1>2. result[k] \in Decoded
  <2> HIDE DEF Decoded
  <2> QED BY DEF QueryTypeOK
<1>3. IsLabelSet(m)
  BY <1>1, <1>2, DecodedFacts
<1>4. \A ln \in DOMAIN m : {ln + 1, m[ln] + 1} \subseteq DOMAIN Text
  BY <1>1, <1>2, TextCovers
<1>5. \A ln \in DOMAIN m : ln \in Nat /\ m[ln] \in Nat
  BY <1>3 DEF IsLabelSet
<1>6. \A ln \in DOMAIN m : ln \in Ranks /\ m[ln] \in Ranks
  BY <1>4, <1>5 DEF Ranks
<1>7. \A ln \in Ranks : Value(m, ln) \in Ranks
  BY <1>6, TextFacts DEF Value
<1> QED BY <1>3, <1>6, <1>7 DEF IsLabelSet

(* The bytes hashed for some labels tell their values.                     *)
LEMMA Distinguishes ==
  ASSUME QueryTypeOK, NEW m \in Series, NEW o \in Series,
         NEW L, IsFiniteSet(L), L \subseteq Ranks, NEW K, IsFiniteSet(K), K \subseteq Ranks,
         Stream(m, Sorted(SetToSeq(L))) = Stream(o, Sorted(SetToSeq(K)))
  PROVE  L = K /\ \A ln \in L : Value(m, ln) = Value(o, ln)
<1> DEFINE s == Sorted(SetToSeq(L))
           t == Sorted(SetToSeq(K))
<1>1. L \subseteq Nat /\ K \subseteq Nat
  BY DEF Ranks
<1>2. /\ SetToSeq(L) \in SetToSeqs(L) /\ Cardinality(L) \in Nat
      /\ SetToSeq(K) \in SetToSeqs(K) /\ Cardinality(K) \in Nat
  BY ListsOfSet
<1>3. /\ s \in [1 .. Cardinality(L) -> Nat]
      /\ {s[k] : k \in 1 .. Cardinality(L)} = L
  BY <1>1, <1>2, SortedNames
<1>4. /\ t \in [1 .. Cardinality(K) -> Nat]
      /\ {t[k] : k \in 1 .. Cardinality(K)} = K
  BY <1>1, <1>2, SortedNames
<1>5. Stream(m, s) = Stream(o, t)
  OBVIOUS
<1> HIDE DEF s, t
<1>6. Spelled(m, s)
  BY <1>3, SeriesFacts DEF Spelled
<1>7. Spelled(o, t)
  BY <1>4, SeriesFacts DEF Spelled
<1>8. /\ Cardinality(L) = Cardinality(K)
      /\ \A k \in 1 .. Cardinality(L) : s[k] = t[k] /\ Value(m, s[k]) = Value(o, t[k])
  <2> DEFINE N == Cardinality(L)
             M == Cardinality(K)
  <2>1. N \in Nat /\ M \in Nat /\ s \in [1 .. N -> Nat] /\ t \in [1 .. M -> Nat]
    BY <1>2, <1>3, <1>4
  <2> HIDE DEF N, M
  <2>2. N = M /\ Alike(m, s, o, t)
    BY <1>5, <1>6, <1>7, <2>1, StreamKnown
  <2> QED BY <2>1, <2>2 DEF N, M, Alike
<1>9. L = K
  BY <1>3, <1>4, <1>8
<1>10. ASSUME NEW ln \in L
       PROVE  Value(m, ln) = Value(o, ln)
  <2>1. PICK k \in 1 .. Cardinality(L) : ln = s[k]
    BY <1>3
  <2> QED BY <1>8, <2>1
<1> QED BY <1>9, <1>10

(* In every decoded result, what is hashed of a series tells it from all   *)
(* others.                                                                 *)
LEMMA TypedSeparated == QueryTypeOK => Separated
<1> SUFFICES ASSUME QueryTypeOK, NEW m \in Series, NEW o \in Series
             PROVE  /\ Stream(m, LabelsOf(m)) = Stream(o, LabelsOf(o)) => Equal(m, o)
                    /\ \A L \in SUBSET (DOMAIN m \cup DOMAIN o) :
                         LET names == Sorted(SetToSeq(L))
                         IN Stream(m, names) = Stream(o, names) =>
                              \A ln \in L : Value(m, ln) = Value(o, ln)
  BY DEF Separated
<1>1. /\ IsFiniteSet(DOMAIN m) /\ DOMAIN m \subseteq Ranks
      /\ IsFiniteSet(DOMAIN o) /\ DOMAIN o \subseteq Ranks
  BY SeriesFacts
<1>2. ASSUME Stream(m, LabelsOf(m)) = Stream(o, LabelsOf(o))
      PROVE  Equal(m, o)
  <2>1. DOMAIN m = DOMAIN o /\ \A ln \in DOMAIN m : Value(m, ln) = Value(o, ln)
    BY <1>1, <1>2, Distinguishes DEF LabelsOf
  <2> QED BY <2>1 DEF Equal, Value
<1>3. ASSUME NEW L \in SUBSET (DOMAIN m \cup DOMAIN o),
             Stream(m, Sorted(SetToSeq(L))) = Stream(o, Sorted(SetToSeq(L)))
      PROVE  \A ln \in L : Value(m, ln) = Value(o, ln)
  <2>1. IsFiniteSet(DOMAIN m \cup DOMAIN o)
    BY <1>1, FS_Union
  <2>2. IsFiniteSet(L) /\ L \subseteq Ranks
    BY <1>1, <2>1, FS_Subset
  <2> QED BY <1>3, <2>2, Distinguishes
<1> QED BY <1>2, <1>3

(* In every decoded result, the signatures agree.                          *)
LEMMA TypedAgree == QueryTypeOK => SignaturesAgree
<1> SUFFICES ASSUME QueryTypeOK, NEW m \in Series, NEW L \in SUBSET DOMAIN m,
                    NEW labels \in SetToSeqs(L)
             PROVE  /\ SignatureForLabels(m, labels) = SignatureWithoutLabels(m, LabelNames \ L)
                    /\ SignatureForLabels(m, labels)
                         = labelSetToFingerprint([ln \in L |-> m[ln]])
  BY DEF SignaturesAgree
<1>1. IsLabelSet(m)
  BY SeriesFacts
<1>2. DOMAIN m \subseteq LabelNames
  BY DEF LabelNames
<1> QED BY <1>1, <1>2, Agreement

-----------------------------------------------------------------------------
(* The parts share no state: side by side each does what it does alone, so *)
(* what holds of one of them holds of all together.                        *)
THEOREM SideBySide == Spec => QuerySpec /\ AlertsSpec /\ DurSpec
<1>1. Init => QueryInit /\ AlertsInit /\ DurInit
  BY DEF Init
<1>2. [Next]_vars => /\ [QueryNext]_queryVars
                     /\ [AlertsNext]_alertVars
                     /\ [DurNext]_durVars
  BY DEF Next, vars
<1> QED BY <1>1, <1>2, PTL DEF Spec, QuerySpec, AlertsSpec, DurSpec

(* Results, alerts and durations keep their types: in no step does i or j  *)
(* leave the list being sorted (model/value.go 407, alert.go 104-118), is  *)
(* an invalid alert in a list, or a Duration outside an int64.             *)
THEOREM PrometheusTypes == Spec => []TypeOK
<1>1. QuerySpec => []QueryTypeOK
  <2>1. QueryInv => QueryTypeOK
    BY DEF QueryInv
  <2> QED BY <2>1, QueryInitInv, QueryNextInv, PTL DEF QuerySpec
<1>2. AlertsSpec => []AlertsTypeOK
  <2>1. AlertsInv => AlertsTypeOK
    BY AlertFacts DEF AlertsInv, Alerted, AlertsTypeOK
  <2> QED BY <2>1, AlertsStart, AlertsStep, PTL DEF AlertsSpec
<1>3. DurSpec => []DurTypeOK
  <2>1. Written => DurTypeOK
    BY DEF Written
  <2>2. Written /\ [DurNext]_durVars => Written'
    BY DurStep
  <2> QED BY <2>1, <2>2, DurStart, PTL DEF DurSpec
<1>4. QueryTypeOK /\ AlertsTypeOK /\ DurTypeOK => TypeOK
  BY DEF TypeOK
<1> QED BY <1>1, <1>2, <1>3, <1>4, SideBySide, PTL

(* Of two decoded series with the same bytes hashed for a fingerprint, or  *)
(* for the signature of some labels, the labels are the same: where names  *)
(* and values end is part of what is hashed (model/signature.go 32-144).   *)
THEOREM FingerprintsSeparate == Spec => []Separated
<1>1. TypeOK => QueryTypeOK
  BY DEF TypeOK
<1> QED BY <1>1, TypedSeparated, PrometheusTypes, PTL

(* The signature for some labels of a decoded series is the one without    *)
(* all others and the fingerprint of those labels alone, in whatever order *)
(* a caller or a map gives them (model/signature.go 53-144).               *)
THEOREM SignaturesMatch == Spec => []SignaturesAgree
<1>1. TypeOK => QueryTypeOK
  BY DEF TypeOK
<1> QED BY <1>1, TypedAgree, PrometheusTypes, PTL
=============================================================================
