---------------------------- MODULE QueryResult -----------------------------
(***************************************************************************)
(* The answer to a query: value.go of prometheus_json_parser (and of model,*)
(* which it was copied from) decodes the samples of the JSON document that *)
(* Prometheus sends and prints them, a Vector in the order of the document *)
(* and a Matrix sorted.                                                    *)
(*                                                                         *)
(* A stream of a matrix is taken with one pair of time and value.  A float *)
(* is NaN or a small number.  The value of a pair in the document may be   *)
(* missing or be no string, which a server never sends.                    *)
(***************************************************************************)
EXTENDS Labels, PromTime, Sequences, Functions

CONSTANTS Float,     \* values: [nan : BOOLEAN, n : Nat]
          Documents  \* JSON documents: [type, samples]

ASSUME FloatAssumption ==
  Float \subseteq [nan : BOOLEAN, n : Nat] /\ [nan |-> FALSE, n |-> 0] \in Float

VARIABLES doc,     \* the document
          result,  \* the Vector or Matrix decoded from it
          sorted,  \* the copy Matrix.String sorts, or a Vector its caller sorts
          i, j,    \* where sort.Sort is in it
          phase    \* "received", "decoded", "sorting", "sorted", "printed", "failed"

queryVars == <<doc, result, sorted, i, j, phase>>

QueryInit ==
  /\ doc \in Documents
  /\ result = <<>> /\ sorted = <<>>
  /\ i = 1 /\ j = 1
  /\ phase = "received"

-----------------------------------------------------------------------------
ValueEqual(v, o) ==
  \/ ~v.nan /\ ~o.nan /\ v.n = o.n
  \/ v.nan /\ o.nan

SampleEqual(s, o) ==
  /\ Equal(s.metric, o.metric)
  /\ s.time = o.time
  /\ ValueEqual(s.value, o.value)

VectorEqual(vec, o) ==
  /\ Len(vec) = Len(o)
  /\ \A k \in DOMAIN vec : SampleEqual(vec[k], o[k])

(* Metric declares no UnmarshalJSON and has not the one of LabelSet: any   *)
(* names are taken.  A pair that is short leaves the value 0.              *)
Quoted(s) == "value" \notin DOMAIN s \/ s.value.quoted

UnmarshalSample(s) ==
  [metric |-> s.metric,
   time   |-> UnmarshalTime(s.time),
   value  |-> IF "value" \in DOMAIN s THEN s.value.float
              ELSE [nan |-> FALSE, n |-> 0]]

MarshalSample(s) ==
  [metric |-> s.metric,
   time   |-> TimeString(s.time),
   value  |-> [quoted |-> TRUE, float |-> s.value]]

(* The samples of the documents, and what they decode to.                  *)
Sent    == UNION {{d.samples[k] : k \in DOMAIN d.samples} : d \in Documents}
Decoded == {UnmarshalSample(s) : s \in Sent}

IsSample(s) == IsLabelSet(s.metric) /\ s.time \in Int /\ s.value \in Float

IsInstant(t) ==
  /\ t \in [neg : BOOLEAN, whole : Nat, frac : Nat, digits : Nat]
  /\ t.frac < Ten[t.digits]

ASSUME DocumentsAssumption ==
  /\ \A d \in Documents : d.type \in {"vector", "matrix"} /\ d.samples \in Seq(Sent)
  /\ \A s \in Decoded : IsSample(s)
  /\ \A s \in Sent : IsInstant(s.time)

(* One value that is not a quoted string fails the whole document.         *)
Decode ==
  /\ phase = "received"
  /\ IF \A k \in DOMAIN doc.samples : Quoted(doc.samples[k])
     THEN /\ result' = [k \in DOMAIN doc.samples |-> UnmarshalSample(doc.samples[k])]
          /\ phase' = "decoded"
     ELSE phase' = "failed" /\ UNCHANGED result
  /\ UNCHANGED <<doc, sorted, i, j>>

-----------------------------------------------------------------------------
(* Less of a Matrix, and of a Vector.                                      *)
MatrixLess(s, o) == Before(s.metric, o.metric)

VectorLess(s, o) ==
  \/ Before(s.metric, o.metric)
  \/ ~Before(o.metric, s.metric) /\ s.time < o.time

Less(s, o) == IF doc.type = "matrix" THEN MatrixLess(s, o) ELSE VectorLess(s, o)

(* The String of a Matrix sorts a copy and prints it.                      *)
MatrixString ==
  /\ phase = "decoded" /\ doc.type = "matrix"
  /\ sorted' = result
  /\ phase' = "sorting"
  /\ UNCHANGED <<doc, result, i, j>>

(* The String of a Vector prints it as it is.  Who wants it sorted calls   *)
(* sort.Sort on it before, which only the tests do.                        *)
VectorString ==
  /\ phase \in {"decoded", "sorted"} /\ doc.type = "vector"
  /\ phase' = "printed"
  /\ UNCHANGED <<doc, result, sorted, i, j>>

SortVector ==
  /\ phase = "decoded" /\ doc.type = "vector"
  /\ sorted' = result
  /\ phase' = "sorting"
  /\ UNCHANGED <<doc, result, i, j>>

(* sort.Sort is an insertion sort for up to 6 elements, 12 since Go 1.19:  *)
(* sorted[j], which was the i-th, goes down as long as it is less than the *)
(* one before.                                                             *)
Sinks == j > 1 /\ Less(sorted[j], sorted[j - 1])

Swap ==
  /\ phase = "sorting" /\ i <= Len(sorted)
  /\ Sinks
  /\ sorted' = [sorted EXCEPT ![j] = sorted[j - 1], ![j - 1] = sorted[j]]
  /\ j' = j - 1
  /\ UNCHANGED <<doc, result, i, phase>>

(* Mutant: the sort starts one element further up.                         *)
NextElement_Ahead ==
  /\ phase = "sorting" /\ i <= Len(sorted)
  /\ ~Sinks
  /\ i' = i + 1 /\ j' = i + 2
  /\ UNCHANGED <<doc, result, sorted, phase>>

NextElement ==
  /\ phase = "sorting" /\ i <= Len(sorted)
  /\ ~Sinks
  /\ i' = i + 1 /\ j' = i + 1
  /\ UNCHANGED <<doc, result, sorted, phase>>

(* The sort of a caller returns, or that of String, which prints the copy. *)
VectorSorted ==
  /\ phase = "sorting" /\ i > Len(sorted) /\ doc.type = "vector"
  /\ phase' = "sorted"
  /\ UNCHANGED <<doc, result, sorted, i, j>>

PrintMatrix ==
  /\ phase = "sorting" /\ i > Len(sorted) /\ doc.type = "matrix"
  /\ phase' = "printed"
  /\ UNCHANGED <<doc, result, sorted, i, j>>

QueryNext ==
  \/ Decode
  \/ MatrixString \/ VectorString \/ SortVector
  \/ Swap \/ NextElement
  \/ VectorSorted \/ PrintMatrix

QuerySpec == QueryInit /\ [][QueryNext]_queryVars

-----------------------------------------------------------------------------
QueryTypeOK ==
  /\ doc \in Documents
  /\ result \in Seq(Decoded) /\ sorted \in Seq(Decoded)
  /\ i \in 1 .. (Len(sorted) + 1) /\ j \in 1 .. i
  /\ phase \in {"received", "decoded", "sorting", "sorted", "printed", "failed"}

(* The order the comment of Before and the one of Less describe: fewer     *)
(* labels first; else, up to some name the sets agree, and that name       *)
(* decides, absent before present; else the earlier sample.                *)
AgreeBelow(ln, m, o) ==
  /\ \A x \in DOMAIN m : x < ln => x \in DOMAIN o /\ m[x] = o[x]
  /\ \A x \in DOMAIN o : x < ln => x \in DOMAIN m

SeriesFirst(m, o) ==
  \/ Cardinality(DOMAIN m) < Cardinality(DOMAIN o)
  \/ /\ Cardinality(DOMAIN m) = Cardinality(DOMAIN o)
     /\ \E ln \in DOMAIN o :
          AgreeBelow(ln, m, o) /\ (ln \in DOMAIN m => m[ln] < o[ln])

(* What sort.Sort is to leave: the samples decoded, each as often as it    *)
(* was there, in the order described.                                      *)
InDocumentedOrder ==
  /\ Len(sorted) = Len(result)
  /\ \E p \in Injection(DOMAIN sorted, DOMAIN result) :
       \A k \in DOMAIN sorted : sorted[k] = result[p[k]]
  /\ \A n, k \in DOMAIN sorted : n < k =>
       \/ SeriesFirst(sorted[n].metric, sorted[k].metric)
       \/ /\ sorted[n].metric = sorted[k].metric
          /\ doc.type = "vector" => sorted[n].time <= sorted[k].time

(* Whatever order the server sends its series in, a Matrix is printed in   *)
(* the documented order, and a caller that sorts a Vector has it in that   *)
(* order, then by time: Before and the two Less are orders sort.Sort can   *)
(* work with.  Of a Vector that nobody sorts nothing is said.              *)
SortedInOrder ==
  (phase = "printed" /\ doc.type = "matrix") \/ phase = "sorted" => InDocumentedOrder

(* The milliseconds of an instant written in seconds, the rest cut off.    *)
Denotes(instant, t) ==
  LET parts == Ten[instant.digits]
      size  == instant.whole * parts + instant.frac
  IN t = (IF instant.neg THEN -1 ELSE 1) * ((size * second) \div parts)

(* A sample has the instant the server sent, and a result that is written  *)
(* as JSON and read again is an equal result, NaN included.  Times before  *)
(* 1970 that are no whole second are the exception: UnmarshalJSON adds     *)
(* their fraction.                                                         *)
SurvivesJSON ==
  (\A k \in DOMAIN result : ~doc.samples[k].time.neg \/ doc.samples[k].time.frac = 0) =>
    /\ \A k \in DOMAIN result : Denotes(doc.samples[k].time, result[k].time)
    /\ VectorEqual([k \in DOMAIN result |->
                      UnmarshalSample(MarshalSample(result[k]))], result)
=============================================================================
