----------------------------- MODULE ServiceMap -----------------------------
(***************************************************************************)
(* The service map: servicemap_generator of kubernetes-client/scheduler.go *)
(* turns Istio's byte counters into the matrix of bandwidths the clustering*)
(* script reads.  A counter names two applications; a pod belongs to the   *)
(* application before the first "-" of its name.  A row of the matrix is   *)
(* meant for an athena pod but is chosen by Id, the position of the pod    *)
(* among the pods of all namespaces.                                       *)
(***************************************************************************)
EXTENDS Integers, Sequences, FiniteSetsExt

CONSTANTS App,    \* application names
          Bytes   \* values of a counter

ASSUME BytesAssumption == Bytes \subseteq Nat

VARIABLES pods,     \* namespaceMap["athena"]: the pods' [Id, app], as listed
          received, \* the samples of istio_tcp_received_bytes_total
          sent,     \* the samples of istio_tcp_sent_bytes_total
          read,     \* how many samples are read, of both lists one after the other
          temp,     \* serviceMap_temp: bytes from row to column
          weight,   \* serviceMap_temp2, the result
          phase     \* "read", "done", or "panic"

vars == <<pods, received, sent, read, temp, weight, phase>>

Sample == [to : App, from : App, n : Bytes]

l    == Len(pods)
Rows == 0 .. (l - 1)

Init ==
  /\ pods \in Seq([Id : Nat, app : App])
  /\ \A j, k \in 1 .. l : j < k => pods[j].Id < pods[k].Id
  /\ received \in Seq(Sample)
  /\ sent \in Seq(Sample)
  /\ read = 0
  /\ temp = [i \in Rows |-> [j \in Rows |-> 0]]
  /\ weight = temp
  /\ phase = "read"

-----------------------------------------------------------------------------
(* podMap: the pods of an application share a key, and the last one stays. *)
Known(app) == \E j \in 1 .. l : pods[j].app = app

podMap(app) ==
  pods[CHOOSE j \in 1 .. l : /\ pods[j].app = app
                             /\ \A k \in (j + 1) .. l : pods[k].app # app].Id

Samples == received \o sent
Current == Samples[read + 1]

(* `exist1' and `exist2': both ends of the sample are athena pods.         *)
Counts(s) == Known(s.to) /\ Known(s.from)

InRange(s) == podMap(s.to) \in Rows /\ podMap(s.from) \in Rows

(* Mutant: the last sample read for a pair replaces the ones before.       *)
Added_Overwrite(s) == [temp EXCEPT ![podMap(s.to)][podMap(s.from)] = s.n]

Added(s) == [temp EXCEPT ![podMap(s.to)][podMap(s.from)] = @ + s.n]

Read ==
  /\ phase = "read" /\ read < Len(Samples)
  /\ Counts(Current) => InRange(Current)
  /\ temp' = IF Counts(Current) THEN Added(Current) ELSE temp
  /\ read' = read + 1
  /\ UNCHANGED <<pods, received, sent, weight, phase>>

(* Mutant: a bound is tested before the matrix is indexed, with the wrong  *)
(* comparison.                                                             *)
Panic_OffByOne ==
  /\ phase = "read" /\ read < Len(Samples)
  /\ Counts(Current) /\ (podMap(Current.to) >= l - 1 \/ podMap(Current.from) >= l - 1)
  /\ phase' = "panic"
  /\ UNCHANGED <<pods, received, sent, read, temp, weight>>

(* serviceMap_temp is indexed out of range.                                *)
Panic ==
  /\ phase = "read" /\ read < Len(Samples)
  /\ Counts(Current) /\ ~InRange(Current)
  /\ phase' = "panic"
  /\ UNCHANGED <<pods, received, sent, read, temp, weight>>

(* Mutant: pairs without traffic keep their 0.                             *)
Bandwidth_Zero(i, j) == temp[i][j] + temp[j][i]

(* Both directions together, and 1 for pairs without traffic.              *)
Bandwidth(i, j) == IF temp[i][j] + temp[j][i] = 0 THEN 1 ELSE temp[i][j] + temp[j][i]

Transform ==
  /\ phase = "read" /\ read = Len(Samples)
  /\ weight' = [i \in Rows |-> [j \in Rows |-> Bandwidth(i, j)]]
  /\ phase' = "done"
  /\ UNCHANGED <<pods, received, sent, read, temp>>

Next == Read \/ Panic \/ Transform

Spec == Init /\ [][Next]_vars

-----------------------------------------------------------------------------
(* The type invariant.                                                     *)
TypeOK ==
  /\ pods \in Seq([Id : Nat, app : App])
  /\ received \in Seq(Sample) /\ sent \in Seq(Sample)
  /\ read \in 0 .. Len(Samples)
  /\ temp \in [Rows -> [Rows -> Nat]]
  /\ weight \in [Rows -> [Rows -> Nat]]
  /\ phase \in {"read", "done", "panic"}

(* What high.py relies on (module Linkage, Init): the matrix is symmetric, *)
(* and no entry is 0, for high.py 28 divides by it.                        *)
Divisible ==
  phase = "done" =>
    \A i, j \in Rows : weight[i][j] = weight[j][i] /\ weight[i][j] \in Nat \ {0}

(* The bytes of the first k samples between two rows, one way or the       *)
(* other: rows stand for the athena pods the map knows.                    *)
Between(s, i, j) == Counts(s) /\ {podMap(s.to), podMap(s.from)} = {i, j}

Traffic(i, j, k) ==
  SumFunctionOnSet([m \in 1 .. Len(Samples) |-> Samples[m].n],
                   {m \in 1 .. k : Between(Samples[m], i, j)})

Total(i, j) == Traffic(i, j, Len(Samples))

(* No traffic is lost or counted for the wrong pair: the weight of two     *)
(* pods is the bytes of all samples between their applications, received   *)
(* and sent, in whatever order and direction they were reported.           *)
TrafficCounted ==
  phase = "done" =>
    \A i, j \in Rows : i # j =>
       weight[i][j] = IF Total(i, j) = 0 THEN 1 ELSE Total(i, j)

(* When the athena pods are the first in the listing, Id and row agree:    *)
(* every row stands for one pod, and the matrix is never indexed out of    *)
(* range (scheduler.go 456 against 472).                                   *)
Aligned == \A j \in 1 .. l : pods[j].Id = j - 1

NoPanic == Aligned => phase # "panic"
=============================================================================
