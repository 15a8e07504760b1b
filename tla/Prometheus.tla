----------------------------- MODULE Prometheus -----------------------------
(***************************************************************************)
(* The parts of the Prometheus data model side by side: query results with *)
(* the signatures of their series, lists of alerts, and durations in a     *)
(* configuration.                                                          *)
(***************************************************************************)
EXTENDS QueryResult, Signature, Alerts, Durations

(* Text has every name and value of the documents.                         *)
ASSUME TextCovers ==
  \A s \in Decoded : \A ln \in DOMAIN s.metric :
     {ln + 1, s.metric[ln] + 1} \subseteq DOMAIN Text

vars == <<queryVars, alertVars, durVars>>

Init == QueryInit /\ AlertsInit /\ DurInit

Next ==
  \/ QueryNext /\ UNCHANGED <<alertVars, durVars>>
  \/ AlertsNext /\ UNCHANGED <<queryVars, durVars>>
  \/ DurNext /\ UNCHANGED <<queryVars, alertVars>>

Spec == Init /\ [][Next]_vars

-----------------------------------------------------------------------------
TypeOK == QueryTypeOK /\ AlertsTypeOK /\ DurTypeOK

Series      == {result[k].metric : k \in DOMAIN result}
LabelNames  == UNION {DOMAIN m : m \in Series}
LabelsOf(m) == Sorted(SetToSeq(DOMAIN m))

(* Two series have the same fingerprint because of what is hashed only if  *)
(* they are equal, and the same signature for some labels only if those    *)
(* have the same values, absent ones being "": where names and values end  *)
(* is part of what signature.go hashes.                                    *)
Separated ==
  phase = "decoded" =>
    \A m, o \in Series :
      /\ Stream(m, LabelsOf(m)) = Stream(o, LabelsOf(o)) => Equal(m, o)
      /\ \A L \in SUBSET (DOMAIN m \cup DOMAIN o) :
           LET names == Sorted(SetToSeq(L))
           IN Stream(m, names) = Stream(o, names) =>
                \A ln \in L : Value(m, ln) = Value(o, ln)

(* The copies of the loop agree: the signature for some labels, given in   *)
(* any order, is the one without all others, and the fingerprint of those. *)
SignaturesAgree ==
  phase = "decoded" =>
    \A m \in Series : \A L \in SUBSET DOMAIN m : \A labels \in SetToSeqs(L) :
      /\ SignatureForLabels(m, labels) = SignatureWithoutLabels(m, LabelNames \ L)
      /\ SignatureForLabels(m, labels) = labelSetToFingerprint([ln \in L |-> m[ln]])
=============================================================================
