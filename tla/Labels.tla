------------------------------- MODULE Labels -------------------------------
(***************************************************************************)
(* Label sets and metrics of the Prometheus data model (model/labelset.go, *)
(* labels.go, metric.go, and their copies in prometheus_json_parser): the  *)
(* order results are sorted by, and equality.                              *)
(*                                                                         *)
(* A string is a natural number, its rank in Go's order of strings; 0 is   *)
(* "".  A label set is a function from the names it has to their values.   *)
(***************************************************************************)
EXTENDS Lowest, FiniteSets

IsLabelSet(ls) ==
  /\ DOMAIN ls \subseteq Nat /\ IsFiniteSet(DOMAIN ls)
  /\ ls \in [DOMAIN ls -> Nat]

Equal(ls, o) ==
  /\ Cardinality(DOMAIN ls) = Cardinality(DOMAIN o)
  /\ \A ln \in DOMAIN ls : ln \in DOMAIN o /\ o[ln] = ls[ln]

(* The names at which the loop of Before comes to a decision.              *)
Differ(ls, o) ==
  {ln \in DOMAIN ls \cup DOMAIN o :
     \/ ln \notin DOMAIN ls \/ ln \notin DOMAIN o
     \/ ls[ln] # o[ln]}

(* Mutant: at a name that only one set has, that set comes first.          *)
Before_PresentFirst(ls, o) ==
  LET first == Lowest(Differ(ls, o))
  IN \/ Cardinality(DOMAIN ls) < Cardinality(DOMAIN o)
     \/ /\ Cardinality(DOMAIN ls) = Cardinality(DOMAIN o)
        /\ Differ(ls, o) # {}
        /\ \/ first \in DOMAIN ls \ DOMAIN o
           \/ first \in DOMAIN ls \cap DOMAIN o /\ ls[first] < o[first]

(* Fewer labels first; then the first name, in the order of names, that    *)
(* only one set has or that the two have with different values.            *)
Before(ls, o) ==
  LET first == Lowest(Differ(ls, o))
  IN \/ Cardinality(DOMAIN ls) < Cardinality(DOMAIN o)
     \/ /\ Cardinality(DOMAIN ls) = Cardinality(DOMAIN o)
        /\ Differ(ls, o) # {}
        /\ \/ first \in DOMAIN o \ DOMAIN ls
           \/ first \in DOMAIN ls \cap DOMAIN o /\ ls[first] < o[first]
=============================================================================
