---------------------------- MODULE MCServiceMap ----------------------------
(* Up to three athena pods, the only pods or among others, one             *)
(* sample of received bytes and MaxSamples of sent bytes.                  *)
EXTENDS ServiceMap

CONSTANT MaxSamples, MaxId

UpTo(S, n) == UNION {[1 .. k -> S] : k \in 0 .. n}

(* "db" never is an athena application here.                               *)
MCInit ==
  /\ \E ids \in {S \in SUBSET (0 .. MaxId) : Cardinality(S) <= 3} :
     \E app \in [ids -> App \ {"db"}] :
        LET nth(j) == CHOOSE i \in ids : Cardinality({k \in ids : k < i}) = j - 1
        IN pods = [j \in 1 .. Cardinality(ids) |-> [Id |-> nth(j), app |-> app[nth(j)]]]
  /\ \E r \in UpTo(Sample, 1), s \in UpTo(Sample, MaxSamples) :
        received = r /\ sent = s
  /\ read = 0
  /\ temp = [i \in Rows |-> [j \in Rows |-> 0]]
  /\ weight = temp
  /\ phase = "read"

MCSpec == MCInit /\ [][Next]_vars
=============================================================================
