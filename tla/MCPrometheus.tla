---------------------------- MODULE MCPrometheus ----------------------------
(***************************************************************************)
(* Documents, lists of alerts and durations for module Prometheus.  Its    *)
(* parts share no state, so each behaviour has work for one of them.       *)
(***************************************************************************)
EXTENDS Prometheus

(* Strings: "", "1", "a", "b", "bb", "c", "x", "y".                        *)
MCText ==
  << <<>>, <<49>>, <<97>>, <<98>>, <<98, 98>>, <<99>>, <<120>>, <<121>> >>

Num == 1  A == 2  B == 3  BB == 4  C == 5  X == 6  Y == 7

xy     == X :> Y
a_bb_c == (A :> BB) @@ (B :> C)    \* a="bb", b="c"
ab_bbc == (A :> B) @@ (BB :> C)    \* a="b", bb="c"

(* The metrics of metric_test.go, what is hashed of them, and the low      *)
(* bytes of the fingerprints it expects.                                   *)
Expected ==
  {[metric |-> <<>>, bytes |-> <<>>, fingerprint |-> 37,  fast |-> 37],
   [metric |-> xy, bytes |-> <<120, 255, 121, 255>>, fingerprint |-> 148, fast |-> 227],
   [metric |-> a_bb_c, bytes |-> <<97, 255, 98, 98, 255, 98, 255, 99, 255>>,
    fingerprint |-> 15,  fast |-> 30],
   [metric |-> ab_bbc, bytes |-> <<97, 255, 98, 255, 98, 98, 255, 99, 255>>,
    fingerprint |-> 205, fast |-> 166]}

-----------------------------------------------------------------------------
Metrics == {<<>>, xy, A :> B, A :> 0, B :> A, a_bb_c, ab_bbc, (A :> B) @@ (B :> C)}

MCFloat == {[nan |-> FALSE, n |-> n] : n \in 0 .. 1} \cup {[nan |-> TRUE, n |-> 0]}

Instant(neg, whole, frac, digits) ==
  [neg |-> neg, whole |-> whole, frac |-> frac, digits |-> digits]

(* 1.05, 2, 2.5004, -0.5 and -1: as many digits as a server may send.      *)
Pairs ==
  {[time |-> Instant(FALSE, 1, 5, 2), value |-> [quoted |-> TRUE, float |-> [nan |-> TRUE, n |-> 0]]],
   [time |-> Instant(FALSE, 2, 0, 0), value |-> [quoted |-> TRUE, float |-> [nan |-> FALSE, n |-> 1]]]}
OddPairs ==
  {[time |-> Instant(FALSE, 2, 5004, 4)],
   [time |-> Instant(TRUE, 0, 5, 1), value |-> [quoted |-> TRUE, float |-> [nan |-> FALSE, n |-> 1]]],
   [time |-> Instant(TRUE, 1, 0, 0), value |-> [quoted |-> FALSE, float |-> [nan |-> FALSE, n |-> 1]]]}

Samples ==
  {("metric" :> m) @@ pair : m \in Metrics, pair \in Pairs}
    \cup {("metric" :> xy) @@ pair : pair \in OddPairs}

Late == {s \in Samples : s.time.digits = 0 /\ DOMAIN s = {"metric", "time", "value"}}
Few  == {s \in Samples : s.metric \in {xy, A :> B, a_bb_c} /\ "value" \in DOMAIN s
                            /\ ~s.time.neg}

(* Vectors of one or two samples, or three of few series; matrices of      *)
(* three of all series.                                                    *)
MCDocuments ==
  [type : {"vector"}, samples : UNION {[1 .. n -> Samples] : n \in 0 .. 2}
                                  \cup [1 .. 3 -> Few]]
    \cup
  {d \in [type : {"matrix"}, samples : [1 .. 3 -> Late]] :
     \A k, n \in 1 .. 3 : k # n => d.samples[k].metric # d.samples[n].metric}

-----------------------------------------------------------------------------
(* The fingerprint of an alert is any number, different for each.          *)
AlertsWith(starts, ends, valid) ==
  [StartsAt : starts, EndsAt : ends, Fingerprint : 1 .. 3, valid : valid]

MCLists ==
  {<<>>} \cup [1 .. 1 -> AlertsWith(0 .. 2, {0, 1, 3, 4}, BOOLEAN)]
    \cup
  {l \in [1 .. 2 -> AlertsWith(1 .. 2, {0, 1, 3, 4}, {TRUE})] :
     l[1].Fingerprint # l[2].Fingerprint}
    \cup
  {l \in [1 .. 3 -> AlertsWith(1 .. 2, {0, 3, 4}, {TRUE})] :
     \A k \in 1 .. 3 : l[k].Fingerprint = k}

(* As 1000, 60, 60, 24, 7 and 365: each unit divides the next one up, but  *)
(* a week does not divide a year.                                          *)
MCFactor ==
  ("y" :> 240) @@ ("w" :> 144) @@ ("d" :> 48) @@ ("h" :> 16) @@ ("m" :> 8)
    @@ ("s" :> 4) @@ ("ms" :> 1)

MCTexts == [n : (0 .. 15) \cup {144, 240, 300, 3000, 40000}, unit : DOMAIN MCFactor]

NoDocument == [type |-> "vector", samples |-> <<>>]
NoDuration == [n |-> 0, unit |-> "s"]

(* The fingerprints are the ones the tests know.                           *)
ASSUME FingerprintsKnown ==
  \A e \in Expected : /\ hashAdd(hashNew, e.bytes) = e.fingerprint
                      /\ labelSetToFastFingerprint(e.metric) = e.fast

MCInit ==
  /\ Init
  /\ \/ alerts = <<>> /\ text = NoDuration
     \/ doc = NoDocument /\ text = NoDuration
     \/ doc = NoDocument /\ alerts = <<>>

MCNext ==
  /\ Next
  /\ doc # NoDocument  => UNCHANGED <<alertVars, durVars>>
  /\ alerts # <<>>     => UNCHANGED <<queryVars, durVars>>
  /\ text # NoDuration => UNCHANGED <<queryVars, alertVars>>

MCSpec == MCInit /\ [][MCNext]_vars
=============================================================================
