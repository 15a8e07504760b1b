------------------------------ MODULE Linkage -------------------------------
(***************************************************************************)
(* The clustering script kubernetes-client/high.py: single linkage of the  *)
(* services by the bandwidth between them.  The distance of two services   *)
(* is 1 / bandwidth, so the closest pair of clusters is the one joined by  *)
(* the heaviest link.  linkage is scipy's: it numbers the services         *)
(* 0 .. l - 1 and its rows l, l + 1, ..., each row naming the two clusters *)
(* it joins.  extract_levels reads the rows in the same order and looks    *)
(* only at earlier ones, so both loops advance in one step here.           *)
(***************************************************************************)
EXTENDS Integers

CONSTANT Weights        \* possible entries of the service map

(* servicemap_generator writes 1 where no bytes were counted.              *)
ASSUME WeightsAssumption == Weights \subseteq Nat \ {0}

VARIABLES num_services, \* the size of the service map
          Dist,         \* the service map, read from services_bw.json
          clusters,     \* extract_levels: row number + l -> services
          height,       \* row number + l -> weight of the link that made it
          live,         \* scipy: the clusters not yet part of another one
          next,         \* the number of the next row
          phase,        \* "linkage", "singles", "done", "failed"
          file          \* service_clusters.json: key -> services

vars == <<num_services, Dist, clusters, height, live, next, phase, file>>

L == num_services

Services == 0 .. (L - 1)

Init ==
  /\ num_services \in Nat
  /\ Dist \in [Services -> [Services -> Weights]]
  /\ \A i, j \in Services : Dist[i][j] = Dist[j][i]
  /\ clusters = [g \in {} |-> {}]
  /\ height = [g \in {} |-> 0]
  /\ live = Services
  /\ next = L
  /\ phase = "linkage"
  /\ file = [g \in {} |-> {}]

-----------------------------------------------------------------------------
(* `if glob > (len(labels)-1)': a row's number or a service.               *)
Members(g) == IF g > L - 1 THEN clusters[g] ELSE {g}

(* The heaviest link between clusters a and b is w.                        *)
Joined(a, b, w) == \E i \in Members(a), j \in Members(b) : Dist[i][j] = w

(* Mutant: the bandwidth itself is the distance.                           *)
Heavier_Distance(v, w) == v < w

(* Single linkage takes a pair whose heaviest link is heaviest of all.     *)
Heavier(v, w) == v > w

Closest(a, b, w) ==
  /\ Joined(a, b, w)
  /\ ~\E c, d \in live, v \in Weights : c # d /\ Heavier(v, w) /\ Joined(c, d, v)

(* Mutant: two services are too few as well.                               *)
TooFew_Two ==
  /\ phase = "linkage"
  /\ L <= 2
  /\ phase' = "failed"
  /\ UNCHANGED <<num_services, Dist, clusters, height, live, next, file>>

(* linkage refuses fewer than two observations; the script ends with an    *)
(* error and Update_clusters with log.Fatal.                               *)
TooFew ==
  /\ phase = "linkage"
  /\ L < 2
  /\ phase' = "failed"
  /\ UNCHANGED <<num_services, Dist, clusters, height, live, next, file>>

Merge(a, b, w) ==
  /\ phase = "linkage"
  /\ a # b /\ Closest(a, b, w)
  /\ clusters' = [g \in DOMAIN clusters \cup {next} |->
                    IF g = next THEN Members(a) \cup Members(b) ELSE clusters[g]]
  /\ height' = [g \in DOMAIN height \cup {next} |-> IF g = next THEN w ELSE height[g]]
  /\ live' = (live \ {a, b}) \cup {next}
  /\ next' = next + 1
  /\ UNCHANGED <<num_services, Dist, phase, file>>

(* All rows are there: one cluster is left.                                *)
LastRow ==
  /\ phase = "linkage"
  /\ L >= 2
  /\ \A a, b \in live : a = b
  /\ phase' = "singles"
  /\ UNCHANGED <<num_services, Dist, clusters, height, live, next, file>>

(* Mutant: only the rows are written.                                      *)
WriteFile_RowsOnly ==
  /\ phase = "singles"
  /\ file' = clusters
  /\ phase' = "done"
  /\ UNCHANGED <<num_services, Dist, clusters, height, live, next>>

(* Mutant: the rows are numbered from 0, the services after them.          *)
WriteFile_ServicesLast ==
  /\ phase = "singles"
  /\ file' = [g \in Services \cup DOMAIN clusters |->
                IF g < L - 1 THEN clusters[g + L] ELSE {g - (L - 1)}]
  /\ phase' = "done"
  /\ UNCHANGED <<num_services, Dist, clusters, height, live, next>>

(* Every service is added as a cluster of its own, and the file is written.*)
WriteFile ==
  /\ phase = "singles"
  /\ file' = [g \in Services \cup DOMAIN clusters |-> IF g < L THEN {g} ELSE clusters[g]]
  /\ phase' = "done"
  /\ UNCHANGED <<num_services, Dist, clusters, height, live, next>>

Next ==
  \/ TooFew
  \/ \E a, b \in live, w \in Weights : Merge(a, b, w)
  \/ LastRow
  \/ WriteFile

Spec == Init /\ [][Next]_vars

(* The script runs until it returns.                                       *)
Fairness == WF_vars(Next)

-----------------------------------------------------------------------------
(* The type invariant.                                                     *)
TypeOK ==
  /\ num_services \in Nat
  /\ Dist \in [Services -> [Services -> Weights]]
  /\ next \in Nat /\ next >= L
  /\ clusters \in [L .. (next - 1) -> SUBSET Services]
  /\ height \in [L .. (next - 1) -> Weights]
  /\ live \subseteq 0 .. (next - 1)
  /\ phase \in {"linkage", "singles", "done", "failed"}
  /\ file \in [DOMAIN file -> SUBSET Services]

(* What the placement loop relies on (module Deploy, Hierarchy): sub-      *)
(* clusters have smaller keys, and clusters are nested or disjoint.        *)
Nested(f) ==
  /\ \A c \in DOMAIN f : f[c] # {}
  /\ \A c, d \in DOMAIN f : c < d => f[c] \subseteq f[d] \/ f[c] \cap f[d] = {}

FileNested == Nested(file)

(* The file is complete: its keys are 0, 1, ... without a gap, so that the *)
(* position of a cluster in curClusters is its key; each service has a     *)
(* cluster of its own; and the last cluster, the first to be tried, holds  *)
(* every service.                                                          *)
FileComplete ==
  phase = "done" =>
    /\ DOMAIN file = 0 .. (2 * L - 2)
    /\ \A s \in Services : file[s] = {s}
    /\ file[2 * L - 2] = Services

(* The clusters follow the traffic.  Each cluster is held together by      *)
(* links at least as heavy as the one it was made with; and two services   *)
(* still apart exchange no more than the services joined so far.           *)
FollowsTraffic ==
  /\ \A g \in DOMAIN clusters, T \in SUBSET Services :
        T # {} /\ T # clusters[g] /\ T \subseteq clusters[g] =>
           \E i \in T, j \in clusters[g] \ T : Dist[i][j] >= height[g]
  /\ \A a, b \in live : a # b =>
        \A i \in Members(a), j \in Members(b), g \in DOMAIN height :
           Dist[i][j] <= height[g]

(* The scheduler's model takes the files of module Clusters: every file    *)
(* the script writes is one of them (high.py 43-96 against the loop of     *)
(* scheduler.go 284-315).                                                  *)
C == INSTANCE Clusters WITH Resource <- {}, PortNo <- {}

FileIsLoadable == phase = "done" => file \in C!Files(num_services)

(* The script returns, and fails only if there are no two services.        *)
Returns == <>(phase = "done" \/ (phase = "failed" /\ L < 2))
=============================================================================
