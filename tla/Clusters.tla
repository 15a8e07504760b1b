------------------------------ MODULE Clusters ------------------------------
(***************************************************************************)
(* The clusters between high.py, which writes them to                      *)
(* service_clusters.json, and Deploy_clusters, which reads them from       *)
(* curClusters: what the file may hold and how Update_clusters loads it    *)
(* (scheduler.go 274-315).  The keys of the file are 0 .. len - 1, so the  *)
(* position of a cluster is its key.                                       *)
(***************************************************************************)
EXTENDS Integers, FiniteSetsExt

CONSTANTS Resource, PortNo

(* The files for l services: the services, then the rows of the linkage,   *)
(* each the union of two disjoint earlier clusters, the last one of all.   *)
Files(l) ==
  LET all == 0 .. (l - 1)
      file(rows) == [c \in 0 .. (2 * l - 2) |->
                       IF c < l THEN {c} ELSE IF c = 2 * l - 2 THEN all ELSE rows[c]]
      nested(f) == \A c, d \in DOMAIN f :
                      c < d => f[c] \subseteq f[d] \/ f[c] \cap f[d] = {}
      joins(f)  == \A c \in l .. (2 * l - 2) : \E a, b \in 0 .. (c - 1) :
                      f[a] \cap f[b] = {} /\ f[c] = f[a] \cup f[b]
  IN {f \in {file(rows) : rows \in [l .. (2 * l - 3) -> SUBSET all]} : nested(f) /\ joins(f)}

(* The profile of a cluster: the sums over its services, with a port list  *)
(* that starts with -1 before the services' own ports are appended.        *)
Profile(svcs, S) ==
  LET sum(f) == SumFunctionOnSet(f, S)
  IN [res   |-> [r \in Resource |-> sum([s \in DOMAIN svcs |-> svcs[s].res[r]])],
      ports |-> [p \in PortNo |-> (IF p = -1 THEN 1 ELSE 0)
                    + sum([s \in DOMAIN svcs |-> svcs[s].ports[p]])]]

LoadClusters(svcs, levels) ==
  [c \in DOMAIN levels |-> [services |-> levels[c],
                            profile  |-> Profile(svcs, levels[c]),
                            deployed |-> FALSE]]
=============================================================================
