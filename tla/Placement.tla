------------------------------ MODULE Placement -----------------------------
(***************************************************************************)
(* What one scheduling round promises, without clusters, racks, cursor or  *)
(* calls: groups of services are put on nodes, a group at a time and all   *)
(* of it on one node, and no node is given more than it can hold.  Nothing *)
(* that was placed moves in the same round.                                *)
(***************************************************************************)
EXTENDS Integers, FiniteSetsExt

CONSTANT Resource

VARIABLES demand, \* service -> what it needs of each resource
          room,   \* node -> what it offers of each resource in this round
          open,   \* the nodes that may receive services
          host    \* service -> the set of nodes it was put on

vars == <<demand, room, open, host>>

Init == host = [s \in DOMAIN demand |-> {}]

On(h, n) == {s \in DOMAIN h : n \in h[s]}

Place(S, n) ==
  /\ \A s \in S : host[s] = {}
  /\ host' = [s \in DOMAIN host |-> IF s \in S THEN {n} ELSE host[s]]
  /\ \A r \in Resource :
        SumFunctionOnSet([s \in DOMAIN demand |-> demand[s][r]], On(host', n)) <= room[n][r]
  /\ UNCHANGED <<demand, room, open>>

Next == \E S \in SUBSET DOMAIN host, n \in open : Place(S, n)

Spec == Init /\ [][Next]_vars
=============================================================================
