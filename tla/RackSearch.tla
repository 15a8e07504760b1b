----------------------------- MODULE RackSearch -----------------------------
(***************************************************************************)
(* The rack hierarchy and the search for a node: generateRackMap and       *)
(* getNextAvailableNode of kubernetes-client/utils.go.                     *)
(*                                                                         *)
(* A node list is a function from node ids (positions in the list, from 0) *)
(* to records.  Two lists take part in a search, as in the code:           *)
(*   map   - the list generateRackMap was given; the rack map holds copies *)
(*           of its records, so its capacities are those of that moment;   *)
(*   nodes - curNodes, whose capacities shrink while clusters are placed.  *)
(* A port list is a bag, a function from port numbers to counts, because   *)
(* the code's `subset' counts.                                             *)
(***************************************************************************)
EXTENDS Lowest

CONSTANTS Resource,     \* the columns of a capacity: cpu, memory, disk
          PortNo,       \* port numbers, with the -1 every cluster profile starts with
          masterNode    \* the name of the node that never receives a pod

-----------------------------------------------------------------------------
(* subset: every port of the first list occurs at least as often in the second. *)
Subset(a, b) == \A p \in PortNo : a[p] <= b[p]

(* Mutant: one resource in sufficient supply is enough.                    *)
Fits_OneResource(node, need) == /\ \E r \in Resource : node.free[r] >= need.res[r]
                                /\ ~Subset(need.ports, node.ports)
                                /\ node.Name # masterNode

(* The condition all four passes of the search share.                      *)
Fits(node, need) == /\ \A r \in Resource : node.free[r] >= need.res[r]
                    /\ ~Subset(need.ports, node.ports)
                    /\ node.Name # masterNode

-----------------------------------------------------------------------------
(* generateRackMap.  recordPmSet is keyed by the PM's name alone, so a PM  *)
(* is entered under the rack of the first node that names it, and ndList   *)
(* holds all the nodes of that PM whatever rack they name themselves.      *)
FirstOfPM(map, pm) == Lowest({n \in DOMAIN map : map[n].PM = pm})

ListedRack(map, n) == map[FirstOfPM(map, map[n].PM)].Rack

Racks(map) == {ListedRack(map, n) : n \in DOMAIN map}

(* The order in which a walk over pmList and each ndList meets the nodes.  *)
Precedes(map, m, n) ==
  LET pm == FirstOfPM(map, map[m].PM)
      pn == FirstOfPM(map, map[n].PM)
  IN pm < pn \/ (pm = pn /\ m < n)

(* The node such a walk returns when S are the nodes it accepts: one or none. *)
FirstIn(map, S) == {n \in S : \A m \in S \ {n} : Precedes(map, n, m)}

-----------------------------------------------------------------------------
(* getNextAvailableNode.  The result is the set of nodes a call may return *)
(* (empty for `NodeEntity{}, false'): only the walk over the other racks   *)
(* has a choice, because Go visits a map's keys in an unspecified order.   *)
OnPM(map, cursor) ==
  {n \in DOMAIN map : ListedRack(map, n) = cursor.rack /\ map[n].PM = cursor.pm}

(* Mutant: the third pass looks at the current PM again.                   *)
InRack_SamePM(map, nodes, cursor) ==
  {n \in OnPM(map, cursor) : nodes[n].Name # cursor.vm}

(* The nodes of the current rack's other PMs, as the third pass sees them. *)
InRack(map, nodes, cursor) ==
  {n \in DOMAIN map : /\ OnPM(map, cursor) # {}
                      /\ ListedRack(map, n) = cursor.rack
                      /\ map[n].PM # cursor.pm
                      /\ nodes[n].Name # cursor.vm}

(* Mutant: the fourth pass looks at the first node of each PM only.        *)
Elsewhere_FirstVM(map, rack) ==
  {n \in DOMAIN map : ListedRack(map, n) = rack /\ n = FirstOfPM(map, map[n].PM)}

Elsewhere(map, rack) == {n \in DOMAIN map : ListedRack(map, n) = rack}

getNextAvailableNode(map, nodes, cursor, need) ==
  LET ok(S)  == {n \in S : Fits(nodes[n], need)}
      onPM   == ok(OnPM(map, cursor))
      onVM   == {n \in onPM : nodes[n].Name = cursor.vm}
      inRack == ok(InRack(map, nodes, cursor))
  IN CASE onVM # {}   -> FirstIn(map, onVM)
       [] onVM = {} /\ onPM # {} -> FirstIn(map, onPM)
       [] onPM = {} /\ inRack # {} -> FirstIn(map, inRack)
       [] OTHER -> UNION {FirstIn(map, ok(Elsewhere(map, rack)))
                            : rack \in Racks(map) \ {cursor.rack}}

-----------------------------------------------------------------------------
(* What the search promises.                                               *)

(* The nodes that could take the cluster, wherever they are.               *)
Candidates(nodes, need) == {n \in DOMAIN nodes : Fits(nodes[n], need)}

(* A rack map is regular when every node is listed under the rack it       *)
(* names: no PM spans two racks.                                           *)
Regular(map) == \A n \in DOMAIN map : ListedRack(map, n) = map[n].Rack

(* The cursor points into the map: either at a rack the map does not have, *)
(* or at a PM listed under its rack, and at no VM on another PM of it.     *)
CursorOK(map, cursor) ==
  \/ cursor.rack \notin Racks(map)
  \/ /\ OnPM(map, cursor) # {}
     /\ \A n \in Elsewhere(map, cursor.rack) :
           map[n].Name = cursor.vm => map[n].PM = cursor.pm

(* How far a node is from the cursor: the same VM, another VM of its PM,   *)
(* another PM of its rack, another rack.                                   *)
Distance(node, cursor) ==
  CASE node.Rack # cursor.rack -> 3
    [] node.Rack = cursor.rack /\ node.PM # cursor.pm -> 2
    [] OTHER -> IF node.Name = cursor.vm THEN 0 ELSE 1
=============================================================================
