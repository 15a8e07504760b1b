------------------------------ MODULE MCDeploy ------------------------------
(* Rounds of Deploy_clusters with three services and four nodes.           *)
EXTENDS Deploy, TLC

MCResource == {"cpu", "memory"}
MCPortNo   == {-1, 80, 90}
MCPod      == {"a", "b", "c"}
MCNodeName == {"rubin1", "rubin2", "rubin3", "rubin4"}
MCTwoPMs   == {"PM1", "PM2"}
MCThreePMs == {"PM1", "PM2", "PM3"}
MCNoPMs    == {}
MCRackName == {"R1", "R2"}

PodOf  == 0 :> "a" @@ 1 :> "b" @@ 2 :> "c"
NameOf == 0 :> "rubin1" @@ 1 :> "rubin2" @@ 2 :> "rubin3" @@ 3 :> "rubin4"

CONSTANTS Limits,   \* possible <<cpu, memory, ports>> of the services, one triple each
          Rooms,    \* possible <<cpu, memory>> of the nodes, one pair each
          AnyPMs,      \* PMs whose nodes, in any racks, may make up a placement
          OrientedPMs  \* PMs from which only oriented placements are taken

MCLimits ==
  { << <<3, 1, {}>>, <<2, 1, {}>>,   <<1, 1, {}>> >>,
    << <<2, 1, {}>>, <<1, 1, {80}>>, <<1, 1, {80}>> >>,
    << <<1, 1, {90}>>, <<1, 2, {80}>>, <<1, 1, {}>> >> }
MCRooms ==
  { << <<2, 2>>, <<2, 2>>, <<1, 1>>, <<4, 3>> >>,
    << <<1, 1>>, <<4, 3>>, <<2, 2>>, <<4, 3>> >>,
    << <<4, 4>>, <<1, 2>>, <<4, 2>>, <<4, 3>> >> }

ServiceList(limits) ==
  [s \in 0 .. 2 |->
     [pod   |-> PodOf[s],
      res   |-> "cpu" :> limits[s + 1][1] @@ "memory" :> limits[s + 1][2],
      ports |-> [p \in PortNo |-> IF p \in limits[s + 1][3] THEN 1 ELSE 0]]]

NodeList(pm, rack, room) ==
  [n \in 0 .. 3 |->
     [Name  |-> NameOf[n], PM |-> pm[n], Rack |-> rack[n],
      free  |-> "cpu" :> room[n + 1][1] @@ "memory" :> room[n + 1][2],
      ports |-> [p \in PortNo |-> 0]]]

(* The cursor main sets, scheduler.go 174-176; the placement of all nodes  *)
(* but the master is free, so it may point anywhere or nowhere.            *)
StartCursor == [rack |-> "R1", pm |-> "PM2", vm |-> "rubin3"]

MCInit ==
  /\ \E limits \in Limits : curServices = ServiceList(limits)
  /\ \E pm \in [0 .. 3 -> AnyPMs \cup OrientedPMs], rack \in [0 .. 3 -> RackName],
        room \in Rooms :
        /\ pm[3] = "PM2" /\ rack[3] = "R1"
        /\ curNodes = NodeList(pm, rack, room)
  /\ \E file \in C!Files(3) : curClusters = C!LoadClusters(curServices, file)
  /\ cursor = StartCursor
  /\ podNode = [p \in Pod |-> IF p = "c" THEN "rubin1" ELSE Unbound]
  /\ RoundStart
  /\ \/ Oriented
     \/ \A n \in 0 .. 3 : curNodes[n].PM \in AnyPMs
  /\ Init

(* Only pod a is ever deleted: pods differ in nothing else that matters.    *)
MCNext == DeployStep \/ DeletePod("a")

MCSpec == MCInit /\ [][MCNext]_vars /\ Fairness
=============================================================================
