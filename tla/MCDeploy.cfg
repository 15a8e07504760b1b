\* Every placement over two PMs, stale cursors and PMs that span racks included,
\* and over three PMs those where the cursor points into a regular rack map.
SPECIFICATION MCSpec
CONSTANTS
  Resource <- MCResource
  PortNo <- MCPortNo
  Pod <- MCPod
  NodeName <- MCNodeName
  PmName <- MCThreePMs
  RackName <- MCRackName
  masterNode = "rubin4"
  Unbound = Unbound
  Gone = Gone
  Limits <- MCLimits
  Rooms <- MCRooms
  AnyPMs <- MCTwoPMs
  OrientedPMs <- MCThreePMs
INVARIANTS
  TypeOK
  OneRequestPerPod
  DeployedTogether
  PlanFits
PROPERTIES
  PlacesWithinCapacity
  ExhaustiveSearch
  NoVainSplit
  ClosestFirst
  RoundEnds
\* A round ends: nothing happens after Finish.
CHECK_DEADLOCK FALSE
