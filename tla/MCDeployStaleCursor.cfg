\* Every rack map: the search may leave the current rack out.
SPECIFICATION MCSpec
CONSTANTS
  Resource <- MCResource
  PortNo <- MCPortNo
  Pod <- MCPod
  NodeName <- MCNodeName
  PmName <- MCThreePMs
  RackName <- MCRackName
  masterNode = "rubin4"
  Unbound = Unbound
  Gone = Gone
  Limits <- MCLimits
  Rooms <- MCRooms
  AnyPMs <- MCTwoPMs
  OrientedPMs <- MCTwoPMs
INVARIANTS
  NothingLeftFits
\* A round ends: nothing happens after Finish.
CHECK_DEADLOCK FALSE
