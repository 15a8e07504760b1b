\* Regular rack maps: the -1 in the port lists.
SPECIFICATION MCSpec
CONSTANTS
  Resource <- MCResource
  PortNo <- MCPortNo
  Pod <- MCPod
  NodeName <- MCNodeName
  PmName <- MCThreePMs
  RackName <- MCRackName
  masterNode = "rubin4"
  Unbound = Unbound
  Gone = Gone
  Limits <- MCLimits
  Rooms <- MCRooms
  AnyPMs <- MCNoPMs
  OrientedPMs <- MCThreePMs
PROPERTIES
  RefusedForCapacity
\* A round ends: nothing happens after Finish.
CHECK_DEADLOCK FALSE
