\* OnlyAthena when another namespace is listed before athena.
SPECIFICATION NoCrashSpec
CONSTANTS
  Resource <- MCResource
  PortNo <- MCPortNo
  Pod <- MCPod
  NodeName <- MCNodeName
  PmName <- MCPmName
  RackName <- MCRackName
  masterNode = "master"
  Unbound = Unbound
  Gone = Gone
  Athena <- MCAthena
  Listing <- AthenaLast
  Limits <- MCLimits
  NodeLists <- OneNodeList
  StartCursor <- MCStart
INVARIANTS
  OnlyAthena
\* A dead process stays dead when nobody starts it.
CHECK_DEADLOCK FALSE
