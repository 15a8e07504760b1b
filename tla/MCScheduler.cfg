\* The loop with crashes, failing calls and pods that come and go.
SPECIFICATION MCSpec
CONSTANTS
  Resource <- MCResource
  PortNo <- MCPortNo
  Pod <- MCPod
  NodeName <- MCNodeName
  PmName <- MCPmName
  RackName <- MCRackName
  masterNode = "master"
  Unbound = Unbound
  Gone = Gone
  Athena <- MCAthena
  Listing <- AthenaFirst
  Limits <- MCLimits
  NodeLists <- MCNodeLists
  StartCursor <- MCStart
INVARIANTS
  SchedTypeOK
  OnlyAthena
  RacksStayRegular
PROPERTIES
  ImplementsRounds
  PendingBound
\* A dead process stays dead when nobody starts it.
CHECK_DEADLOCK FALSE
