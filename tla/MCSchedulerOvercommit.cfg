\* NodesNotOvercommitted against the loop without crashes.
SPECIFICATION NoCrashSpec
CONSTANTS
  Resource <- MCResource
  PortNo <- MCPortNo
  Pod <- MCPod
  NodeName <- MCNodeName
  PmName <- MCPmName
  RackName <- MCRackName
  masterNode = "master"
  Unbound = Unbound
  Gone = Gone
  Athena <- MCAthena
  Listing <- AthenaFirst
  Limits <- MCLimits
  NodeLists <- OneNodeList
  StartCursor <- MCStart
INVARIANTS
  NodesNotOvercommitted
\* A dead process stays dead when nobody starts it.
CHECK_DEADLOCK FALSE
