SPECIFICATION Spec
CONSTANTS
  Resource <- MCResource
  PortNo <- MCPortNo
  services <- MCServices
  machines <- MCMachines
  rows <- MCRows
INVARIANTS
  WithinMachine
  NothingLeftFits
  SortedDeploysOnce
\* The round ends and main waits.
CHECK_DEADLOCK FALSE
