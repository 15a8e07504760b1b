SPECIFICATION MCSpec
CONSTANTS
  Weights = {1, 2, 3}
  MaxServices = 4
INVARIANTS
  FileNested
  FileComplete
  FollowsTraffic
  FileIsLoadable
PROPERTY
  Returns
\* The script ends.
CHECK_DEADLOCK FALSE
