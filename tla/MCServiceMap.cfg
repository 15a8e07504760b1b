SPECIFICATION MCSpec
CONSTANTS
  App = {"web", "cart", "db"}
  Bytes = {0, 3}
  MaxSamples = 2
  MaxId = 3
INVARIANTS
  Divisible
  TrafficCounted
  NoPanic
\* The function returns.
CHECK_DEADLOCK FALSE
