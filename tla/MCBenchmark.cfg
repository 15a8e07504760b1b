SPECIFICATION BenchmarkSpec
CONSTANTS
  Client = {c1}
  Full <- MCFull
  CpuLoad <- MCCpuLoad
  MaxSamp <- MCMaxSamp
  Duration <- MCDuration
  Late <- MCLate
  MaxLoop <- MCMaxLoop
INVARIANTS
  BenchmarkTypeOK
  SleepInRange
  IntegralBounded
  NoCycle
  AnsweredWhole
  NotTurnedAway
PROPERTIES
  Stops
  RequestsEnd
\* It stops when the client has its result.
CHECK_DEADLOCK FALSE
