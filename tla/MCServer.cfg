\* Two requests, the timeouts in units of 10 seconds, PostgreSQL going away once.
SPECIFICATION FairSpec
CONSTANTS
  Requests = {r1, r2}
  Grace = 3
  StopGrace = 1
  MaxTime = 4
  MaxFlaps = 1
INVARIANTS
  ServesConfigured
PROPERTIES
  CutOnlyLate
  CleanExitAnswersAll
  StopEnds
  ComesUp
CHECK_DEADLOCK FALSE
