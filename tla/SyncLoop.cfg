SPECIFICATION FairSpec
CONSTANTS
  N = 4
  Timeout = 1
  Budget = 5
INVARIANTS TypeOK NobodyStarves
PROPERTIES EveryoneIsHeard RequestHonoured LoopStops
CHECK_DEADLOCK FALSE
