SPECIFICATION FairSpec
CONSTANTS
  MaxVersion = 4
  Skew = 1
  MaxClock = 3
  MaxFaults = 4
INVARIANTS SaveInv Recoverable
PROPERTIES IsAtomic StartsAgain
CHECK_DEADLOCK FALSE
