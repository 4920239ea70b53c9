SPECIFICATION FairSpec
CONSTANTS
  Nodes = {1, 2}
  NodeA = 1
  NodeC = 2
  Messages = {1}
  ForkA = 0
  ForkB = 2
  Fanout = 2
  MaxChain = 3
  MaxBlock = 2
  MaxPending = 1
INVARIANT SimInv
PROPERTIES OnlyBetter NothingForgotten ForkEnds
CHECK_DEADLOCK FALSE
