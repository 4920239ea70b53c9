SPECIFICATION StartSpec
CONSTANTS
  Handlers = {h1, h2}
  Free = free
  Trimmed <- AFile
  Lines <- LineNames
  URLs = {"A", "B", "Me"}
  Ignored = {"#"}
  nodeAddr = "Me"
  maxPeers = 1
  MaxLines = 3
INVARIANTS LifeInv ReturnsClean KnowsItsPeers
PROPERTY RunReturns
CHECK_DEADLOCK FALSE
