SPECIFICATION Spec
CONSTANTS
  TxIDs = {1, 2, 3}
  Payloads = {a}
  Blank = blank
  Hashes = {1, 2, 3}
  MaxBlockTransactions = 1
  MaxChainBlocks = 3
  Drift = 0
  MaxPending = 1
  Handlers = {h1}
  Syncer = syncer
  Miner = miner
  Nobody = nobody
  NoBlock = noblock
  PeerTxs <- PeerTxsOther
  PeerTimes = {0}
  MaxTime = 0
INVARIANTS
  NodeInv
  MemoryMatchesFile
  PendingUnconfirmed
  NoSilentLoss
  WorkIsCurrent
PROPERTIES
  RelayedOnce
  ImplementsLedger
