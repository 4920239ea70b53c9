SPECIFICATION Spec
CONSTANTS
  TxIDs = {1, 2}
  Payloads = {a}
  Blank = blank
  Hashes = {1, 2}
  MaxBlockTransactions = 1
  MaxChainBlocks = 3
  Drift = 1
  MaxPending = 2
  Handlers = {h1}
  Syncer = syncer
  Miner = miner
  Nobody = nobody
  NoBlock = noblock
  PeerTxs <- PeerTxsOdd
  PeerTimes = {0, 1, 2}
  MaxTime = 1
INVARIANTS
  FileReloads
  OwnBlockOnlyStale
PROPERTIES
  FileProgress
