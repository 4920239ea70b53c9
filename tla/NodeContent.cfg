SPECIFICATION Spec
CONSTANTS
  TxIDs = {1}
  Payloads = {a, b}
  Blank = blank
  Hashes = {1, 2}
  MaxBlockTransactions = 2
  MaxChainBlocks = 3
  Drift = 0
  MaxPending = 2
  Handlers = {h1}
  Syncer = syncer
  Miner = miner
  Nobody = nobody
  NoBlock = noblock
  PeerTxs <- PeerTxsConflict
  PeerTimes = {0}
  MaxTime = 0
INVARIANTS
  ContentKept
