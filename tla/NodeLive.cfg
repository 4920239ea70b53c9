SPECIFICATION FairSpec
CONSTANTS
  TxIDs = {1, 2}
  Payloads = {a}
  Blank = blank
  Hashes = {1, 2, 3, 4}
  MaxBlockTransactions = 1
  MaxChainBlocks = 3
  Drift = 0
  MaxPending = 2
  Handlers = {h1}
  Syncer = syncer
  Miner = miner
  Nobody = nobody
  NoBlock = noblock
  PeerTxs = {}
  PeerTimes = {0}
  MaxTime = 0
PROPERTIES
  EventuallyConfirmed
