SPECIFICATION ApiSpec
CONSTANTS
  TxIDs = {1, 2}
  Payloads = {a}
  Blank = blank
  Hashes = {1, 2}
  MaxBlockTransactions = 1
  MaxChainBlocks = 3
  Drift = 0
  MaxPending = 2
  Handlers = {h1}
  Syncer = syncer
  Miner = miner
  Nobody = nobody
  NoBlock = noblock
  PeerTxs <- PeerTxsEither
  PeerTimes = {0}
  MaxTime = 0
INVARIANT
  ApiInv
PROPERTIES
  NoAnswerTakenBack
  ReadsGoForward
