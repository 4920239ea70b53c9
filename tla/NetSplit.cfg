SPECIFICATION FairSpec
CONSTANTS
  TxIDs = {1, 2, 3, 4}
  Payloads = {a}
  Blank = blank
  Hashes <- MCHashes
  MaxBlockTransactions = 1
  MaxChainBlocks = 6
  Drift = 0
  MaxPending = 1
  n1 = n1
  n2 = n2
  Nodes = {n1, n2}
  Clients <- FourMessages
  Fanout = 2
  MaxJobs = 0
  MaxCrashes = 0
  HashOf <- MCHashOf
PROPERTY Convergence
