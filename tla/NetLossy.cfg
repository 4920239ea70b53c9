SPECIFICATION FairSpec
CONSTANTS
  TxIDs = {1, 2}
  Payloads = {a}
  Blank = blank
  Hashes <- MCHashes
  MaxBlockTransactions = 2
  MaxChainBlocks = 4
  Drift = 0
  MaxPending = 2
  n1 = n1
  n2 = n2
  Nodes = {n1, n2}
  Clients <- TwoMessages
  Fanout = 2
  MaxJobs = 1
  MaxCrashes = 1
  HashOf <- MCHashOf
INVARIANT NetInv
PROPERTIES EveryNodeIsALedger Convergence EverywhereConfirmed
