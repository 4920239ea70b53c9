SPECIFICATION FairSpec
CONSTANTS
  slow1 = slow1
  slow2 = slow2
  fast = fast
  Jobs <- TwoSlow
  Prompt = {fast}
  WorkerIDs = {w1, w2}
  Capacity = 1
  MaxAttempts = 2
  NoJob = nojob
INVARIANT OneOwner
PROPERTIES SettledIsNotSent BroadcastReturns QueueDrains WorkersStop
CHECK_DEADLOCK FALSE
