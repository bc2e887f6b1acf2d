SPECIFICATION FairSpec
CONSTANTS
  Jobs = {ask}
  NoWorker = NoWorker
  Workers = {w1, w2}
  MaxAttempts <- MCAttempts
  Shadow = {}
  Hold = 2
  Retry = 1
  Keep = 2
  KeepProblems = 2
  Limit = 1
  Prompt = FALSE
  MaxFaults = 2
  MaxBacks = 2
  Overrun = 1
INVARIANT QueueInv
PROPERTIES SettledStays ImplementsJobLife EventuallySettled
