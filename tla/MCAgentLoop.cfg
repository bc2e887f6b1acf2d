SPECIFICATION FairSpec
CONSTANTS
  Changers = {"trade"}
  Lookups = {"stats"}
  Others = {"ask"}
  Args = {"a"}
  Requests <- MCRequests
  MaxCalls <- Uses
  MaxIterations = 0
  MaxFailures = 2
  MaxSameCalls = 2
  MaxCallsPerStep = 2
  MaxStale = 1
  MaxBounces = 2
CHECK_DEADLOCK FALSE
INVARIANT LoopInv
PROPERTY Ends
