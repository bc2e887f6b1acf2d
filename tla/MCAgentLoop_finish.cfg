SPECIFICATION Spec
CONSTANTS
  Changers = {"trade"}
  Lookups = {"stats"}
  Others = {"ask"}
  Args = {"a"}
  Requests <- MCRequests
  MaxCalls <- Uses
  MaxIterations = 4
  MaxFailures = 2
  MaxSameCalls = 2
  MaxCallsPerStep = 2
  MaxStale = 2
  MaxBounces = 2
CHECK_DEADLOCK FALSE
INVARIANT FinishedWithAnswers
