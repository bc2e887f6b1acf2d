SPECIFICATION FairSpec
CONSTANTS
  ann = ann
  bob = bob
  helper = helper
  writer = writer
  N = 3
  PersonOf <- MCPersonOf
  AgentOf <- MCAgentOf
  PerPerson = 1
  PerAgent = 1
  Workers = {w1, w2}
  NoWorker = NoWorker
  Limit = 2
  Hold = 2
  Late = {}
  MaxBacks = 1
  MaxWait = 1
INVARIANT WithinLimits
PROPERTY NobodyStarves
