SPECIFICATION Spec
CONSTANTS
  push = push
  forged = forged
  pr = pr
  a1 = a1
  a2 = a2
  github = github
  Deliveries = {push, forged}
  KindOf <- MCKindOf
  KeyOf <- MCKeyOf
  AlertSets <- MCAlertSets
  ClientOf <- MCClientOf
  Handlers = {h1}
  Workers = {w1, w2}
  NoWorker = NoWorker
  MaxAttempts = 2
  Overrun = 0
  Hold = 1
  Retry = 0
  Keep = 0
  MaxFaults = 1
  MaxFailures = 1
  Window = 0
  MaxSends = 3
 
PROPERTY ImplementsJobLife
SYMMETRY MCSymmetry
