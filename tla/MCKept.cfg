SPECIFICATION KeptSpec
CONSTANTS
  o1 = o1  o2 = o2  o3 = o3  pay = pay  mail = mail  ann = ann
  e1 = e1  e2 = e2  s1 = s1  s2 = s2  p1 = p1  p2 = p2  f1 = f1  a1 = a1
  g1 = g1  g2 = g2  i1 = i1  i2 = i2
  Requests = {o1, o2, o3}
  AlertOf <- MCAlertOf
  PersonAgentOf <- MCPersonAgentOf
  Shadow = {o3}
  Plain = {o3}
  Caps <- MCCaps
  Workers = {w1, w2}
  Outcomes = {"failed"}
  MaxNow = 1
  MaxAborts = 1
  NoWorker = NoWorker
  Servers = {s1, s2}
  Exchanges = {e1, e2}
  Server <- MCServer
  Apps <- MCApps
  Slots = {p1, p2, f1, a1}
  Scope <- MCScope
  Kind <- MCKind
  Owned = {f1}
  Values = {"a", "w"}
  Wordless = {"w"}
  Invalid = {"w"}
  Never = {}
  MaxDetails = 2
  MaxQuestions = 1
  Proposals <- MCProposals
  MaxEdits = 1
  Agents = {g1, g2}
  Identities = {i1, i2}
  Skills = {skill1}
  Bots = {i1}
  Stored <- MCStored
  Kinds <- MCKinds
  MaxRestarts = 1
SYMMETRY Symmetric
CHECK_DEADLOCK FALSE
INVARIANTS  LearningInv 
PROPERTIES PersonDecides SavesItsPart
