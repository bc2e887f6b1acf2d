SPECIFICATION PersonsSpec
CONSTANTS
  q1 = q1  q2 = q2  l1 = l1  l2 = l2  p1 = p1  p2 = p2  e1 = e1  e2 = e2
  mail = mail
  MaxPerson = 3
  Addresses = {mail}
  Chats = {e1, e2}
  MaxMerges = 2
  Callers = {q1, q2}
  Logins = {l1, l2}
  Emails = {e1, e2}
  Passwords = {p1, p2}
  MailMax = 2
  SigninMax = 1
  MaxRequests = 3
  MaxBroken = 1
  None = None
SYMMETRY Symmetric
CHECK_DEADLOCK FALSE
INVARIANTS  NothingStranded  SignedOut
