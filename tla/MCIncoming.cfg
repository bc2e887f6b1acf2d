SPECIFICATION FairSpec
CONSTANTS
  N = 3
  MaxEdits = 1
  Edits = {2, 3}
  Chats = {c1, c2}
  MaxQuestions = 2
  Answers = {yes, no}
  CutByWords = TRUE
  Identities = {a, b}
  Boots = {{}, {a}}
  Room = 1
  MaxListeners = 3
  MaxMessages = 2
  Early = FALSE
  Hasty = FALSE
  MayStop = TRUE
  MaxTasks = 2
  MaxConns = 2
  Deaf = {2}
CHECK_DEADLOCK FALSE
INVARIANTS LineInv  ListenersInv PeersInv
PROPERTIES NotAnsweredTwice EveryTurn CutShort AllHeard Answered
