SPECIFICATION Spec
CONSTANTS
  Chats = {c1, c2}
  MaxQuestions = 2
  Answers = {yes, no}
  CutByWords = FALSE
CHECK_DEADLOCK FALSE
INVARIANT RightAnswer
