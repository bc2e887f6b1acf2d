SPECIFICATION Spec
CONSTANTS
  c1 = c1
  Chats = {c1}
  Kinds = {"start", "elsewhere", "email", "skip", "words", "hello", "settings"}
  TapKinds = {"link", "instructions", "app"}
  MaxMessages = 2
  MaxEvents = 2
  MaxCalls = 1
  NoMsg = NoMsg
CHECK_DEADLOCK FALSE
INVARIANT InboundInv EmailRepliesTaken HeldAndReplayed
