SPECIFICATION Spec
CONSTANTS
  Tool <- MCTool
  Skill <- MCSkill
  Platform <- MCPlatform
  Agents <- MCAgents
  Messages <- MCMessages
  Allowed <- MCAllowed
  Choices <- MCChoices
  Chats = {c1}
  MaxUses = 1
  MaxTurns = 2
  MaxLulls = 1
  Def <- MCDef
  Drafts <- MCDrafts
  Settings <- MCSettings
  Inputs <- MCInputs
  Sizes <- MCSizes
  MaxCalls = 3
  MaxReplies = 1
  MaxProposals = 2
  MaxTyped = 1
  MaxTaps = 2
  Buttons = {1, 2}
  MinActAhead = 1
  MinCheckAhead = 2
  MaxWakeAhead = 3
  LateWake = 1
  MaxSets = 2
  Actions = {"a"}
  Asking = {}
  MaxTime = 4
CHECK_DEADLOCK FALSE
INVARIANTS TurnInv   ApprovedAsSent LookedFirst  WakeInv
PROPERTY DoneWhenMeant
