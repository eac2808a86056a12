SPECIFICATION FairSpec
CONSTANTS
  a = a
  b = b
  Chats <- MCChats
  NoChat = NoChat
  Posts <- MCQueue
  Calls = {}
  MaxTurns = 3
  MaxCalls = 1
  MaxTools = 1
  MaxSubs = 1
  MaxSteers = 0
CHECK_DEADLOCK FALSE
INVARIANTS
  NoOvertaking
  StopIsComplete
PROPERTY
  TurnsEnd
