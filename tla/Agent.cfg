SPECIFICATION Spec
CONSTANTS
  a = a
  b = b
  Chats <- MCChats
  NoChat = NoChat
  Posts <- MCPosts
  Calls <- MCCalls
  MaxTurns = 2
  MaxCalls = 2
  MaxTools = 2
  MaxSubs = 1
  MaxSteers = 1
CHECK_DEADLOCK FALSE
INVARIANTS
  AnsweredAlone
  QueuesFollowTurns
