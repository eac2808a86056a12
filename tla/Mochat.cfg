SPECIFICATION MochatFairSpec
CONSTANTS
  s = s
  p = p
  Sessions = {s}
  Panels = {p}
  Setups <- MCSetups
  MaxSaid = 2
  MaxSeen = 2
  Limit = 2
  MaxConnects = 2
  MaxFaults <- MCMaxFaults
INVARIANTS EachMessageOnce CursorCovers
PROPERTIES SessionsAreHeard
CHECK_DEADLOCK FALSE
