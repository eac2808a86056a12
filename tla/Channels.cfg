SPECIFICATION FairSpec
CONSTANTS
  n1 = n1
  n2 = n2
  x = x
  y = y
  Names = {n1, n2}
  NoName = NoName
  Confs = {x, y}
  Off = Off
  Boots <- MCBoots
  Saves <- MCSaves
  MaxReloads = 2
  MaxInsts = 4
  MaxMessages = 1
  MaxActs = 3
INVARIANTS ChannelsMatch OneLoopEach OneNoticeEach
PROPERTIES MessagesLeave
CHECK_DEADLOCK FALSE
