SPECIFICATION FairSpec
CONSTANTS
  Calls = {c1, c2}
  Sessions = {s1, s2}
  NoSession = NoSession
  Personal <- MCPersonal
  MaxFailures = 3
  Retries = 1
  MaxMessages = 2
  MaxLearns = 1
  MaxFaults = 1
   
PROPERTIES CallsEnd
CHECK_DEADLOCK FALSE
