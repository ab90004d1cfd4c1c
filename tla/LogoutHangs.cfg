SPECIFICATION FairSpec
CONSTANTS
  Requests = {r1, r2}
  SessionIds = {s1, s2}
  TokenIds = {k1, k2}
  MAX_ACTIVE = 2
  Ops = {"login", "logout", "admin"}
  MaxChanges = 1
  None = None
PROPERTY EveryRequestEnds
CHECK_DEADLOCK FALSE
