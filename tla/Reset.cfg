SPECIFICATION ResetFairSpec
CONSTANTS
  Requests = {r1, r2}
  SessionIds = {s1}
  TokenIds = {k1}
  MAX_ACTIVE = 1
  Ops = {"login", "change", "reset"}
  MaxChanges = 1
  Resets = {x1, x2}
  Chats = {c1, c2}
  OwnChats = {c1}
  MAX_REQUESTS = 2
  MAX_CODES = 2
  MAX_CODE_ATTEMPTS = 1
  None = None
INVARIANT OnlyNewestLive
INVARIANT ProvenByOwnChat
INVARIANT GuessesBounded
PROPERTY EveryCallEnds
CHECK_DEADLOCK FALSE
INVARIANT SessionsFollowPassword
