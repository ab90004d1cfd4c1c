SPECIFICATION FairSpec
CONSTANTS
  Events = {e1}
  Student = st
  Parents = {pa}
  Chats = {c1}
  Workers = {w1, w2}
  BATCH_SIZE = 1
  MAX_ATTEMPTS = 2
  MaxClaims = 5
  MaxDeaths = 1
  MaxOverruns = 1
  None = None
INVARIANT OneMessagePerChat
PROPERTY DeliverySettles
CHECK_DEADLOCK FALSE
