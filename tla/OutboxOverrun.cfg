SPECIFICATION Spec
CONSTANTS
  Events = {e1, e2}
  Student = st
  Parents = {}
  Chats = {c1}
  Workers = {w1, w2}
  BATCH_SIZE = 2
  MAX_ATTEMPTS = 2
  MaxClaims = 5
  MaxDeaths = 1
  MaxOverruns = 1
  None = None
SYMMETRY Symmetry
CHECK_DEADLOCK FALSE
INVARIANT IInv
INVARIANT RepeatsHaveCause
INVARIANT RetriesBounded
PROPERTY SettledStaysSettled
INVARIANT OutcomeHasCause
