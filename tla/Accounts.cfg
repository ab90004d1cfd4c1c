SPECIFICATION Spec
CONSTANTS
  Requests = {r1, r2}
  SessionIds = {s1, s2}
  TokenIds = {k1, k2, k3}
  MAX_ACTIVE = 1
  Ops = {"login", "refresh", "logout", "revoke", "change", "admin", "edit"}
  MaxChanges = 2
  None = None
SYMMETRY Symmetry
INVARIANT IInv
INVARIANT SessionsFollowPassword
INVARIANT ProvenStillCurrent
INVARIANT TokensCapped
INVARIANT SingleUse
CHECK_DEADLOCK FALSE
