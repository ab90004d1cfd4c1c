SPECIFICATION FairSpec
CONSTANTS
  Invoice = {1, 2, 3, 4}
  Place = {pa}
  Enrolled = {}
  Requests = {r1, r2}
  Job = job
  Ops = {"enroll", "self", "pay", "hand", "edit", "destroy", "leave"}
  Radix = 10
  Width = 1
  MaxMonth = 2
  None = None
INVARIANT IInv
INVARIANT BilledTwiceOnlyUnseen
INVARIANT ClashOnlyInRace
PROPERTY MembersBilled
CHECK_DEADLOCK FALSE
