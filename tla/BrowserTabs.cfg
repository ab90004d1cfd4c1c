SPECIFICATION FairSpec
CONSTANTS
  Tab = {t1, t2}
  Call = {c1, c2}
  Sess = {s1, s2}
  Account = {a1}
  RoleOf <- OneTeacher
  Elsewhere = {"ended", "retired", "lapsed", "reset"}
  None = None
INVARIANT OustedByOthers
INVARIANT CarriedOnce
INVARIANT SignedOutStaysOut
PROPERTY RefusalEnds
CHECK_DEADLOCK FALSE
