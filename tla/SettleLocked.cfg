SPECIFICATION Spec
CONSTANTS
  None = None
  Invoices = {i1}
  Payments = {p1, p2, p3}
  PaymeTxns = {m1}
  ClickTxns = {k1}
  ProviderIds = {x1}
  Requests = {r1, r2}
  Totals = {2}
  MaxAmount = 2
  AdminOps = {"pay", "destroy"}
  SerialProvider = FALSE
CHECK_DEADLOCK FALSE
SYMMETRY Symmetry
INVARIANTS NeverOverpaid IInv CancelledMeansUncredited
PROPERTIES ImplementsAccount 
