SPECIFICATION Spec
CONSTANTS
  None = None
  Invoices = {i1}
  Payments = {p1, p2}
  PaymeTxns = {m1}
  ClickTxns = {k1}
  ProviderIds = {x1}
  Requests = {r1, r2}
  Totals = {1}
  MaxAmount = 2
  AdminOps = {"create", "update", "destroy", "invoice_update", "invoice_destroy"}
  SerialProvider = FALSE
CHECK_DEADLOCK FALSE
SYMMETRY Symmetry
INVARIANTS CreditedTwiceOnlyOverwritten SuccessNamesItsCredit WaitsEnd
PROPERTIES SettledIsFinal
