SPECIFICATION FairSpec
CONSTANTS
  None = None
  Invoices = {i1}
  Payments = {p1, p2, p3}
  PaymeTxns = {m1}
  ClickTxns = {k1}
  ProviderIds = {x1}
  Requests = {r1, r2}
  Totals = {1, 2}
  MaxAmount = 2
  AdminOps = {"pay", "invoice_destroy"}
  SerialProvider = TRUE
CHECK_DEADLOCK FALSE
INVARIANTS StatusInSync OneGatewayCredit
PROPERTIES EveryCallEnds
