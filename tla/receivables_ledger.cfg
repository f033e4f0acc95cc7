SPECIFICATION Spec
CONSTANTS
  c1 = c1
  c2 = c2
  o1 = o1
  NoCustomer = NoCustomer
  NoOrder = NoOrder
  NumInvoices = 1
  NumPayments = 2
  NumMemos = 0
  Customers <- OneCustomer
  Orders <- NoOrders
  Amounts = {1, 3}
  Booking = {"none", "draft"}
  Acts = {}
  Lockable = TRUE
  MaxApplied = 0
  MaxBalance = 0
INVARIANTS
  LedgerFollows
PROPERTIES
  ClosedPeriodFrozen
CHECK_DEADLOCK FALSE
