SPECIFICATION Spec
CONSTANTS
  c1 = c1
  c2 = c2
  o1 = o1
  NoCustomer = NoCustomer
  NoOrder = NoOrder
  NumInvoices = 2
  NumPayments = 1
  NumMemos = 1
  Customers <- OneCustomer
  Orders <- NoOrders
  Amounts = {1, 3}
  Booking = {"draft"}
  Acts = {"discount_undone"}
  Lockable = FALSE
  MaxApplied = 0
  MaxBalance = 0
INVARIANTS
  LedgerFollows
CHECK_DEADLOCK FALSE
