SPECIFICATION Spec
CONSTANTS
  c1 = c1
  c2 = c2
  o1 = o1
  NoCustomer = NoCustomer
  NoOrder = NoOrder
  NumInvoices = 1
  NumPayments = 2
  NumMemos = 0
  Customers <- OneCustomer
  Orders <- NoOrders
  Amounts = {1, 2, 3}
  Booking = {"none"}
  Acts = {"pay_written_off"}
  Lockable = FALSE
  MaxApplied = 0
  MaxBalance = 0
INVARIANTS
  BalanceLaw
CHECK_DEADLOCK FALSE
