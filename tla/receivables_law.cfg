SPECIFICATION Spec
CONSTANTS
  c1 = c1
  c2 = c2
  o1 = o1
  NoCustomer = NoCustomer
  NoOrder = NoOrder
  NumInvoices = 2
  NumPayments = 2
  NumMemos = 1
  Customers <- OneCustomer
  Orders <- NoOrders
  Amounts = {1, 3}
  Booking = {"none"}
  Acts = {"honor_discount"}
  Lockable = FALSE
  MaxApplied = 0
  MaxBalance = 0
INVARIANTS
  BalanceLaw
  NeverOverSettled
  PaidMeansSettled
PROPERTIES
  VoidedInvoiceUntouched
CHECK_DEADLOCK FALSE
