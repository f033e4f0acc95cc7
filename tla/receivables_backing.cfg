SPECIFICATION Spec
CONSTANTS
  c1 = c1
  c2 = c2
  o1 = o1
  NoCustomer = NoCustomer
  NoOrder = NoOrder
  NumInvoices = 2
  NumPayments = 1
  NumMemos = 1
  Customers <- TwoCustomers
  Orders <- NoOrders
  Amounts = {1, 2, 3}
  Booking = {"none"}
  Acts = {}
  Lockable = FALSE
  MaxApplied = 0
  MaxBalance = 0
SYMMETRY CustomerSymmetry
INVARIANTS
  PaidIsBacked
  CreditedIsBacked
  PocketLaw
PROPERTIES
  KeepsAccounts
CHECK_DEADLOCK FALSE
