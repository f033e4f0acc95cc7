SPECIFICATION FairSpec
CONSTANTS
  c1 = c1
  c2 = c2
  o1 = o1
  NoCustomer = NoCustomer
  NoOrder = NoOrder
  NumInvoices = 1
  NumPayments = 1
  NumMemos = 1
  Customers <- TwoCustomers
  Orders <- NoOrders
  Amounts = {2}
  Booking = {"none"}
  Acts = {"honor_discount", "honor_ineligible", "patch_draft", "patch_issued", "void_memo_of_void", "pay_written_off", "pay_other_customer", "pay_twice_in_one", "below_zero", "cash_receipts", "adjust_balance", "float_cent", "discount_undone", "discount_twice"}
  Lockable = FALSE
  MaxApplied = 2
  MaxBalance = 2
INVARIANTS
  TypeOK
PROPERTIES
  DriftIsCorrected
CHECK_DEADLOCK FALSE
