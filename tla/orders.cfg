SPECIFICATION FairSpec
CONSTANTS
  Orders = {o1, o2}
  Plain = {o2}
  Sessions = {q1}
  Batches = {b1}
  Words = {"draft", "confirmed", "cancelled"}
  Modes = {"auto", "driver", "immediate"}
  MaxInvoices = 2
  NoOrder = NoOrder
  NoInvoice = NoInvoice
INVARIANTS TypeOK OneLiveInvoice DraftIsUnbilled BalanceFollows
PROPERTIES DeliveryIsNotUndone DueIsBilled DriftIsRepaired
