----------------------------- MODULE Receivables -----------------------------
(***************************************************************************)
(* The accounts-receivable subledger of one tenant: invoices, payments and *)
(* their applications, credit memos, write-offs, the customer's running    *)
(* balance and credit pocket, and the journal entries each document points *)
(* at (services/sales_service.py, ar_invoice_posting.py,                   *)
(* ar_payment_posting.py, journal_entry_service.py, ar_balance.py).        *)
(*                                                                         *)
(* Every action is one service call, from its refusals to its commit.      *)
(* Amounts are whole cents.  Some calls are legal for the code and break   *)
(* the subledger's own law; each of those is enabled only when its name is *)
(* in the constant Acts, so that the law can be checked without them and   *)
(* each of them can be shown to break it.                                  *)
(***************************************************************************)
EXTENDS Integers, Sums

CONSTANTS
  NumInvoices,   \* invoices are 1..NumInvoices
  NumPayments,   \* customer payments are 1..NumPayments
  NumMemos,      \* credit memos are 1..NumMemos
  Customers,
  Orders,        \* sales orders an invoice may bill; may be empty
  Amounts,       \* amounts above zero, in cents; most verbs refuse others
  Booking,       \* what posting to the ledger may yield: "none" while the
                 \* GL accounts are not configured, "draft" once they are
  Acts,          \* the questionable calls that may happen, see ActNames
  Lockable,      \* whether anyone locks today's period
  MaxApplied,    \* bound on what cash-receipts matches add to one payment
  MaxBalance,    \* bound on what balance adjustments, and discounts on void
                 \* invoices, do to one customer
  NoCustomer, NoOrder

(* Calls the code accepts whose effect the balance law does not foresee.   *)
ActNames ==
  { "honor_discount",       \* honor_early_payment_discount, invoice eligible
    "honor_ineligible",     \* the same on a draft, void, credited or
                            \* written-off invoice: only "paid" is refused
    "patch_draft",          \* PATCH of a draft to a status other than sent/open
    "patch_issued",         \* PATCH of an issued invoice to "paid" or "void"
    "void_memo_of_void",    \* voiding a memo whose invoice has been voided
    "pay_written_off",      \* a payment applied to a written-off invoice
    "pay_other_customer",   \* a payment applied to another customer's invoice
    "pay_twice_in_one",     \* two application rows of one payment, one invoice
    "below_zero",           \* an invoice, a payment or an application row
                            \* of less than nothing
    "cash_receipts",        \* the cash-receipts match of a payment
    "adjust_balance",       \* a manual balance adjustment
    "float_cent",           \* a one-cent overpayment that the float
                            \* comparison takes for more than a cent
    "discount_undone",      \* an early-payment discount booked on a payment
                            \* that was already voided or returned
    "discount_twice" }      \* a second discount booked on the same payment

ASSUME ReceivablesAssumption ==
  /\ NumInvoices \in Nat /\ NumPayments \in Nat /\ NumMemos \in Nat
  /\ Amounts \subseteq Nat \ {0} /\ MaxApplied \in Nat /\ MaxBalance \in Nat
  /\ Booking \subseteq {"none", "draft"} /\ Booking # {}
  /\ Acts \subseteq ActNames /\ Lockable \in BOOLEAN
  /\ NoCustomer \notin Customers /\ NoOrder \notin Orders

Invoices == 1..NumInvoices
Payments == 1..NumPayments
Memos    == 1..NumMemos

(* What an invoice, a payment and its rows may come to: the schemas of     *)
(* these requests ask for a number, and nobody asks for its sign.          *)
Figures ==
  Amounts \cup {0} \cup IF "below_zero" \in Acts THEN {-a : a \in Amounts} ELSE {}

VARIABLES
  inv,             \* the invoices table
  pay,             \* the customer_payments table with its application rows
  memo,            \* the credit_memos table
  order,           \* the status of each sales order
  currentBalance,  \* customers.current_balance
  creditBalance,   \* customers.credit_balance, the credit pocket
  creditApplied,   \* customer_credit_entries of kind "apply", by invoice
  creditDisbursed, \* customer_credit_entries of kind "disburse", by customer
  closed           \* an active period lock covers today

vars == <<inv, pay, memo, order, currentBalance, creditBalance,
          creditApplied, creditDisbursed, closed>>
-----------------------------------------------------------------------------
(* Documents.  "sent" stands for every issued and unsettled status word    *)
(* (sent, open, posted, overdue): no handler distinguishes them.  "none"   *)
(* is a row that does not exist yet.                                       *)
InvoiceStatus == {"none", "draft", "sent", "partial", "paid", "void", "write_off"}
EntryStatus   == {"none", "draft", "posted", "reversed", "voided"}
OrderStatus   == {"confirmed", "delivered", "completed", "cancelled"}

NewInvoice(c, o, t) ==
  [status |-> "draft", customer |-> c, order |-> o, total |-> t, paid |-> 0,
   credited |-> 0, writtenOff |-> 0, discount |-> 0, entry |-> "none"]
NoInvoice == [NewInvoice(NoCustomer, NoOrder, 0) EXCEPT !.status = "none"]
NoPayment == [state |-> "none", customer |-> NoCustomer, total |-> 0,
              apps |-> [i \in Invoices |-> 0],
              entry |-> "none", discountEntry |-> "none",
              stranded |-> FALSE]  \* a posted discount entry it lost sight of
NoMemo    == [state |-> "none", invoice |-> 0, amount |-> 0]

(* Mutant: the three-term balance, blind to write-offs. *)
BalanceThreeTerms(r) == r.total - r.paid - r.credited

(* Invoice.balance_remaining: what the invoice still owes. *)
Balance(r) == r.total - r.paid - r.credited - r.writtenOff

(* ar_balance.is_receivable: which invoices are receivables at all. *)
Receivable(r) == r.status \notin {"none", "draft", "void"}

Owed(i, c) == IF inv[i].customer = c /\ Receivable(inv[i])
              THEN Balance(inv[i]) ELSE 0
OpenTotal(c) == SumTo([i \in Invoices |-> Owed(i, c)], NumInvoices)

Applied(p)     == SumTo(pay[p].apps, NumInvoices)
Overpaid(p)    == pay[p].total - Applied(p)
MaxZero(n)     == IF n < 0 THEN 0 ELSE n

(* Mutant: a reopened balance leaves the invoice marked paid. *)
RecomputeOneWay(r) ==
  [r EXCEPT !.status =
     IF r.status \in {"draft", "void", "write_off", "paid"} THEN r.status
     ELSE IF Balance(r) <= 0 THEN "paid"
     ELSE IF r.paid > 0 \/ r.credited > 0 THEN "partial" ELSE "sent"]

(* _recompute_settlement_status: the status follows the honest balance. *)
Recompute(r) ==
  [r EXCEPT !.status =
     IF r.status \in {"draft", "void", "write_off"} THEN r.status
     ELSE IF Balance(r) <= 0 THEN "paid"
     ELSE IF r.paid > 0 \/ r.credited > 0 THEN "partial" ELSE "sent"]

(* Mutants: a draft entry is left for someone to post; the period lock is  *)
(* not asked when an entry is reversed.                                    *)
UndoneIfPosted(e) == IF e = "posted" THEN "reversed" ELSE e
MayAlwaysUndo(e)  == TRUE

(* _undo_entry: a posted entry is reversed by a new entry dated today, any *)
(* other live entry is voided in place.  The reversal is refused while     *)
(* today's period is locked, and the refusal aborts the whole call.        *)
Undone(e) == CASE e = "posted" -> "reversed"
               [] e = "draft"  -> "voided"
               [] OTHER        -> e
MayUndo(e) == e = "posted" => ~closed

(* _auto_complete_order_on_payment, for the invoices in paidNow. *)
Completed(paidNow) ==
  [o \in Orders |->
     IF /\ order[o] \notin {"cancelled", "completed"}
        /\ \E i \in paidNow : inv[i].order = o
     THEN "completed" ELSE order[o]]
-----------------------------------------------------------------------------
Init ==
  /\ inv = [i \in Invoices |-> NoInvoice]
  /\ pay = [p \in Payments |-> NoPayment]
  /\ memo = [m \in Memos |-> NoMemo]
  /\ order \in [Orders -> {"confirmed", "delivered"}]
  /\ currentBalance = [c \in Customers |-> 0]
  /\ creditBalance = [c \in Customers |-> 0]
  /\ creditApplied = [i \in Invoices |-> 0]
  /\ creditDisbursed = [c \in Customers |-> 0]
  /\ closed = FALSE

(* _reduce_customer_ar: the one door by which a settled amount leaves AR,  *)
(* and, with a negative amount, by which a posted one enters it.           *)
ReduceAR(c, amount) == currentBalance' = [currentBalance EXCEPT ![c] = @ - amount]

-----------------------------------------------------------------------------
(* Invoices *)

(* create_invoice and create_invoice_from_order: a draft, never posted.    *)
(* Only the second refuses an order that is cancelled or already invoiced. *)
CreateInvoice(i, c, o, total) ==
  /\ inv[i].status = "none"
  /\ \A j \in 1..(i - 1) : inv[j].status # "none"
  /\ ~closed
  /\ inv' = [inv EXCEPT ![i] = NewInvoice(c, o, total)]
  /\ UNCHANGED <<pay, memo, order, currentBalance, creditBalance,
                 creditApplied, creditDisbursed, closed>>

(* post_invoice_to_ar, the one posting moment, reached from the status     *)
(* PATCH to sent/open, approve_invoice, the bulk approval and the e-mail   *)
(* of a draft.  The ledger half fails open: no entry when an account is    *)
(* unconfigured, the period is locked or there is nothing to book, and the *)
(* invoice stands.                                                         *)
IssueInvoice(i) ==
  /\ inv[i].status = "draft"
  /\ \E e \in IF closed \/ inv[i].total <= 0 THEN {"none"} ELSE Booking :
       inv' = [inv EXCEPT ![i] = [inv[i] EXCEPT !.status = "sent", !.entry = e]]
  /\ ReduceAR(inv[i].customer, -inv[i].total)
  /\ UNCHANGED <<pay, memo, order, creditBalance, creditApplied,
                 creditDisbursed, closed>>

(* update_invoice, the remaining status words a PATCH may carry: it        *)
(* refuses void and paid invoices, write_off either way and a return to    *)
(* draft, and assigns everything else as it stands.                        *)
PatchInvoice(i, status) ==
  /\ inv[i].status \in {"draft", "sent", "partial"}
  /\ inv[i].status # status
  /\ CASE inv[i].status = "draft"         -> "patch_draft" \in Acts
       [] status \in {"paid", "void"}     -> "patch_issued" \in Acts
       [] OTHER                           -> TRUE
  /\ inv' = [inv EXCEPT ![i].status = status]
  /\ UNCHANGED <<pay, memo, order, currentBalance, creditBalance,
                 creditApplied, creditDisbursed, closed>>

(* Mutant: an invoice with money applied may be voided. *)
VoidablePaidOrNot(r) == r.status \notin {"none", "void"}

(* The refusals of void_invoice: already void, or money applied. *)
Voidable(r) == r.status \notin {"none", "void"} /\ r.paid <= 0

(* void_invoice: the balance comes back only if the invoice had been       *)
(* posted, its entry always.                                               *)
VoidInvoice(i) ==
  /\ Voidable(inv[i])
  /\ MayUndo(inv[i].entry)
  /\ IF inv[i].status = "draft" THEN UNCHANGED currentBalance
     ELSE ReduceAR(inv[i].customer, Balance(inv[i]))
  /\ inv' = [inv EXCEPT ![i] = [inv[i] EXCEPT !.status = "void", !.entry = Undone(@)]]
  /\ UNCHANGED <<pay, memo, order, creditBalance, creditApplied,
                 creditDisbursed, closed>>

(* write_off_invoice: the remainder leaves AR.  written_off_amount is      *)
(* assigned, not added to.                                                 *)
WriteOffInvoice(i) ==
  LET remainder == Balance(inv[i]) IN
  /\ inv[i].status \in {"sent", "partial"}
  /\ remainder > 0
  /\ inv' = [inv EXCEPT ![i] =
               [inv[i] EXCEPT !.writtenOff = remainder, !.status = "write_off"]]
  /\ ReduceAR(inv[i].customer, remainder)
  /\ UNCHANGED <<pay, memo, order, creditBalance, creditApplied,
                 creditDisbursed, closed>>

(* reinstate_invoice: the un-write-off. *)
ReinstateInvoice(i) ==
  /\ inv[i].status = "write_off"
  /\ inv' = [inv EXCEPT ![i] =
               Recompute([inv[i] EXCEPT !.writtenOff = 0, !.status = "sent"])]
  /\ ReduceAR(inv[i].customer, -inv[i].writtenOff)
  /\ UNCHANGED <<pay, memo, order, creditBalance, creditApplied,
                 creditDisbursed, closed>>

(* honor_early_payment_discount: the unpaid part is forgiven.  Only "paid" *)
(* is refused, and credits and write-offs are not looked at.  A void       *)
(* invoice paid nothing could be honored and voided for ever (a bound).    *)
HonorDiscount(i) ==
  LET r        == inv[i]
      discount == r.total - r.paid
      eligible == /\ r.status \in {"sent", "partial"}
                  /\ r.credited = 0 /\ r.writtenOff = 0
  IN
  /\ r.status \notin {"none", "paid"}
  /\ IF eligible THEN Acts \cap {"honor_discount", "honor_ineligible"} # {}
                 ELSE "honor_ineligible" \in Acts
  /\ r.status = "void" => currentBalance[r.customer] <= MaxBalance
  /\ inv' = [inv EXCEPT ![i] =
               [inv[i] EXCEPT !.discount = discount, !.paid = r.total, !.status = "paid"]]
  /\ ReduceAR(r.customer, discount)
  /\ UNCHANGED <<pay, memo, order, creditBalance, creditApplied,
                 creditDisbursed, closed>>
-----------------------------------------------------------------------------
(* Credit memos *)

(* create_credit_memo: born posted; never more than the open balance. *)
CreateCreditMemo(m, i, amount) ==
  /\ memo[m].state = "none"
  /\ \A n \in 1..(m - 1) : memo[n].state # "none"
  /\ inv[i].status \notin {"none", "draft", "void", "write_off"}
  /\ amount <= Balance(inv[i])
  /\ memo' = [memo EXCEPT ![m] = [state |-> "posted", invoice |-> i, amount |-> amount]]
  /\ inv' = [inv EXCEPT ![i] = Recompute([inv[i] EXCEPT !.credited = @ + amount])]
  /\ ReduceAR(inv[i].customer, amount)
  /\ UNCHANGED <<pay, order, creditBalance, creditApplied, creditDisbursed, closed>>

(* Mutant: a memo already void may be voided again. *)
MemoVoidableAgain(m) == memo[m].state # "none"

(* void_credit_memo: refused when already void or behind a write-off, and  *)
(* only there.                                                             *)
MemoVoidable(m) == memo[m].state = "posted"
VoidCreditMemo(m) ==
  LET i == memo[m].invoice IN
  /\ MemoVoidable(m)
  /\ inv[i].status # "write_off"
  /\ inv[i].status = "void" => "void_memo_of_void" \in Acts
  /\ memo' = [memo EXCEPT ![m].state = "void"]
  /\ inv' = [inv EXCEPT ![i] = Recompute([inv[i] EXCEPT !.credited = @ - memo[m].amount])]
  /\ ReduceAR(inv[i].customer, -memo[m].amount)
  /\ UNCHANGED <<pay, order, creditBalance, creditApplied, creditDisbursed, closed>>
-----------------------------------------------------------------------------
(* Payments *)

(* Mutant: the row is compared with the invoice's total. *)
ApplicableToTotal(i, c, amount) ==
  /\ inv[i].status \notin {"none", "draft", "void", "write_off"}
  /\ amount <= inv[i].total - inv[i].paid
  /\ inv[i].customer = c

(* What one application row must satisfy.  The rows are checked one by one *)
(* before any of them is applied, so two rows of one invoice are each      *)
(* compared with the same open balance.                                    *)
Applicable(i, c, amount) ==
  /\ inv[i].status \notin {"none", "draft", "void"}
  /\ \/ amount <= Balance(inv[i])
     \/ "pay_twice_in_one" \in Acts /\ amount <= 2 * Balance(inv[i])
  /\ inv[i].customer # c => "pay_other_customer" \in Acts
  /\ inv[i].status = "write_off" => "pay_written_off" \in Acts

(* Mutant: every cent of excess becomes credit. *)
PocketedToTheCent(over) == {over}

(* The excess that becomes credit.  A cent or less is dropped, but the     *)
(* comparison is made on floats, so exactly one cent may pass for more.    *)
Pocketed(over) ==
  IF over > 1 THEN {over}
  ELSE IF over = 1 /\ "float_cent" \in Acts THEN {0, 1} ELSE {0}

(* Applying a row, and taking it back.  The payment compares amount_paid   *)
(* with the total and does not look at credits; the unwinding re-derives   *)
(* the status and clears the discount column.                              *)
Paid(r, amount) ==
  [r EXCEPT !.paid = @ + amount,
            !.status = IF r.paid + amount >= r.total THEN "paid"
                       ELSE IF r.paid + amount > 0 THEN "partial" ELSE @]
UnpaidIfOpen(r, amount) ==   \* mutant: a written-off invoice is passed over
  IF r.status = "write_off" THEN r
  ELSE Recompute([r EXCEPT !.paid = MaxZero(@ - amount), !.discount = 0])
Unpaid(r, amount) ==
  Recompute([r EXCEPT !.paid = MaxZero(@ - amount), !.discount = 0])

(* create_customer_payment.  apps[i] is the sum of the rows for invoice i, *)
(* compared with nothing but the payment and the open balance.             *)
CreatePayment(p, c, total, apps) ==
  LET applied == SumTo(apps, NumInvoices)
      touched == {i \in Invoices : apps[i] # 0}
  IN
  /\ pay[p].state = "none"
  /\ \A q \in 1..(p - 1) : pay[q].state # "none"
  /\ ~closed
  /\ applied <= total
  /\ \A i \in touched : Applicable(i, c, apps[i])
  /\ \E e \in Booking :
       pay' = [pay EXCEPT ![p] = [NoPayment EXCEPT
                 !.state = "recorded", !.customer = c, !.total = total,
                 !.apps = apps, !.entry = e]]
  /\ inv' = [i \in Invoices |-> IF i \in touched THEN Paid(inv[i], apps[i]) ELSE inv[i]]
  /\ order' = Completed({i \in touched : inv[i].paid + apps[i] >= inv[i].total})
  /\ ReduceAR(c, applied)
  /\ \E credit \in Pocketed(total - applied) :
       creditBalance' = [creditBalance EXCEPT ![c] = @ + credit]
  /\ UNCHANGED <<memo, creditApplied, creditDisbursed, closed>>

(* import_sage_payments_from_csv, one group of rows: a payment of just what *)
(* its rows apply.  It asks no period lock, books no entry and completes   *)
(* no order, and it does check the invoice's customer.                     *)
ImportPayment(p, c, apps) ==
  LET touched == {i \in Invoices : apps[i] > 0}
      applied == SumTo(apps, NumInvoices)
  IN
  /\ pay[p].state = "none"
  /\ \A q \in 1..(p - 1) : pay[q].state # "none"
  /\ touched # {}
  /\ \A i \in touched : Applicable(i, c, apps[i]) /\ inv[i].customer = c
  /\ pay' = [pay EXCEPT ![p] = [NoPayment EXCEPT
               !.state = "recorded", !.customer = c, !.total = applied, !.apps = apps]]
  /\ inv' = [i \in Invoices |-> IF i \in touched THEN Paid(inv[i], apps[i]) ELSE inv[i]]
  /\ ReduceAR(c, applied)
  /\ UNCHANGED <<memo, order, creditBalance, creditApplied, creditDisbursed, closed>>

(* Mutant: credit since spent does not stop the undo. *)
PocketMayGoShort(c, over) == TRUE

(* The refusals of _unwind_payment: an undone payment, and an overpayment  *)
(* whose credit has since been spent.                                      *)
Undoable(p)          == pay[p].state = "recorded"
PocketHolds(c, over) == over > 1 => creditBalance[c] >= over

(* _unwind_payment, shared by void_payment and return_payment: invoices,   *)
(* balance, pocket and both journal entries, or nothing at all.            *)
Unwind(p, state) ==
  LET c       == pay[p].customer
      applied == Applied(p)
      over    == Overpaid(p)
  IN
  /\ Undoable(p)
  /\ PocketHolds(c, over)
  /\ MayUndo(pay[p].entry) /\ MayUndo(pay[p].discountEntry)
  /\ pay' = [pay EXCEPT ![p] =
               [pay[p] EXCEPT !.state = state, !.entry = Undone(@),
                         !.discountEntry = Undone(@)]]
  /\ inv' = [i \in Invoices |-> IF pay[p].apps[i] # 0
                                THEN Unpaid(inv[i], pay[p].apps[i]) ELSE inv[i]]
  /\ ReduceAR(c, -applied)
  /\ creditBalance' = [creditBalance EXCEPT ![c] = IF over > 1 THEN @ - over ELSE @]
  /\ UNCHANGED <<memo, order, creditApplied, creditDisbursed, closed>>

VoidPayment(p)   == Unwind(p, "voided")
ReturnPayment(p) == Unwind(p, "returned")

(* apply_customer_credit: held credit pays an invoice of its own customer. *)
ApplyCredit(c, i, amount) ==
  LET r == Recompute([inv[i] EXCEPT !.paid = @ + amount]) IN
  /\ amount <= creditBalance[c]
  /\ inv[i].customer = c
  /\ inv[i].status \in {"sent", "partial"}
  /\ amount <= Balance(inv[i])
  /\ creditBalance' = [creditBalance EXCEPT ![c] = @ - amount]
  /\ inv' = [inv EXCEPT ![i] = r]
  /\ order' = Completed(IF r.status = "paid" THEN {i} ELSE {})
  /\ ReduceAR(c, amount)
  /\ creditApplied' = [creditApplied EXCEPT ![i] = @ + amount]
  /\ UNCHANGED <<pay, memo, creditDisbursed, closed>>

(* disburse_customer_credit: held credit is refunded; no invoice changes.  *)
DisburseCredit(c, amount) ==
  /\ amount <= creditBalance[c]
  /\ creditBalance' = [creditBalance EXCEPT ![c] = @ - amount]
  /\ creditDisbursed' = [creditDisbursed EXCEPT ![c] = @ + amount]
  /\ UNCHANGED <<inv, pay, memo, order, currentBalance, creditApplied, closed>>

(* approve_match of the cash-receipts workflow, and the agent's confident  *)
(* match: an application row and amount_paid, but no balance, no pocket    *)
(* and no look at the invoice's customer, status or open balance.          *)
MatchCashReceipt(p, i, amount) ==
  /\ "cash_receipts" \in Acts
  /\ pay[p].state \in {"recorded", "returned"}
  /\ inv[i].status # "none"
  /\ Applied(p) + amount <= MaxApplied
  /\ pay' = [pay EXCEPT ![p].apps[i] = @ + amount]
  /\ inv' = [inv EXCEPT ![i] =
               [inv[i] EXCEPT !.paid = @ + amount,
                         !.status = IF inv[i].paid + amount >= inv[i].total
                                    THEN "paid" ELSE @]]
  /\ UNCHANGED <<memo, order, currentBalance, creditBalance, creditApplied,
                 creditDisbursed, closed>>
-----------------------------------------------------------------------------
(* Balance maintenance *)

(* create_balance_adjustment: a charge or a payment straight onto the      *)
(* running balance, the payment floored at zero.                           *)
AdjustBalance(c, kind, amount) ==
  /\ "adjust_balance" \in Acts
  /\ kind = "charge" => currentBalance[c] + amount <= MaxBalance
  /\ currentBalance' = [currentBalance EXCEPT ![c] =
       IF kind = "charge" THEN @ + amount ELSE MaxZero(@ - amount)]
  /\ UNCHANGED <<inv, pay, memo, order, creditBalance, creditApplied,
                 creditDisbursed, closed>>

Drift(c) == currentBalance[c] - OpenTotal(c)

(* Mutant: a balance below the invoices' total is not noticed. *)
DriftsAbove(c) == Drift(c) > 1
Drifts(c)      == Drift(c) > 1 \/ Drift(c) < -1

(* run_ar_balance_reconciliation, nightly: a drift of more than a cent is  *)
(* reported and the balance overwritten with the computed total.           *)
Sweep(c) ==
  /\ Drifts(c)
  /\ currentBalance' = [currentBalance EXCEPT ![c] = OpenTotal(c)]
  /\ UNCHANGED <<inv, pay, memo, order, creditBalance, creditApplied,
                 creditDisbursed, closed>>
-----------------------------------------------------------------------------
(* Journal entries and the period lock *)

(* apply_discounted_payment: a posted entry beside the payment's own.  The *)
(* payment's state is not looked at and the reference is overwritten.      *)
ApplyDiscount(p) ==
  /\ pay[p].state # "none"
  /\ pay[p].state # "recorded" => "discount_undone" \in Acts
  /\ pay[p].discountEntry # "none" => "discount_twice" \in Acts
  /\ "draft" \in Booking
  /\ ~closed
  /\ pay' = [pay EXCEPT ![p] =
               [pay[p] EXCEPT !.stranded = @ \/ pay[p].discountEntry = "posted",
                         !.discountEntry = "posted"]]
  /\ UNCHANGED <<inv, memo, order, currentBalance, creditBalance,
                 creditApplied, creditDisbursed, closed>>

(* post_entry and reverse_entry of the journal routes. *)
Books(e, f) == /\ ~closed
               /\ \/ e = "draft" /\ f = "posted"
                  \/ e = "posted" /\ f = "reversed"
BookInvoiceEntry(i, f) ==
  /\ Books(inv[i].entry, f)
  /\ inv' = [inv EXCEPT ![i].entry = f]
  /\ UNCHANGED <<pay, memo, order, currentBalance, creditBalance,
                 creditApplied, creditDisbursed, closed>>
BookPaymentEntry(p, f) ==
  /\ \/ Books(pay[p].entry, f) /\ pay' = [pay EXCEPT ![p].entry = f]
     \/ Books(pay[p].discountEntry, f) /\ pay' = [pay EXCEPT ![p].discountEntry = f]
  /\ UNCHANGED <<inv, memo, order, currentBalance, creditBalance,
                 creditApplied, creditDisbursed, closed>>

(* PeriodLockService.lock_period and unlock_period. *)
LockPeriod ==
  /\ Lockable
  /\ closed' = ~closed
  /\ UNCHANGED <<inv, pay, memo, order, currentBalance, creditBalance,
                 creditApplied, creditDisbursed>>
-----------------------------------------------------------------------------
InvoiceStep ==
  \E i \in Invoices :
    \/ \E c \in Customers, o \in Orders \cup {NoOrder}, t \in Figures :
         CreateInvoice(i, c, o, t)
    \/ IssueInvoice(i) \/ VoidInvoice(i)
    \/ \E s \in {"sent", "partial", "paid", "void"} : PatchInvoice(i, s)
    \/ WriteOffInvoice(i) \/ ReinstateInvoice(i) \/ HonorDiscount(i)

MemoStep ==
  \E m \in Memos :
    \/ \E i \in Invoices, a \in Amounts : CreateCreditMemo(m, i, a)
    \/ VoidCreditMemo(m)

PaymentStep ==
  \E p \in Payments :
    \/ \E c \in Customers, t \in Figures, apps \in [Invoices -> Figures] :
         CreatePayment(p, c, t, apps)
    \/ \E c \in Customers, apps \in [Invoices -> Amounts \cup {0}] :
         ImportPayment(p, c, apps)
    \/ VoidPayment(p) \/ ReturnPayment(p)
    \/ \E i \in Invoices, a \in Amounts : MatchCashReceipt(p, i, a)

CustomerStep ==
  \E c \in Customers :
    \/ \E a \in Amounts : DisburseCredit(c, a)
    \/ \E i \in Invoices, a \in Amounts : ApplyCredit(c, i, a)
    \/ \E a \in Amounts, kind \in {"charge", "payment"} : AdjustBalance(c, kind, a)
    \/ Sweep(c)

LedgerStep ==
  \/ \E i \in Invoices, f \in EntryStatus : BookInvoiceEntry(i, f)
  \/ \E p \in Payments : ApplyDiscount(p) \/ \E f \in EntryStatus : BookPaymentEntry(p, f)
  \/ LockPeriod

Next == InvoiceStep \/ MemoStep \/ PaymentStep \/ CustomerStep \/ LedgerStep

Spec == Init /\ [][Next]_vars

(* The reconciliation is a nightly scheduled job. *)
FairSpec == Spec /\ \A c \in Customers : WF_vars(Sweep(c))
-----------------------------------------------------------------------------
(* Properties *)

(* The documents as the tables hold them.  credited and discount, like the *)
(* running balance, are not kept nonnegative by any guard of the code; the *)
(* amount written off and the credit pocket are, whatever is asked.  What  *)
(* an invoice was paid is, as long as no request carries less than zero.   *)
Money == IF "below_zero" \in Acts THEN Int ELSE Nat
InvoiceRecord ==
  [status : InvoiceStatus, customer : Customers \cup {NoCustomer},
   order : Orders \cup {NoOrder}, total : Money, paid : Money, credited : Int,
   writtenOff : Nat, discount : Int, entry : EntryStatus]
PaymentRecord ==
  [state : {"none", "recorded", "voided", "returned"},
   customer : Customers \cup {NoCustomer}, total : Money, apps : [Invoices -> Money],
   entry : EntryStatus, discountEntry : EntryStatus, stranded : BOOLEAN]
MemoRecord ==
  [state : {"none", "posted", "void"}, invoice : Invoices \cup {0}, amount : Nat]

TypeOK ==
  /\ inv \in [Invoices -> InvoiceRecord]
  /\ pay \in [Payments -> PaymentRecord]
  /\ memo \in [Memos -> MemoRecord]
  /\ order \in [Orders -> OrderStatus]
  /\ currentBalance \in [Customers -> Int]
  /\ creditBalance \in [Customers -> Nat]
  /\ creditApplied \in [Invoices -> Nat]
  /\ creditDisbursed \in [Customers -> Nat]
  /\ closed \in BOOLEAN

(* THE BALANCE LAW: a customer's running balance is the sum of what their  *)
(* receivable invoices still owe.  Every verb moves the balance and an     *)
(* invoice in the same call; one that moves only one of them breaks it.    *)
BalanceLaw == \A c \in Customers : currentBalance[c] = OpenTotal(c)

(* What the recorded payments apply to an invoice. *)
PaidByLive(i) == SumTo([p \in Payments |-> IF pay[p].state = "recorded"
                                           THEN pay[p].apps[i] ELSE 0], NumPayments)
(* What an invoice has been paid is backed by recorded payments, credit    *)
(* applied and the discount the invoice carries: undoing a payment takes   *)
(* back exactly what it paid.                                              *)
PaidIsBacked ==
  \A i \in Invoices : inv[i].paid = PaidByLive(i) + creditApplied[i] + inv[i].discount

(* What an invoice has been credited is the sum of its posted memos, and   *)
(* stays so behind voids, write-offs and reinstatements.                   *)
PostedMemos(i) == SumTo([m \in Memos |-> IF memo[m].state = "posted" /\ memo[m].invoice = i
                                         THEN memo[m].amount ELSE 0], NumMemos)
CreditedIsBacked == \A i \in Invoices : inv[i].credited = PostedMemos(i)

(* The credit pocket holds what recorded payments overpaid, less what was  *)
(* applied to the customer's invoices or disbursed: no credit is spent     *)
(* twice, and none survives the payment it came from.                      *)
PocketIn(c)  == SumTo([p \in Payments |->
                  IF pay[p].state = "recorded" /\ pay[p].customer = c /\ Overpaid(p) > 1
                  THEN Overpaid(p) ELSE 0], NumPayments)
PocketOut(c) == SumTo([i \in Invoices |-> IF inv[i].customer = c
                                          THEN creditApplied[i] ELSE 0], NumInvoices)
PocketLaw == \A c \in Customers :
               creditBalance[c] + PocketOut(c) + creditDisbursed[c] = PocketIn(c)

(* An invoice is never settled beyond its total. *)
NeverOverSettled == \A i \in Invoices : Balance(inv[i]) >= 0

(* A paid invoice owes nothing. *)
PaidMeansSettled == \A i \in Invoices : inv[i].status = "paid" => Balance(inv[i]) = 0

(* An invoice that was issued for something and owes nothing is paid or    *)
(* written off, however it was settled.                                    *)
SettledMeansPaid ==
  \A i \in Invoices :
    inv[i].total > 0 /\ Receivable(inv[i]) /\ Balance(inv[i]) = 0
      => inv[i].status \in {"paid", "write_off"}

(* No journal entry is left standing behind a voided invoice or an undone  *)
(* payment: each was voided if it was a draft and reversed if it had been  *)
(* posted, the discount entry included.                                    *)
LedgerFollows ==
  /\ \A i \in Invoices : inv[i].status = "void" => inv[i].entry \notin {"draft", "posted"}
  /\ \A p \in Payments : pay[p].state \in {"voided", "returned"} =>
       /\ {pay[p].entry, pay[p].discountEntry} \cap {"draft", "posted"} = {}
       /\ ~pay[p].stranded

(* While today's period is locked nothing is booked: an entry may only be  *)
(* voided in place.  Voiding a document whose entry is posted is refused.  *)
Untouched(e, f) == e = f \/ f = "voided"
ClosedPeriodFrozen ==
  [][closed => /\ \A i \in Invoices : Untouched(inv[i].entry, inv'[i].entry)
               /\ \A p \in Payments :
                    /\ Untouched(pay[p].entry, pay'[p].entry)
                    /\ Untouched(pay[p].discountEntry, pay'[p].discountEntry)]_vars

(* Nothing that happens later to a payment, a memo or a credit reaches an  *)
(* invoice that was voided.                                                *)
VoidedInvoiceUntouched ==
  [][\A i \in Invoices : inv[i].status = "void" => inv'[i] = inv[i]]_vars

(* The money kept of a customer: recorded payments less refunds.           *)
MoneyIn(c) == SumTo([p \in Payments |->
                IF pay[p].state = "recorded" /\ pay[p].customer = c
                THEN pay[p].total ELSE 0], NumPayments)
Cash == [c \in Customers |-> MoneyIn(c) - creditDisbursed[c]]

(* The ledger implements the plain account: every call, however many rows  *)
(* it touches, is one event of one customer, which moves the running       *)
(* balance, the pocket and the money taken in by matching amounts and      *)
(* leaves neither balance nor pocket below zero.                           *)
Accounts == INSTANCE CustomerAccounts
              WITH owed <- currentBalance, credit <- creditBalance, cash <- Cash
KeepsAccounts == Accounts!Spec

(* The nightly reconciliation brings a drifted balance back to the sum of  *)
(* the open invoices, whatever made it drift.                              *)
DriftIsCorrected ==
  \A c \in Customers : (Drift(c) > 1 \/ Drift(c) < -1) ~> (Drift(c) \in -1..1)
=============================================================================
