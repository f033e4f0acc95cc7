-------------------------- MODULE ReceivablesProofs --------------------------
(***************************************************************************)
(* Theorems about Receivables, for any numbers of invoices, payments and   *)
(* memos, any customers and any amounts.                                   *)
(***************************************************************************)
EXTENDS Receivables, SumsProofs

(* --- money ------------------------------------------------------------- *)

(* Money is the naturals, or the integers once "below_zero" may happen.    *)
LEMMA MoneyKinds == Money \in {Nat, Int}
BY DEF Money

LEMMA MoneyFacts ==
  /\ Nat \subseteq Money /\ Money \subseteq Int
  /\ \A a, b \in Money : a + b \in Money
<1>1. CASE Money = Nat BY <1>1
<1>2. CASE Money = Int BY <1>2
<1> QED BY <1>1, <1>2, MoneyKinds

LEMMA FiguresType == Figures \subseteq Money
<1>1. Amounts \subseteq Nat BY ReceivablesAssumption
<1>2. CASE "below_zero" \in Acts
  <2>1. Money = Int BY <1>2 DEF Money
  <2>2. \A a \in Amounts : a \in Int /\ -a \in Int BY <1>1
  <2>3. Figures = Amounts \cup {0} \cup {-a : a \in Amounts} BY <1>2 DEF Figures
  <2> QED BY <2>1, <2>2, <2>3
<1>3. CASE "below_zero" \notin Acts
  <2>1. Figures = Amounts \cup {0} BY <1>3 DEF Figures
  <2> QED BY <1>1, <2>1, MoneyFacts
<1> QED BY <1>2, <1>3

(* Without that call no request carries less than zero. *)
LEMMA NatMoney ==
  ASSUME "below_zero" \notin Acts
  PROVE  Money = Nat /\ Figures \subseteq Nat
<1>1. Money = Nat BY DEF Money
<1> QED BY <1>1, FiguresType

(* A sum of money is money. *)
LEMMA SumToMoney ==
  ASSUME NEW n \in Nat, NEW f \in [1..n -> Money]
  PROVE  SumTo(f, n) \in Money
<1>1. CASE Money = Nat BY <1>1, SumToNat
<1>2. CASE Money = Int BY <1>2, SumToInt
<1> QED BY <1>1, <1>2, MoneyKinds

(* --- types ------------------------------------------------------------- *)

LEMMA RecomputeType ==
  ASSUME NEW r \in InvoiceRecord
  PROVE  Recompute(r) \in InvoiceRecord
BY DEF Recompute, InvoiceRecord, InvoiceStatus

LEMMA BalanceInt ==
  ASSUME NEW r \in InvoiceRecord
  PROVE  Balance(r) \in Int
<1>1. r.total \in Int /\ r.paid \in Int BY MoneyFacts DEF InvoiceRecord
<1>2. r.credited \in Int /\ r.writtenOff \in Int BY DEF InvoiceRecord
<1> QED BY <1>1, <1>2 DEF Balance

LEMMA UndoneType ==
  ASSUME NEW e \in EntryStatus
  PROVE  Undone(e) \in EntryStatus
BY DEF Undone, EntryStatus

(* What a customer owes is an integer, whatever the invoices look like. *)
LEMMA OpenTotalInt ==
  ASSUME TypeOK, NEW c
  PROVE  OpenTotal(c) \in Int
<1>1. [i \in Invoices |-> Owed(i, c)] \in [1..NumInvoices -> Int]
  BY BalanceInt DEF TypeOK, Owed, Invoices
<1>2. NumInvoices \in Nat BY ReceivablesAssumption
<1> QED BY <1>1, <1>2, SumToInt DEF OpenTotal

LEMMA AppliedMoney ==
  ASSUME TypeOK, NEW p \in Payments
  PROVE  Applied(p) \in Money
<1>1. pay[p].apps \in [1..NumInvoices -> Money]
  BY DEF TypeOK, PaymentRecord, Invoices
<1>2. NumInvoices \in Nat BY ReceivablesAssumption
<1> QED BY <1>1, <1>2, SumToMoney DEF Applied

LEMMA AppliedNat ==
  ASSUME TypeOK, "below_zero" \notin Acts, NEW p \in Payments
  PROVE  Applied(p) \in Nat
BY AppliedMoney DEF Money

LEMMA CompletedType ==
  ASSUME TypeOK, NEW S
  PROVE  Completed(S) \in [Orders -> OrderStatus]
BY DEF TypeOK, Completed, OrderStatus

LEMMA ReduceARType ==
  ASSUME TypeOK, NEW c, NEW a \in Int, ReduceAR(c, a)
  PROVE  currentBalance' \in [Customers -> Int]
<1>1. currentBalance \in [Customers -> Int] BY DEF TypeOK
<1>2. currentBalance' = [currentBalance EXCEPT ![c] = currentBalance[c] - a]
  BY DEF ReduceAR
<1>3. CASE c \in Customers BY <1>1, <1>2, <1>3
<1>4. CASE c \notin Customers
  <2>1. currentBalance' = currentBalance BY <1>1, <1>2, <1>4, Zenon
  <2> QED BY <1>1, <2>1
<1> QED BY <1>3, <1>4

LEMMA TypeInit == Init => TypeOK
<1> SUFFICES ASSUME Init PROVE TypeOK OBVIOUS
<1>1. NoInvoice \in InvoiceRecord
  BY MoneyFacts DEF NoInvoice, NewInvoice, InvoiceRecord, InvoiceStatus, EntryStatus
<1>2. NoPayment \in PaymentRecord
  BY MoneyFacts DEF NoPayment, PaymentRecord, EntryStatus
<1>3. NoMemo \in MemoRecord
  BY DEF NoMemo, MemoRecord
<1>4. order \in [Orders -> OrderStatus]
  BY DEF Init, OrderStatus
<1>5. inv \in [Invoices -> InvoiceRecord] BY <1>1 DEF Init
<1>6. pay \in [Payments -> PaymentRecord] BY <1>2 DEF Init
<1>7. memo \in [Memos -> MemoRecord] BY <1>3 DEF Init
<1>8. /\ currentBalance \in [Customers -> Int]
      /\ creditBalance \in [Customers -> Nat]
      /\ creditApplied \in [Invoices -> Nat]
      /\ creditDisbursed \in [Customers -> Nat]
  BY DEF Init
<1>9. closed \in BOOLEAN BY DEF Init
<1> QED BY <1>4, <1>5, <1>6, <1>7, <1>8, <1>9 DEF TypeOK

LEMMA CreateInvoiceType ==
  ASSUME TypeOK, NEW i \in Invoices, NEW c \in Customers,
         NEW o \in Orders \cup {NoOrder}, NEW t \in Figures, CreateInvoice(i, c, o, t)
  PROVE  TypeOK'
<1>1. NewInvoice(c, o, t) \in InvoiceRecord
  BY MoneyFacts, FiguresType DEF NewInvoice, InvoiceRecord, InvoiceStatus, EntryStatus
<1>2. inv' \in [Invoices -> InvoiceRecord]
  BY <1>1 DEF TypeOK, CreateInvoice
<1> QED BY <1>2 DEF TypeOK, CreateInvoice

LEMMA IssueInvoiceType ==
  ASSUME TypeOK, NEW i \in Invoices, IssueInvoice(i)
  PROVE  TypeOK'
<1>1. PICK e \in EntryStatus :
        inv' = [inv EXCEPT ![i] = [inv[i] EXCEPT !.status = "sent", !.entry = e]]
  BY ReceivablesAssumption DEF IssueInvoice, EntryStatus
<1>2. inv' \in [Invoices -> InvoiceRecord]
  <2>1. inv \in [Invoices -> InvoiceRecord] /\ inv[i] \in InvoiceRecord
    BY DEF TypeOK
  <2>2. [inv[i] EXCEPT !.status = "sent", !.entry = e] \in InvoiceRecord
    BY <1>1, <2>1 DEF InvoiceRecord, InvoiceStatus
  <2> QED BY <1>1, <2>1, <2>2
<1>3. currentBalance' \in [Customers -> Int]
  <2>1. inv[i].total \in Int BY MoneyFacts DEF TypeOK, InvoiceRecord
  <2>2. ReduceAR(inv[i].customer, -inv[i].total) BY DEF IssueInvoice
  <2> QED BY <2>1, <2>2, ReduceARType
<1> QED BY <1>2, <1>3 DEF TypeOK, IssueInvoice

LEMMA PatchInvoiceType ==
  ASSUME TypeOK, NEW i \in Invoices, NEW s \in InvoiceStatus, PatchInvoice(i, s)
  PROVE  TypeOK'
<1>1. inv' \in [Invoices -> InvoiceRecord]
  BY DEF TypeOK, PatchInvoice, InvoiceRecord
<1> QED BY <1>1 DEF TypeOK, PatchInvoice

LEMMA VoidInvoiceType ==
  ASSUME TypeOK, NEW i \in Invoices, VoidInvoice(i)
  PROVE  TypeOK'
<1>1. inv[i] \in InvoiceRecord BY DEF TypeOK
<1>2. Undone(inv[i].entry) \in EntryStatus
  BY <1>1, UndoneType DEF InvoiceRecord
<1>3. inv' \in [Invoices -> InvoiceRecord]
  <2>1. [inv[i] EXCEPT !.status = "void", !.entry = Undone(@)] \in InvoiceRecord
    BY <1>1, <1>2 DEF InvoiceRecord, InvoiceStatus
  <2> QED BY <2>1 DEF TypeOK, VoidInvoice
<1>4. currentBalance' \in [Customers -> Int]
  <2>1. CASE inv[i].status = "draft" BY <2>1 DEF VoidInvoice, TypeOK
  <2>2. CASE inv[i].status # "draft"
    <3>1. ReduceAR(inv[i].customer, Balance(inv[i])) BY <2>2 DEF VoidInvoice
    <3> QED BY <1>1, <3>1, BalanceInt, ReduceARType
  <2> QED BY <2>1, <2>2
<1> QED BY <1>3, <1>4 DEF TypeOK, VoidInvoice

LEMMA WriteOffInvoiceType ==
  ASSUME TypeOK, NEW i \in Invoices, WriteOffInvoice(i)
  PROVE  TypeOK'
<1>1. Balance(inv[i]) \in Nat
  BY BalanceInt DEF TypeOK, WriteOffInvoice
<1>2. inv' \in [Invoices -> InvoiceRecord]
  <2>1. inv \in [Invoices -> InvoiceRecord] /\ inv[i] \in InvoiceRecord
    BY DEF TypeOK
  <2> QED BY <1>1, <2>1 DEF WriteOffInvoice, InvoiceRecord, InvoiceStatus
<1>3. currentBalance' \in [Customers -> Int]
  BY <1>1, ReduceARType DEF WriteOffInvoice
<1> QED BY <1>2, <1>3 DEF TypeOK, WriteOffInvoice

LEMMA ReinstateInvoiceType ==
  ASSUME TypeOK, NEW i \in Invoices, ReinstateInvoice(i)
  PROVE  TypeOK'
<1>1. [inv[i] EXCEPT !.writtenOff = 0, !.status = "sent"] \in InvoiceRecord
  BY DEF TypeOK, InvoiceRecord, InvoiceStatus
<1>2. inv' \in [Invoices -> InvoiceRecord]
  BY <1>1, RecomputeType DEF TypeOK, ReinstateInvoice
<1>3. currentBalance' \in [Customers -> Int]
  <2>1. -inv[i].writtenOff \in Int BY DEF TypeOK, InvoiceRecord
  <2> QED BY <2>1, ReduceARType DEF ReinstateInvoice
<1> QED BY <1>2, <1>3 DEF TypeOK, ReinstateInvoice

LEMMA HonorDiscountType ==
  ASSUME TypeOK, NEW i \in Invoices, HonorDiscount(i)
  PROVE  TypeOK'
<1>1. inv[i] \in InvoiceRecord BY DEF TypeOK
<1>2. inv[i].total - inv[i].paid \in Int /\ inv[i].total \in Money
  <2>1. inv[i].total \in Money /\ inv[i].paid \in Money BY <1>1 DEF InvoiceRecord
  <2>2. inv[i].total \in Int /\ inv[i].paid \in Int BY <2>1, MoneyFacts
  <2> QED BY <2>1, <2>2
<1>3. inv' \in [Invoices -> InvoiceRecord]
  <2>1. inv \in [Invoices -> InvoiceRecord] /\ inv[i] \in InvoiceRecord
    BY DEF TypeOK
  <2> QED BY <1>2, <2>1 DEF HonorDiscount, InvoiceRecord, InvoiceStatus
<1>4. currentBalance' \in [Customers -> Int]
  BY <1>2, ReduceARType DEF HonorDiscount
<1> QED BY <1>3, <1>4 DEF TypeOK, HonorDiscount

LEMMA CreateCreditMemoType ==
  ASSUME TypeOK, NEW m \in Memos, NEW i \in Invoices, NEW a \in Amounts,
         CreateCreditMemo(m, i, a)
  PROVE  TypeOK'
<1>1. a \in Nat BY ReceivablesAssumption
<1>2. memo' \in [Memos -> MemoRecord]
  BY <1>1 DEF TypeOK, CreateCreditMemo, MemoRecord
<1>3. [inv[i] EXCEPT !.credited = @ + a] \in InvoiceRecord
  BY <1>1 DEF TypeOK, InvoiceRecord
<1>4. inv' \in [Invoices -> InvoiceRecord]
  <2> DEFINE r == [inv[i] EXCEPT !.credited = @ + a]
  <2>1. inv' = [inv EXCEPT ![i] = Recompute(r)] BY DEF CreateCreditMemo
  <2>2. Recompute(r) \in InvoiceRecord BY <1>3, RecomputeType
  <2> HIDE DEF r
  <2> QED BY <2>1, <2>2 DEF TypeOK
<1>5. currentBalance' \in [Customers -> Int]
  BY <1>1, ReduceARType DEF CreateCreditMemo
<1> QED BY <1>2, <1>4, <1>5 DEF TypeOK, CreateCreditMemo

LEMMA VoidCreditMemoType ==
  ASSUME TypeOK, NEW m \in Memos, VoidCreditMemo(m)
  PROVE  TypeOK'
<1> DEFINE i == memo[m].invoice
           r == [inv[i] EXCEPT !.credited = @ - memo[m].amount]
<1>1. memo[m] \in MemoRecord /\ memo[m].amount \in Nat BY DEF TypeOK, MemoRecord
<1>2. memo' \in [Memos -> MemoRecord]
  BY DEF TypeOK, VoidCreditMemo, MemoRecord
<1>3. inv' = [inv EXCEPT ![i] = Recompute(r)]
  BY DEF VoidCreditMemo
<1>4. inv' \in [Invoices -> InvoiceRecord]
  <2>1. CASE i \in Invoices
    <3>0. inv \in [Invoices -> InvoiceRecord] /\ inv[i] \in InvoiceRecord
      BY <2>1 DEF TypeOK
    <3>1. r \in InvoiceRecord BY <1>1, <3>0 DEF InvoiceRecord
    <3> HIDE DEF r
    <3> QED BY <1>3, <2>1, <3>0, <3>1, RecomputeType
  <2>2. CASE i \notin Invoices
    <3> HIDE DEF r
    <3>1. inv' = inv BY <1>3, <2>2, Zenon DEF TypeOK
    <3> QED BY <3>1 DEF TypeOK
  <2> QED BY <2>1, <2>2
<1>5. currentBalance' \in [Customers -> Int]
  <2>1. -memo[m].amount \in Int BY <1>1
  <2> QED BY <2>1, ReduceARType DEF VoidCreditMemo
<1> QED BY <1>2, <1>4, <1>5 DEF TypeOK, VoidCreditMemo

LEMMA PaidType ==
  ASSUME NEW r \in InvoiceRecord, NEW a \in Money
  PROVE  Paid(r, a) \in InvoiceRecord
<1>1. r.paid + a \in Money BY MoneyFacts DEF InvoiceRecord
<1> DEFINE s == IF r.paid + a >= r.total THEN "paid"
                ELSE IF r.paid + a > 0 THEN "partial" ELSE r.status
<1>2. s \in InvoiceStatus BY DEF InvoiceStatus, InvoiceRecord
<1>3. Paid(r, a) = [r EXCEPT !.paid = r.paid + a, !.status = s] BY DEF Paid
<1> HIDE DEF s
<1> QED BY <1>1, <1>2, <1>3 DEF InvoiceRecord

LEMMA UnpaidType ==
  ASSUME NEW r \in InvoiceRecord, NEW a \in Money
  PROVE  Unpaid(r, a) \in InvoiceRecord
<1>1. [r EXCEPT !.paid = MaxZero(@ - a), !.discount = 0] \in InvoiceRecord
  <2> DEFINE v == MaxZero(r.paid - a)
  <2>1. v \in Money
    <3>1. r.paid \in Int /\ a \in Int BY MoneyFacts DEF InvoiceRecord
    <3>2. v \in Nat BY <3>1 DEF MaxZero
    <3> QED BY <3>2, MoneyFacts
  <2> HIDE DEF v
  <2> DEFINE z == 0
  <2>2. z \in Int OBVIOUS
  <2> HIDE DEF z
  <2>3. [r EXCEPT !.paid = v, !.discount = z] \in InvoiceRecord
    BY <2>1, <2>2 DEF InvoiceRecord
  <2> QED BY <2>3 DEF v, z
<1> QED BY <1>1, RecomputeType DEF Unpaid

LEMMA CreatePaymentType ==
  ASSUME TypeOK, NEW p \in Payments, NEW c \in Customers, NEW t \in Figures,
         NEW apps \in [Invoices -> Figures], CreatePayment(p, c, t, apps)
  PROVE  TypeOK'
<1> DEFINE applied == SumTo(apps, NumInvoices)
<1>1. apps \in [Invoices -> Money] /\ t \in Money BY FiguresType
<1>2. applied \in Money
  BY <1>1, ReceivablesAssumption, SumToMoney DEF Invoices
<1>8. applied \in Int /\ t \in Int BY <1>1, <1>2, MoneyFacts
<1>3. pay' \in [Payments -> PaymentRecord]
  <2>1. PICK e \in Booking :
          pay' = [pay EXCEPT ![p] = [NoPayment EXCEPT
                    !.state = "recorded", !.customer = c, !.total = t,
                    !.apps = apps, !.entry = e]]
    BY DEF CreatePayment
  <2>2. [NoPayment EXCEPT !.state = "recorded", !.customer = c, !.total = t,
                          !.apps = apps, !.entry = e] \in PaymentRecord
    BY <1>1, <2>1, ReceivablesAssumption DEF NoPayment, PaymentRecord, EntryStatus
  <2> QED BY <2>1, <2>2 DEF TypeOK
<1>4. inv' \in [Invoices -> InvoiceRecord]
  <2>1. \A i \in Invoices : Paid(inv[i], apps[i]) \in InvoiceRecord
    BY <1>1, PaidType DEF TypeOK
  <2> QED BY <2>1 DEF CreatePayment, TypeOK
<1>5. order' \in [Orders -> OrderStatus]
  BY CompletedType DEF CreatePayment
<1>6. currentBalance' \in [Customers -> Int]
  BY <1>8, ReduceARType DEF CreatePayment
<1>7. creditBalance' \in [Customers -> Nat]
  <2>1. PICK credit \in Pocketed(t - applied) :
          creditBalance' = [creditBalance EXCEPT ![c] = @ + credit]
    BY DEF CreatePayment
  <2>2. applied <= t BY DEF CreatePayment
  <2>3. credit \in Nat
    <3> HIDE DEF applied
    <3> QED BY <1>8, <2>1, <2>2 DEF Pocketed
  <2> QED BY <2>1, <2>3 DEF TypeOK
<1> QED BY <1>3, <1>4, <1>5, <1>6, <1>7 DEF TypeOK, CreatePayment

LEMMA ImportPaymentType ==
  ASSUME TypeOK, NEW p \in Payments, NEW c \in Customers,
         NEW apps \in [Invoices -> Amounts \cup {0}], ImportPayment(p, c, apps)
  PROVE  TypeOK'
<1> DEFINE applied == SumTo(apps, NumInvoices)
<1>1. apps \in [Invoices -> Nat]
  <2>1. Amounts \cup {0} \subseteq Nat BY ReceivablesAssumption
  <2> QED BY <2>1
<1>2. applied \in Nat
  BY <1>1, ReceivablesAssumption, SumToNat DEF Invoices
<1>3. pay' \in [Payments -> PaymentRecord]
  <2> DEFINE r == [NoPayment EXCEPT !.state = "recorded", !.customer = c,
                                    !.total = applied, !.apps = apps]
  <2>1. pay' = [pay EXCEPT ![p] = r] BY DEF ImportPayment
  <2> HIDE DEF applied
  <2>2. r \in PaymentRecord
    BY <1>1, <1>2, MoneyFacts DEF NoPayment, PaymentRecord, EntryStatus
  <2> HIDE DEF r
  <2> QED BY <2>1, <2>2 DEF TypeOK
<1>4. inv' \in [Invoices -> InvoiceRecord]
  <2>1. \A i \in Invoices : Paid(inv[i], apps[i]) \in InvoiceRecord
    BY <1>1, MoneyFacts, PaidType DEF TypeOK
  <2> QED BY <2>1 DEF ImportPayment, TypeOK
<1>5. currentBalance' \in [Customers -> Int]
  BY <1>2, ReduceARType DEF ImportPayment
<1> QED BY <1>3, <1>4, <1>5 DEF TypeOK, ImportPayment

LEMMA UnwindType ==
  ASSUME TypeOK, NEW p \in Payments, NEW s \in {"voided", "returned"}, Unwind(p, s)
  PROVE  TypeOK'
<1>1. pay[p] \in PaymentRecord BY DEF TypeOK
<1>2. Applied(p) \in Int /\ pay[p].total \in Int
  BY <1>1, AppliedMoney, MoneyFacts DEF PaymentRecord
<1>3. pay' \in [Payments -> PaymentRecord]
  <2>1. /\ Undone(pay[p].entry) \in EntryStatus
        /\ Undone(pay[p].discountEntry) \in EntryStatus
    BY <1>1, UndoneType DEF PaymentRecord
  <2>2. [pay[p] EXCEPT !.state = s, !.entry = Undone(@),
                       !.discountEntry = Undone(@)] \in PaymentRecord
    BY <1>1, <2>1 DEF PaymentRecord
  <2> QED BY <2>2 DEF TypeOK, Unwind
<1>4. inv' \in [Invoices -> InvoiceRecord]
  <2>1. \A i \in Invoices : Unpaid(inv[i], pay[p].apps[i]) \in InvoiceRecord
    BY <1>1, UnpaidType DEF TypeOK, PaymentRecord
  <2> QED BY <2>1 DEF Unwind, TypeOK
<1>5. currentBalance' \in [Customers -> Int]
  <2>1. -Applied(p) \in Int BY <1>2
  <2> QED BY <2>1, ReduceARType DEF Unwind
<1>6. creditBalance' \in [Customers -> Nat]
  <2> DEFINE c == pay[p].customer
  <2>1. creditBalance' =
          [creditBalance EXCEPT ![c] = IF Overpaid(p) > 1 THEN @ - Overpaid(p) ELSE @]
    BY DEF Unwind
  <2>2. Overpaid(p) \in Int BY <1>2 DEF Overpaid
  <2>3. Overpaid(p) > 1 => creditBalance[c] >= Overpaid(p)
    BY DEF Unwind, PocketHolds
  <2>4. creditBalance \in [Customers -> Nat] BY DEF TypeOK
  <2> HIDE DEF c
  <2>5. CASE c \in Customers BY <2>1, <2>2, <2>3, <2>4, <2>5
  <2>6. CASE c \notin Customers
    <3>1. creditBalance' = creditBalance BY <2>1, <2>4, <2>6, Zenon
    <3> QED BY <2>4, <3>1
  <2> QED BY <2>5, <2>6
<1> QED BY <1>3, <1>4, <1>5, <1>6 DEF TypeOK, Unwind

LEMMA ApplyCreditType ==
  ASSUME TypeOK, NEW c \in Customers, NEW i \in Invoices, NEW a \in Amounts,
         ApplyCredit(c, i, a)
  PROVE  TypeOK'
<1>1. a \in Nat BY ReceivablesAssumption
<1>2. inv' \in [Invoices -> InvoiceRecord]
  <2>1. [inv[i] EXCEPT !.paid = @ + a] \in InvoiceRecord
    BY <1>1, MoneyFacts DEF TypeOK, InvoiceRecord
  <2>2. Recompute([inv[i] EXCEPT !.paid = @ + a]) \in InvoiceRecord
    BY <2>1, RecomputeType
  <2> QED BY <2>2 DEF TypeOK, ApplyCredit
<1>3. order' \in [Orders -> OrderStatus] BY CompletedType DEF ApplyCredit
<1>4. currentBalance' \in [Customers -> Int]
  BY <1>1, ReduceARType DEF ApplyCredit
<1>5. creditBalance' \in [Customers -> Nat] /\ creditApplied' \in [Invoices -> Nat]
  BY <1>1 DEF TypeOK, ApplyCredit
<1> QED BY <1>2, <1>3, <1>4, <1>5 DEF TypeOK, ApplyCredit

LEMMA DisburseCreditType ==
  ASSUME TypeOK, NEW c \in Customers, NEW a \in Amounts, DisburseCredit(c, a)
  PROVE  TypeOK'
<1>1. a \in Nat BY ReceivablesAssumption
<1>2. creditBalance' \in [Customers -> Nat] /\ creditDisbursed' \in [Customers -> Nat]
  BY <1>1 DEF TypeOK, DisburseCredit
<1> QED BY <1>2 DEF TypeOK, DisburseCredit

LEMMA MatchCashReceiptType ==
  ASSUME TypeOK, NEW p \in Payments, NEW i \in Invoices, NEW a \in Amounts,
         MatchCashReceipt(p, i, a)
  PROVE  TypeOK'
<1>1. a \in Nat BY ReceivablesAssumption
<1>2. pay' \in [Payments -> PaymentRecord]
  <2>1. pay[p].apps \in [Invoices -> Money] /\ pay[p] \in PaymentRecord
    BY DEF TypeOK, PaymentRecord
  <2>2. [pay[p].apps EXCEPT ![i] = @ + a] \in [Invoices -> Money] BY <1>1, <2>1, MoneyFacts
  <2>3. [pay[p] EXCEPT !.apps = [pay[p].apps EXCEPT ![i] = @ + a]] \in PaymentRecord
    BY <2>1, <2>2 DEF PaymentRecord
  <2>4. pay' = [pay EXCEPT ![p] =
                  [pay[p] EXCEPT !.apps = [pay[p].apps EXCEPT ![i] = @ + a]]]
    BY DEF MatchCashReceipt
  <2> QED BY <2>3, <2>4 DEF TypeOK
<1>3. inv' \in [Invoices -> InvoiceRecord]
  <2> DEFINE s == IF inv[i].paid + a >= inv[i].total THEN "paid" ELSE inv[i].status
             r == [inv[i] EXCEPT !.paid = inv[i].paid + a, !.status = s]
  <2>1. inv[i] \in InvoiceRecord /\ inv[i].paid + a \in Money /\ inv[i].status \in InvoiceStatus
    BY <1>1, MoneyFacts DEF TypeOK, InvoiceRecord
  <2>2. s \in InvoiceStatus BY <2>1 DEF InvoiceStatus
  <2>3. inv' = [inv EXCEPT ![i] = r] BY DEF MatchCashReceipt
  <2> HIDE DEF s
  <2>4. r \in InvoiceRecord BY <2>1, <2>2 DEF InvoiceRecord
  <2> HIDE DEF r
  <2> QED BY <2>3, <2>4 DEF TypeOK
<1> QED BY <1>2, <1>3 DEF TypeOK, MatchCashReceipt

LEMMA AdjustBalanceType ==
  ASSUME TypeOK, NEW c \in Customers, NEW kind, NEW a \in Amounts,
         AdjustBalance(c, kind, a)
  PROVE  TypeOK'
<1>1. a \in Nat BY ReceivablesAssumption
<1>2. currentBalance' \in [Customers -> Int]
  BY <1>1 DEF TypeOK, AdjustBalance, MaxZero
<1> QED BY <1>2 DEF TypeOK, AdjustBalance

LEMMA SweepType ==
  ASSUME TypeOK, NEW c \in Customers, Sweep(c)
  PROVE  TypeOK'
<1>1. OpenTotal(c) \in Int BY OpenTotalInt
<1>2. currentBalance' \in [Customers -> Int]
  BY <1>1 DEF TypeOK, Sweep
<1> QED BY <1>2 DEF TypeOK, Sweep

LEMMA LedgerStepType ==
  ASSUME TypeOK, LedgerStep
  PROVE  TypeOK'
<1>1. ASSUME NEW i \in Invoices, NEW f \in EntryStatus, BookInvoiceEntry(i, f)
      PROVE  TypeOK'
  <2>1. inv' \in [Invoices -> InvoiceRecord]
    BY <1>1 DEF TypeOK, InvoiceRecord, BookInvoiceEntry
  <2> QED BY <1>1, <2>1 DEF TypeOK, BookInvoiceEntry
<1>2. ASSUME NEW p \in Payments, ApplyDiscount(p)
      PROVE  TypeOK'
  <2>1. pay' \in [Payments -> PaymentRecord]
    <3>1. pay \in [Payments -> PaymentRecord] /\ pay[p] \in PaymentRecord
      BY DEF TypeOK
    <3> QED BY <1>2, <3>1 DEF PaymentRecord, EntryStatus, ApplyDiscount
  <2> QED BY <1>2, <2>1 DEF TypeOK, ApplyDiscount
<1>3. ASSUME NEW p \in Payments, NEW f \in EntryStatus, BookPaymentEntry(p, f)
      PROVE  TypeOK'
  <2>1. pay' \in [Payments -> PaymentRecord]
    <3>1. CASE pay' = [pay EXCEPT ![p].entry = f]
      BY <1>3, <3>1 DEF TypeOK, PaymentRecord
    <3>2. CASE pay' = [pay EXCEPT ![p].discountEntry = f]
      BY <1>3, <3>2 DEF TypeOK, PaymentRecord
    <3> QED BY <1>3, <3>1, <3>2 DEF BookPaymentEntry
  <2> QED BY <1>3, <2>1 DEF TypeOK, BookPaymentEntry
<1>4. ASSUME LockPeriod PROVE TypeOK'
  BY <1>4 DEF TypeOK, LockPeriod
<1> QED BY <1>1, <1>2, <1>3, <1>4 DEF LedgerStep

LEMMA TypeStep ==
  ASSUME TypeOK, Next
  PROVE  TypeOK'
<1>1. CASE InvoiceStep
  BY <1>1, CreateInvoiceType, IssueInvoiceType, PatchInvoiceType, VoidInvoiceType,
     WriteOffInvoiceType, ReinstateInvoiceType, HonorDiscountType
  DEF InvoiceStep, InvoiceStatus
<1>2. CASE MemoStep
  BY <1>2, CreateCreditMemoType, VoidCreditMemoType DEF MemoStep
<1>3. CASE PaymentStep
  BY <1>3, CreatePaymentType, ImportPaymentType, UnwindType, MatchCashReceiptType
  DEF PaymentStep, VoidPayment, ReturnPayment
<1>4. CASE CustomerStep
  BY <1>4, DisburseCreditType, ApplyCreditType, AdjustBalanceType, SweepType
  DEF CustomerStep
<1>5. CASE LedgerStep
  BY <1>5, LedgerStepType
<1> QED BY <1>1, <1>2, <1>3, <1>4, <1>5 DEF Next

(* Every table keeps its shape whatever calls arrive, the questionable     *)
(* ones included: in particular no sequence of payments, credits and       *)
(* unwindings drives a credit pocket below zero (_unwind_payment and the   *)
(* pocket's two doors check it before they take from it).                  *)
THEOREM TypeCorrect == Spec => []TypeOK
<1>1. TypeOK /\ UNCHANGED vars => TypeOK'
  BY DEF TypeOK, vars
<1> QED BY TypeInit, TypeStep, <1>1, PTL DEF Spec

=============================================================================
