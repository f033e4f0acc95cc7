--------------------------- MODULE SettlementProofs ---------------------------
(***************************************************************************)
(* What Receivables keeps of its settlements: what an invoice was paid and *)
(* credited and what a credit pocket holds is backed, after any sequence   *)
(* of calls, by the payments and memos that stand, and no invoice is       *)
(* settled beyond its total.                                               *)
(***************************************************************************)
EXTENDS BalanceProofs

(* --- how one step moves the amounts of an invoice ---------------------- *)

(* A row is opened; or it stays with its customer and exists from then on. *)
Opens(r, s) == r.status = "none" /\ s.status = "draft"
               /\ s.paid = 0 /\ s.credited = 0 /\ s.discount = 0
Same(r, s)  == s.customer = r.customer /\ (s.status = "none" => r.status = "none")

SamePaid(r, s)     == s.paid = r.paid /\ s.discount = r.discount
SameCredited(r, s) == s.credited = r.credited

Honors == {"honor_discount", "honor_ineligible"}

LEMMA RecomputeKeeps ==
  ASSUME NEW q \in InvoiceRecord
  PROVE  LET s == Recompute(q) IN
         /\ s.customer = q.customer /\ s.total = q.total /\ s.paid = q.paid
         /\ s.credited = q.credited /\ s.writtenOff = q.writtenOff
         /\ s.discount = q.discount
         /\ s.status = "none" => q.status = "none"
         /\ Balance(s) = Balance(q)
         /\ s.status = "paid" => Balance(s) <= 0
<1> DEFINE s == Recompute(q)
<1>1. /\ s.customer = q.customer /\ s.total = q.total /\ s.paid = q.paid
      /\ s.credited = q.credited /\ s.writtenOff = q.writtenOff
      /\ s.discount = q.discount
  BY DEF Recompute, InvoiceRecord
<1>2. s.status = IF q.status \in {"draft", "void", "write_off"} THEN q.status
                 ELSE IF Balance(q) <= 0 THEN "paid"
                 ELSE IF q.paid > 0 \/ q.credited > 0 THEN "partial" ELSE "sent"
  BY DEF Recompute, InvoiceRecord
<1> HIDE DEF s
<1>3. Balance(s) = Balance(q) BY <1>1 DEF Balance
<1>4. /\ s.status = "none" => q.status = "none"
      /\ s.status = "paid" => Balance(s) <= 0
  BY <1>2, <1>3
<1> QED BY <1>1, <1>3, <1>4 DEF s

LEMMA PaidKeeps ==
  ASSUME NEW r \in InvoiceRecord, NEW a \in Money
  PROVE  LET s == Paid(r, a) IN
         /\ s.customer = r.customer /\ s.credited = r.credited /\ s.discount = r.discount
         /\ s.writtenOff = r.writtenOff /\ s.total = r.total
         /\ s.paid = r.paid + a
         /\ s.status = "none" => r.status = "none"
         /\ Money = Nat /\ a > 0 /\ s.status = "paid" => r.paid + a >= r.total
<1> DEFINE s == Paid(r, a)
<1>1. /\ s.customer = r.customer /\ s.credited = r.credited /\ s.discount = r.discount
      /\ s.writtenOff = r.writtenOff /\ s.total = r.total
      /\ s.paid = r.paid + a
      /\ s.status = IF r.paid + a >= r.total THEN "paid"
                    ELSE IF r.paid + a > 0 THEN "partial" ELSE r.status
  BY DEF Paid, InvoiceRecord
<1> HIDE DEF s
<1>2. Money = Nat /\ a > 0 => r.paid + a > 0 BY DEF InvoiceRecord
<1>3. /\ s.status = "none" => r.status = "none"
      /\ Money = Nat /\ a > 0 /\ s.status = "paid" => r.paid + a >= r.total
  BY <1>1, <1>2
<1> QED BY <1>1, <1>3 DEF s

LEMMA UnpaidKeeps ==
  ASSUME NEW r \in InvoiceRecord, NEW a \in Money
  PROVE  LET s == Unpaid(r, a) IN
         /\ s.customer = r.customer /\ s.credited = r.credited /\ s.discount = 0
         /\ s.paid = MaxZero(r.paid - a)
         /\ s.status = "none" => r.status = "none"
         /\ Money = Nat => s.paid <= r.paid /\ Balance(s) >= Balance(r)
         /\ s.status = "paid" => Balance(s) <= 0
<1> DEFINE v == MaxZero(r.paid - a)
           z == 0
           q == [r EXCEPT !.paid = v, !.discount = z]
<1>1. /\ r.paid \in Int /\ r.total \in Int /\ a \in Int
      /\ r.credited \in Int /\ r.writtenOff \in Int
  BY MoneyFacts DEF InvoiceRecord
<1>2. v \in Nat /\ v \in Money /\ (Money = Nat => v <= r.paid)
  <2>1. v \in Nat BY <1>1 DEF MaxZero
  <2>2. Money = Nat => v <= r.paid BY <1>1 DEF MaxZero, InvoiceRecord
  <2> QED BY <2>1, <2>2, MoneyFacts
<1>3. z \in Int OBVIOUS
<1>4. Unpaid(r, a) = Recompute(q) BY DEF Unpaid
<1> HIDE DEF v, z
<1>5. /\ q \in InvoiceRecord /\ q.customer = r.customer /\ q.status = r.status
      /\ q.paid = v /\ q.total = r.total /\ q.credited = r.credited
      /\ q.writtenOff = r.writtenOff /\ q.discount = z
  BY <1>2, <1>3 DEF InvoiceRecord
<1> HIDE DEF q
<1>6. Money = Nat => Balance(q) >= Balance(r) BY <1>1, <1>2, <1>5 DEF Balance
<1> DEFINE s == Recompute(q)
<1>7. /\ s.customer = q.customer /\ s.paid = q.paid /\ s.credited = q.credited
      /\ s.discount = q.discount
      /\ s.status = "none" => q.status = "none"
      /\ Balance(s) = Balance(q)
      /\ s.status = "paid" => Balance(s) <= 0
  BY <1>5, RecomputeKeeps
<1> HIDE DEF s
<1> QED BY <1>2, <1>4, <1>5, <1>6, <1>7 DEF s, v, z

(* --- the steps that touch neither payments, memos nor credit ------------ *)

(* The rows of such a step: what it keeps of the amounts. *)
Quiet(r, s) == \/ Opens(r, s)
               \/ Same(r, s) /\ SameCredited(r, s) /\ (SamePaid(r, s) \/ Acts \cap Honors # {})

LEMMA QuietStays ==
  ASSUME NEW r
  PROVE  Quiet(r, r)
BY DEF Quiet, Same, SameCredited, SamePaid

LEMMA QuietReplaced ==
  ASSUME TypeOK, NEW i \in Invoices, NEW r, inv' = [inv EXCEPT ![i] = r],
         Quiet(inv[i], r)
  PROVE  \A j \in Invoices : Quiet(inv[j], inv'[j])
<1> SUFFICES ASSUME NEW j \in Invoices PROVE Quiet(inv[j], inv'[j])
  OBVIOUS
<1>1. inv \in [Invoices -> InvoiceRecord] BY DEF TypeOK
<1>2. CASE j = i
  <2>1. inv'[j] = r BY <1>1, <1>2
  <2> QED BY <1>2, <2>1
<1>3. CASE j # i
  <2>1. inv'[j] = inv[j] BY <1>1, <1>3
  <2> QED BY <2>1, QuietStays
<1> QED BY <1>2, <1>3

LEMMA InvoiceStepQuiet ==
  ASSUME TypeOK, InvoiceStep
  PROVE  /\ \A j \in Invoices : Quiet(inv[j], inv'[j])
         /\ UNCHANGED <<pay, memo, creditBalance, creditApplied, creditDisbursed>>
<1>1. PICK i \in Invoices :
    \/ \E c \in Customers, o \in Orders \cup {NoOrder}, t \in Figures :
         CreateInvoice(i, c, o, t)
    \/ IssueInvoice(i) \/ VoidInvoice(i)
    \/ \E s \in {"sent", "partial", "paid", "void"} : PatchInvoice(i, s)
    \/ WriteOffInvoice(i) \/ ReinstateInvoice(i) \/ HonorDiscount(i)
  BY DEF InvoiceStep
<1>2. inv \in [Invoices -> InvoiceRecord] /\ inv[i] \in InvoiceRecord
  BY DEF TypeOK
<1>3. UNCHANGED <<pay, memo, creditBalance, creditApplied, creditDisbursed>>
  BY <1>1 DEF CreateInvoice, IssueInvoice, VoidInvoice, PatchInvoice, WriteOffInvoice,
              ReinstateInvoice, HonorDiscount
<1>4. \A j \in Invoices : Quiet(inv[j], inv'[j])
  <2>1. ASSUME NEW c \in Customers, NEW o \in Orders \cup {NoOrder}, NEW t \in Figures,
               CreateInvoice(i, c, o, t)
        PROVE  \A j \in Invoices : Quiet(inv[j], inv'[j])
    <3>1. Quiet(inv[i], NewInvoice(c, o, t))
      BY <2>1 DEF CreateInvoice, NewInvoice, Quiet, Opens
    <3> QED BY <2>1, <3>1, QuietReplaced DEF CreateInvoice
  <2>2. ASSUME NEW s \in InvoiceStatus \ {"none"}, NEW e, NEW r,
               r = [inv[i] EXCEPT !.status = s, !.entry = e] \/ r = [inv[i] EXCEPT !.status = s],
               inv' = [inv EXCEPT ![i] = r]
        PROVE  \A j \in Invoices : Quiet(inv[j], inv'[j])
    <3>1. /\ r.status = s /\ r.customer = inv[i].customer /\ r.credited = inv[i].credited
          /\ r.paid = inv[i].paid /\ r.discount = inv[i].discount
      BY <1>2, <2>2 DEF InvoiceRecord
    <3>2. Quiet(inv[i], r) BY <3>1 DEF Quiet, Same, SameCredited, SamePaid
    <3> QED BY <2>2, <3>2, QuietReplaced
  <2>3. CASE IssueInvoice(i)
    <3>1. PICK e : inv' = [inv EXCEPT ![i] = [inv[i] EXCEPT !.status = "sent", !.entry = e]]
      BY <2>3 DEF IssueInvoice
    <3>2. "sent" \in InvoiceStatus \ {"none"} BY DEF InvoiceStatus
    <3> QED BY <2>2, <3>1, <3>2
  <2>4. CASE VoidInvoice(i)
    <3>1. inv' = [inv EXCEPT ![i] = [inv[i] EXCEPT !.status = "void",
                                                   !.entry = Undone(inv[i].entry)]]
      BY <2>4 DEF VoidInvoice
    <3>2. "void" \in InvoiceStatus \ {"none"} BY DEF InvoiceStatus
    <3> QED BY <2>2, <3>1, <3>2
  <2>5. ASSUME NEW s \in {"sent", "partial", "paid", "void"}, PatchInvoice(i, s)
        PROVE  \A j \in Invoices : Quiet(inv[j], inv'[j])
    <3>1. inv' = [inv EXCEPT ![i] = [inv[i] EXCEPT !.status = s]] BY <2>5 DEF PatchInvoice
    <3>2. s \in InvoiceStatus \ {"none"} BY DEF InvoiceStatus
    <3> QED BY <2>2, <3>1, <3>2
  <2>6. CASE WriteOffInvoice(i)
    <3> DEFINE rest == Balance(inv[i])
               r == [inv[i] EXCEPT !.writtenOff = rest, !.status = "write_off"]
    <3>1. inv' = [inv EXCEPT ![i] = r] BY <2>6 DEF WriteOffInvoice
    <3> HIDE DEF rest
    <3>2. /\ r.status = "write_off" /\ r.customer = inv[i].customer
          /\ r.credited = inv[i].credited
          /\ r.paid = inv[i].paid /\ r.discount = inv[i].discount
      BY <1>2 DEF InvoiceRecord
    <3> HIDE DEF r
    <3>3. Quiet(inv[i], r) BY <3>2 DEF Quiet, Same, SameCredited, SamePaid
    <3> QED BY <3>1, <3>3, QuietReplaced
  <2>7. CASE ReinstateInvoice(i)
    <3> DEFINE q == [inv[i] EXCEPT !.writtenOff = 0, !.status = "sent"]
               s == Recompute(q)
    <3>1. inv' = [inv EXCEPT ![i] = s] BY <2>7 DEF ReinstateInvoice
    <3>2. /\ q \in InvoiceRecord /\ q.status = "sent" /\ q.customer = inv[i].customer
          /\ q.credited = inv[i].credited /\ q.paid = inv[i].paid
          /\ q.discount = inv[i].discount
      BY <1>2 DEF InvoiceRecord, InvoiceStatus
    <3> HIDE DEF q
    <3>3. /\ s.customer = q.customer /\ s.credited = q.credited /\ s.paid = q.paid
          /\ s.discount = q.discount /\ s.status # "none"
      BY <3>2, RecomputeKeeps
    <3> HIDE DEF s
    <3>4. Quiet(inv[i], s) BY <3>2, <3>3 DEF Quiet, Same, SameCredited, SamePaid
    <3> QED BY <3>1, <3>4, QuietReplaced
  <2>8. CASE HonorDiscount(i)
    <3> DEFINE d == inv[i].total - inv[i].paid
               t == inv[i].total
               r == [inv[i] EXCEPT !.discount = d, !.paid = t, !.status = "paid"]
    <3>1. inv' = [inv EXCEPT ![i] = r] /\ Acts \cap Honors # {}
      BY <2>8 DEF HonorDiscount, Honors
    <3> HIDE DEF d, t
    <3>2. /\ r.status = "paid" /\ r.customer = inv[i].customer
          /\ r.credited = inv[i].credited
      BY <1>2 DEF InvoiceRecord
    <3> HIDE DEF r
    <3>3. Quiet(inv[i], r) BY <3>1, <3>2 DEF Quiet, Same, SameCredited
    <3> QED BY <3>1, <3>3, QuietReplaced
  <2> QED BY <1>1, <2>1, <2>3, <2>4, <2>5, <2>6, <2>7, <2>8
<1> QED BY <1>3, <1>4

(* Of a payment the journal moves the entries only. *)
TotalsKept == PaymentsKept /\ \A p \in Payments : pay'[p].total = pay[p].total

LEMMA LedgerStepQuiet ==
  ASSUME TypeOK, LedgerStep
  PROVE  /\ \A j \in Invoices : Quiet(inv[j], inv'[j])
         /\ TotalsKept
         /\ UNCHANGED <<memo, creditBalance, creditApplied, creditDisbursed>>
<1>1. UNCHANGED <<memo, creditBalance, creditApplied, creditDisbursed>>
  BY DEF LedgerStep, BookInvoiceEntry, ApplyDiscount, BookPaymentEntry, LockPeriod
<1>2. ASSUME UNCHANGED pay PROVE TotalsKept
  BY <1>2 DEF TotalsKept, PaymentsKept
<1>3. ASSUME UNCHANGED inv PROVE \A j \in Invoices : Quiet(inv[j], inv'[j])
  BY <1>3, QuietStays
<1>4. ASSUME NEW i \in Invoices, NEW f \in EntryStatus, BookInvoiceEntry(i, f)
      PROVE  \A j \in Invoices : Quiet(inv[j], inv'[j])
  <2> DEFINE r == [inv[i] EXCEPT !.entry = f]
  <2>1. inv' = [inv EXCEPT ![i] = r] BY <1>4 DEF BookInvoiceEntry
  <2>2. /\ r.status = inv[i].status /\ r.customer = inv[i].customer
        /\ r.credited = inv[i].credited /\ r.paid = inv[i].paid
        /\ r.discount = inv[i].discount
    BY DEF TypeOK, InvoiceRecord
  <2> HIDE DEF r
  <2>3. Quiet(inv[i], r) BY <2>2 DEF Quiet, Same, SameCredited, SamePaid
  <2> QED BY <2>1, <2>3, QuietReplaced
<1>5. ASSUME NEW p \in Payments, NEW b, NEW e,
             \/ pay' = [pay EXCEPT ![p].entry = e]
             \/ pay' = [pay EXCEPT ![p].discountEntry = e]
             \/ pay' = [pay EXCEPT ![p] = [pay[p] EXCEPT !.stranded = b, !.discountEntry = e]]
      PROVE  TotalsKept
  <2> SUFFICES ASSUME NEW q \in Payments
      PROVE  /\ pay'[q].state = pay[q].state /\ pay'[q].apps = pay[q].apps
             /\ pay'[q].customer = pay[q].customer /\ pay'[q].total = pay[q].total
    BY DEF TotalsKept, PaymentsKept
  <2>1. pay \in [Payments -> PaymentRecord] BY DEF TypeOK
  <2>2. CASE pay' = [pay EXCEPT ![p].entry = e] BY <2>1, <2>2 DEF PaymentRecord
  <2>3. CASE pay' = [pay EXCEPT ![p].discountEntry = e] BY <2>1, <2>3 DEF PaymentRecord
  <2>4. CASE pay' = [pay EXCEPT ![p] = [pay[p] EXCEPT !.stranded = b, !.discountEntry = e]]
    BY <2>1, <2>4 DEF PaymentRecord
  <2> QED BY <1>5, <2>2, <2>3, <2>4
<1>6. ASSUME NEW p \in Payments, ApplyDiscount(p) PROVE TotalsKept
  <2>1. \E b : pay' = [pay EXCEPT ![p] = [pay[p] EXCEPT !.stranded = b,
                                                   !.discountEntry = "posted"]]
    BY <1>6 DEF ApplyDiscount
  <2> QED BY <1>5, <2>1
<1>7. ASSUME NEW p \in Payments, NEW f \in EntryStatus, BookPaymentEntry(p, f) PROVE TotalsKept
  <2>1. \/ pay' = [pay EXCEPT ![p].entry = f]
        \/ pay' = [pay EXCEPT ![p].discountEntry = f]
    BY <1>7 DEF BookPaymentEntry
  <2> QED BY <1>5, <2>1
<1>8. TotalsKept
  BY <1>2, <1>6, <1>7 DEF LedgerStep, BookInvoiceEntry, LockPeriod
<1>9. \A j \in Invoices : Quiet(inv[j], inv'[j])
  BY <1>3, <1>4 DEF LedgerStep, ApplyDiscount, BookPaymentEntry, LockPeriod
<1> QED BY <1>1, <1>8, <1>9

(* --- the steps that do ------------------------------------------------- *)

LEMMA CreateCreditMemoRows ==
  ASSUME TypeOK, NEW m \in Memos, NEW i \in Invoices, NEW a \in Amounts,
         CreateCreditMemo(m, i, a)
  PROVE  /\ \A j \in Invoices :
              /\ Same(inv[j], inv'[j]) /\ SamePaid(inv[j], inv'[j])
              /\ inv'[j].credited = inv[j].credited + (IF j = i THEN a ELSE 0)
         /\ inv[i].status # "none" /\ memo[m].state # "posted"
         /\ memo'[m] = [state |-> "posted", invoice |-> i, amount |-> a]
         /\ \A n \in Memos : n # m => memo'[n] = memo[n]
         /\ UNCHANGED <<pay, creditBalance, creditApplied, creditDisbursed>>
<1>1. inv \in [Invoices -> InvoiceRecord] /\ inv[i] \in InvoiceRecord /\ a \in Nat
  BY ReceivablesAssumption DEF TypeOK
<1> DEFINE q == [inv[i] EXCEPT !.credited = @ + a]
           s == Recompute(q)
<1>2. inv' = [inv EXCEPT ![i] = s] BY DEF CreateCreditMemo
<1>3. /\ q \in InvoiceRecord /\ q.status = inv[i].status /\ q.customer = inv[i].customer
      /\ q.credited = inv[i].credited + a /\ q.paid = inv[i].paid
      /\ q.discount = inv[i].discount
  BY <1>1 DEF InvoiceRecord
<1> HIDE DEF q
<1>4. /\ s.customer = q.customer /\ s.credited = q.credited /\ s.paid = q.paid
      /\ s.discount = q.discount /\ (s.status = "none" => q.status = "none")
  BY <1>3, RecomputeKeeps
<1> HIDE DEF s
<1>5. ASSUME NEW j \in Invoices
      PROVE  /\ Same(inv[j], inv'[j]) /\ SamePaid(inv[j], inv'[j])
             /\ inv'[j].credited = inv[j].credited + (IF j = i THEN a ELSE 0)
  <2>1. CASE j = i BY <1>1, <1>2, <1>3, <1>4, <2>1 DEF Same, SamePaid
  <2>2. CASE j # i
    <3>1. inv'[j] = inv[j] /\ inv[j].credited \in Int BY <1>1, <1>2, <2>2 DEF InvoiceRecord
    <3> QED BY <2>2, <3>1 DEF Same, SamePaid
  <2> QED BY <2>1, <2>2
<1>6. /\ inv[i].status # "none" /\ memo[m].state # "posted"
      /\ memo'[m] = [state |-> "posted", invoice |-> i, amount |-> a]
      /\ \A n \in Memos : n # m => memo'[n] = memo[n]
      /\ UNCHANGED <<pay, creditBalance, creditApplied, creditDisbursed>>
  BY DEF CreateCreditMemo, TypeOK
<1> QED BY <1>5, <1>6

LEMMA VoidCreditMemoRows ==
  ASSUME TypeOK, NEW m \in Memos, VoidCreditMemo(m)
  PROVE  /\ \A j \in Invoices :
              /\ Same(inv[j], inv'[j]) /\ SamePaid(inv[j], inv'[j])
              /\ inv'[j].credited = inv[j].credited
                                    - (IF j = memo[m].invoice THEN memo[m].amount ELSE 0)
         /\ memo[m].state = "posted" /\ memo'[m].state = "void"
         /\ \A n \in Memos : n # m => memo'[n] = memo[n]
         /\ UNCHANGED <<pay, creditBalance, creditApplied, creditDisbursed>>
<1> DEFINE i == memo[m].invoice
           a == memo[m].amount
           q == [inv[i] EXCEPT !.credited = @ - a]
           s == Recompute(q)
<1>1. inv \in [Invoices -> InvoiceRecord] /\ a \in Nat BY DEF TypeOK, MemoRecord
<1>2. inv' = [inv EXCEPT ![i] = s] BY DEF VoidCreditMemo
<1>6. /\ memo[m].state = "posted" /\ memo'[m].state = "void"
      /\ \A n \in Memos : n # m => memo'[n] = memo[n]
      /\ UNCHANGED <<pay, creditBalance, creditApplied, creditDisbursed>>
  BY DEF VoidCreditMemo, MemoVoidable, TypeOK, MemoRecord
<1> HIDE DEF i, a, s
<1>5. ASSUME NEW j \in Invoices
      PROVE  /\ Same(inv[j], inv'[j]) /\ SamePaid(inv[j], inv'[j])
             /\ inv'[j].credited = inv[j].credited - (IF j = i THEN a ELSE 0)
  <2>0. inv[j] \in InvoiceRecord /\ inv[j].credited \in Int BY <1>1 DEF InvoiceRecord
  <2>1. CASE j = i
    <3>1. /\ q \in InvoiceRecord /\ q.status = inv[j].status /\ q.customer = inv[j].customer
          /\ q.credited = inv[j].credited - a /\ q.paid = inv[j].paid
          /\ q.discount = inv[j].discount
      BY <1>1, <2>0, <2>1 DEF InvoiceRecord
    <3> HIDE DEF q
    <3>2. /\ s.customer = q.customer /\ s.credited = q.credited /\ s.paid = q.paid
          /\ s.discount = q.discount /\ (s.status = "none" => q.status = "none")
      BY <3>1, RecomputeKeeps DEF s
    <3>3. inv'[j] = s BY <1>1, <1>2, <2>1
    <3> QED BY <2>1, <3>1, <3>2, <3>3 DEF Same, SamePaid
  <2>2. CASE j # i
    <3>1. inv'[j] = inv[j] BY <1>1, <1>2, <2>2
    <3> QED BY <2>0, <2>2, <3>1 DEF Same, SamePaid
  <2> QED BY <2>1, <2>2
<1> QED BY <1>5, <1>6 DEF i, a

(* A payment is recorded.                                                  *)
Records(p, c, t, apps) ==
  /\ pay[p].state = "none"
  /\ pay'[p].state = "recorded" /\ pay'[p].customer = c
  /\ pay'[p].total = t /\ pay'[p].apps = apps
  /\ \A q \in Payments : q # p => pay'[q] = pay[q]
  /\ \A j \in Invoices :
       /\ Same(inv[j], inv'[j]) /\ SameCredited(inv[j], inv'[j])
       /\ inv'[j].paid = inv[j].paid + apps[j] /\ inv'[j].discount = inv[j].discount
       /\ apps[j] # 0 => inv[j].status # "none"
  /\ UNCHANGED <<memo, creditApplied, creditDisbursed>>

LEMMA RecordRows ==
  ASSUME TypeOK, NEW p \in Payments, NEW c, NEW t, NEW apps \in [Invoices -> Money],
         pay[p].state = "none", NEW r, pay' = [pay EXCEPT ![p] = r],
         r.state = "recorded", r.customer = c, r.total = t, r.apps = apps,
         \A i \in Invoices : apps[i] # 0 => Applicable(i, c, apps[i]),
         inv' = [i \in Invoices |-> IF apps[i] # 0 THEN Paid(inv[i], apps[i]) ELSE inv[i]],
         UNCHANGED <<memo, creditApplied, creditDisbursed>>
  PROVE  Records(p, c, t, apps)
<1>1. pay'[p] = r /\ \A q \in Payments : q # p => pay'[q] = pay[q] BY DEF TypeOK
<1>2. ASSUME NEW j \in Invoices
      PROVE  /\ Same(inv[j], inv'[j]) /\ SameCredited(inv[j], inv'[j])
             /\ inv'[j].paid = inv[j].paid + apps[j] /\ inv'[j].discount = inv[j].discount
             /\ apps[j] # 0 => inv[j].status # "none"
  <2>1. inv[j] \in InvoiceRecord /\ apps[j] \in Money BY DEF TypeOK
  <2>2. CASE apps[j] # 0
    <3> DEFINE s == Paid(inv[j], apps[j])
    <3>1. inv'[j] = s BY <2>2
    <3>2. /\ s.customer = inv[j].customer /\ s.credited = inv[j].credited
          /\ s.discount = inv[j].discount
          /\ s.paid = inv[j].paid + apps[j]
          /\ s.status = "none" => inv[j].status = "none"
      BY <2>1, PaidKeeps
    <3> HIDE DEF s
    <3>3. inv[j].status # "none" BY <2>2 DEF Applicable
    <3> QED BY <3>1, <3>2, <3>3 DEF Same, SameCredited
  <2>3. CASE ~ (apps[j] # 0)
    <3>1. inv'[j] = inv[j] /\ apps[j] = 0 BY <2>1, <2>3
    <3>2. inv[j].paid \in Int BY <2>1, MoneyFacts DEF InvoiceRecord
    <3> QED BY <3>1, <3>2 DEF Same, SameCredited
  <2> QED BY <2>2, <2>3
<1> QED BY <1>1, <1>2 DEF Records

LEMMA CreatePaymentRows ==
  ASSUME TypeOK, NEW p \in Payments, NEW c \in Customers, NEW t \in Figures,
         NEW apps \in [Invoices -> Figures], CreatePayment(p, c, t, apps)
  PROVE  /\ apps \in [Invoices -> Money] /\ t \in Money
         /\ Records(p, c, t, apps)
         /\ SumTo(apps, NumInvoices) <= t
         /\ \E credit \in Pocketed(t - SumTo(apps, NumInvoices)) :
              creditBalance' = [creditBalance EXCEPT ![c] = @ + credit]
<1>1. apps \in [Invoices -> Money] /\ t \in Money BY FiguresType
<1>2. PICK e \in Booking :
        pay' = [pay EXCEPT ![p] = [NoPayment EXCEPT
                  !.state = "recorded", !.customer = c, !.total = t,
                  !.apps = apps, !.entry = e]]
  BY DEF CreatePayment
<1> DEFINE r == [NoPayment EXCEPT !.state = "recorded", !.customer = c, !.total = t,
                                  !.apps = apps, !.entry = e]
<1>3. r.state = "recorded" /\ r.customer = c /\ r.total = t /\ r.apps = apps
  BY DEF NoPayment
<1>4. pay' = [pay EXCEPT ![p] = r] BY <1>2
<1> HIDE DEF r
<1>5. /\ pay[p].state = "none"
      /\ \A i \in Invoices : apps[i] # 0 => Applicable(i, c, apps[i])
      /\ inv' = [i \in Invoices |-> IF apps[i] # 0 THEN Paid(inv[i], apps[i]) ELSE inv[i]]
      /\ UNCHANGED <<memo, creditApplied, creditDisbursed>>
  BY DEF CreatePayment
<1>6. Records(p, c, t, apps) BY <1>1, <1>3, <1>4, <1>5, RecordRows
<1>7. /\ SumTo(apps, NumInvoices) <= t
      /\ \E credit \in Pocketed(t - SumTo(apps, NumInvoices)) :
           creditBalance' = [creditBalance EXCEPT ![c] = @ + credit]
  BY DEF CreatePayment
<1> QED BY <1>1, <1>6, <1>7

LEMMA ImportPaymentRows ==
  ASSUME TypeOK, NEW p \in Payments, NEW c \in Customers,
         NEW apps \in [Invoices -> Amounts \cup {0}], ImportPayment(p, c, apps)
  PROVE  /\ apps \in [Invoices -> Nat]
         /\ Records(p, c, SumTo(apps, NumInvoices), apps)
         /\ UNCHANGED creditBalance
<1>1. apps \in [Invoices -> Nat] /\ \A i \in Invoices : apps[i] # 0 <=> apps[i] > 0
  <2>1. Amounts \cup {0} \subseteq Nat BY ReceivablesAssumption
  <2>2. apps \in [Invoices -> Nat] BY <2>1
  <2> QED BY <2>2
<1>6. apps \in [Invoices -> Money] BY <1>1, MoneyFacts
<1> DEFINE t == SumTo(apps, NumInvoices)
           r == [NoPayment EXCEPT !.state = "recorded", !.customer = c, !.total = t,
                                  !.apps = apps]
<1>2. pay' = [pay EXCEPT ![p] = r] BY DEF ImportPayment
<1>3. /\ pay[p].state = "none" /\ UNCHANGED creditBalance
      /\ \A i \in Invoices : apps[i] # 0 => Applicable(i, c, apps[i])
      /\ inv' = [i \in Invoices |-> IF apps[i] # 0 THEN Paid(inv[i], apps[i]) ELSE inv[i]]
      /\ UNCHANGED <<memo, creditApplied, creditDisbursed>>
  BY <1>1 DEF ImportPayment
<1> HIDE DEF t
<1>4. r.state = "recorded" /\ r.customer = c /\ r.total = t /\ r.apps = apps
  BY DEF NoPayment
<1> HIDE DEF r
<1>5. Records(p, c, t, apps) BY <1>2, <1>3, <1>4, <1>6, RecordRows
<1> QED BY <1>1, <1>3, <1>5 DEF t

LEMMA UnwindRows ==
  ASSUME TypeOK, NEW p \in Payments, NEW state \in {"voided", "returned"}, Unwind(p, state)
  PROVE  /\ pay[p].state = "recorded" /\ pay'[p].state # "recorded"
         /\ \A q \in Payments : q # p => pay'[q] = pay[q]
         /\ \A j \in Invoices :
              /\ Same(inv[j], inv'[j]) /\ SameCredited(inv[j], inv'[j])
              /\ IF pay[p].apps[j] # 0
                 THEN /\ inv'[j].paid = MaxZero(inv[j].paid - pay[p].apps[j])
                      /\ inv'[j].discount = 0
                 ELSE inv'[j] = inv[j]
         /\ UNCHANGED <<memo, creditApplied, creditDisbursed>>
<1>1. /\ pay[p].state = "recorded" /\ pay'[p].state # "recorded"
      /\ \A q \in Payments : q # p => pay'[q] = pay[q]
      /\ UNCHANGED <<memo, creditApplied, creditDisbursed>>
  BY DEF Unwind, Undoable, TypeOK, PaymentRecord
<1>2. ASSUME NEW j \in Invoices
      PROVE  /\ Same(inv[j], inv'[j]) /\ SameCredited(inv[j], inv'[j])
             /\ IF pay[p].apps[j] # 0
                THEN /\ inv'[j].paid = MaxZero(inv[j].paid - pay[p].apps[j])
                     /\ inv'[j].discount = 0
                ELSE inv'[j] = inv[j]
  <2>1. inv[j] \in InvoiceRecord /\ pay[p].apps[j] \in Money BY DEF TypeOK, PaymentRecord
  <2>2. inv'[j] = IF pay[p].apps[j] # 0 THEN Unpaid(inv[j], pay[p].apps[j]) ELSE inv[j]
    BY DEF Unwind
  <2> DEFINE a == pay[p].apps[j]
             s == Unpaid(inv[j], a)
  <2>3. /\ s.customer = inv[j].customer /\ s.credited = inv[j].credited /\ s.discount = 0
        /\ s.paid = MaxZero(inv[j].paid - a)
        /\ s.status = "none" => inv[j].status = "none"
    BY <2>1, UnpaidKeeps
  <2> HIDE DEF s
  <2>4. inv'[j] = IF a # 0 THEN s ELSE inv[j] BY <2>2 DEF s
  <2> QED BY <2>3, <2>4 DEF Same, SameCredited
<1> QED BY <1>1, <1>2

LEMMA ApplyCreditRows ==
  ASSUME TypeOK, NEW c \in Customers, NEW i \in Invoices, NEW a \in Amounts,
         ApplyCredit(c, i, a)
  PROVE  /\ a \in Nat /\ inv[i].customer = c /\ inv[i].status # "none"
         /\ \A j \in Invoices :
              /\ Same(inv[j], inv'[j]) /\ SameCredited(inv[j], inv'[j])
              /\ inv'[j].paid = inv[j].paid + (IF j = i THEN a ELSE 0)
              /\ inv'[j].discount = inv[j].discount
         /\ creditBalance' = [creditBalance EXCEPT ![c] = @ - a]
         /\ creditApplied' = [creditApplied EXCEPT ![i] = @ + a]
         /\ UNCHANGED <<pay, memo, creditDisbursed>>
<1>1. inv \in [Invoices -> InvoiceRecord] /\ inv[i] \in InvoiceRecord /\ a \in Nat
  BY ReceivablesAssumption DEF TypeOK
<1> DEFINE q == [inv[i] EXCEPT !.paid = @ + a]
           s == Recompute(q)
<1>2. inv' = [inv EXCEPT ![i] = s] BY DEF ApplyCredit
<1>3. /\ q \in InvoiceRecord /\ q.status = inv[i].status /\ q.customer = inv[i].customer
      /\ q.credited = inv[i].credited /\ q.paid = inv[i].paid + a
      /\ q.discount = inv[i].discount
  BY <1>1, MoneyFacts DEF InvoiceRecord
<1> HIDE DEF q
<1>4. /\ s.customer = q.customer /\ s.credited = q.credited /\ s.paid = q.paid
      /\ s.discount = q.discount /\ (s.status = "none" => q.status = "none")
  BY <1>3, RecomputeKeeps
<1> HIDE DEF s
<1>5. ASSUME NEW j \in Invoices
      PROVE  /\ Same(inv[j], inv'[j]) /\ SameCredited(inv[j], inv'[j])
             /\ inv'[j].paid = inv[j].paid + (IF j = i THEN a ELSE 0)
             /\ inv'[j].discount = inv[j].discount
  <2>1. CASE j = i BY <1>1, <1>2, <1>3, <1>4, <2>1 DEF Same, SameCredited
  <2>2. CASE j # i
    <3>1. inv'[j] = inv[j] /\ inv[j].paid \in Int BY <1>1, <1>2, <2>2, MoneyFacts DEF InvoiceRecord
    <3> QED BY <2>2, <3>1 DEF Same, SameCredited
  <2> QED BY <2>1, <2>2
<1>6. /\ inv[i].customer = c /\ inv[i].status # "none"
      /\ creditBalance' = [creditBalance EXCEPT ![c] = @ - a]
      /\ creditApplied' = [creditApplied EXCEPT ![i] = @ + a]
      /\ UNCHANGED <<pay, memo, creditDisbursed>>
  BY DEF ApplyCredit
<1> QED BY <1>1, <1>5, <1>6

LEMMA MatchCashReceiptRows ==
  ASSUME TypeOK, NEW p \in Payments, NEW i \in Invoices, NEW a \in Amounts,
         MatchCashReceipt(p, i, a)
  PROVE  /\ \A j \in Invoices : Same(inv[j], inv'[j]) /\ SameCredited(inv[j], inv'[j])
         /\ UNCHANGED memo
<1>1. inv \in [Invoices -> InvoiceRecord] /\ inv[i] \in InvoiceRecord BY DEF TypeOK
<1> DEFINE s == IF inv[i].paid + a >= inv[i].total THEN "paid" ELSE inv[i].status
           v == inv[i].paid + a
           r == [inv[i] EXCEPT !.paid = v, !.status = s]
<1>2. inv' = [inv EXCEPT ![i] = r] /\ UNCHANGED memo BY DEF MatchCashReceipt
<1>3. s = inv[i].status \/ s = "paid" OBVIOUS
<1> HIDE DEF s, v
<1>4. /\ r.customer = inv[i].customer /\ r.credited = inv[i].credited /\ r.status = s
  BY <1>1 DEF InvoiceRecord
<1> HIDE DEF r
<1>5. ASSUME NEW j \in Invoices PROVE Same(inv[j], inv'[j]) /\ SameCredited(inv[j], inv'[j])
  <2>1. inv'[j] = IF j = i THEN r ELSE inv[j] BY <1>1, <1>2
  <2> QED BY <1>3, <1>4, <2>1 DEF Same, SameCredited
<1> QED BY <1>2, <1>5

(* --- what an invoice was credited -------------------------------------- *)

MemoTerm(k, i) == IF k.state = "posted" /\ k.invoice = i THEN k.amount ELSE 0

LEMMA PostedMemosNat ==
  ASSUME TypeOK, NEW i
  PROVE  PostedMemos(i) \in Nat
<1> DEFINE f == [m \in Memos |-> IF memo[m].state = "posted" /\ memo[m].invoice = i
                                 THEN memo[m].amount ELSE 0]
<1>1. NumMemos \in Nat /\ Memos = 1..NumMemos BY ReceivablesAssumption DEF Memos
<1>2. f \in [1..NumMemos -> Nat] BY <1>1 DEF TypeOK, MemoRecord
<1>3. PostedMemos(i) = SumTo(f, NumMemos) BY DEF PostedMemos
<1> HIDE DEF f
<1> QED BY <1>1, <1>2, <1>3, SumToNat

LEMMA PostedMemosStep ==
  ASSUME TypeOK, TypeOK', NEW m \in Memos, NEW i,
         \A n \in Memos : n # m => memo'[n] = memo[n]
  PROVE  PostedMemos(i)' = PostedMemos(i) + (MemoTerm(memo'[m], i) - MemoTerm(memo[m], i))
<1> DEFINE f == [n \in Memos |-> MemoTerm(memo[n], i)]
           g == [n \in Memos |-> MemoTerm(memo'[n], i)]
<1>1. NumMemos \in Nat /\ Memos = 1..NumMemos BY ReceivablesAssumption DEF Memos
<1>2. f \in [1..NumMemos -> Int] /\ g \in [1..NumMemos -> Int]
  BY <1>1 DEF TypeOK, MemoRecord, MemoTerm
<1>3. \A n \in 1..NumMemos : n # m => g[n] = f[n] BY <1>1
<1>4. PostedMemos(i) = SumTo(f, NumMemos) /\ PostedMemos(i)' = SumTo(g, NumMemos)
  BY DEF PostedMemos, MemoTerm
<1>5. f[m] = MemoTerm(memo[m], i) /\ g[m] = MemoTerm(memo'[m], i) OBVIOUS
<1> HIDE DEF f, g
<1>6. SumTo(g, NumMemos) = SumTo(f, NumMemos) + (g[m] - f[m])
  BY <1>1, <1>2, <1>3, SumToPoint
<1> QED BY <1>4, <1>5, <1>6

(* A posted memo has a row to credit, and a row not yet there no credit.   *)
CreditInv ==
  /\ CreditedIsBacked
  /\ \A i \in Invoices : inv[i].status = "none" => inv[i].credited = 0
  /\ \A m \in Memos : memo[m].state = "posted" =>
       memo[m].invoice \in Invoices /\ inv[memo[m].invoice].status # "none"

LEMMA CreditInit == Init => CreditInv
<1> SUFFICES ASSUME Init PROVE CreditInv OBVIOUS
<1>1. NumMemos \in Nat /\ Memos = 1..NumMemos BY ReceivablesAssumption DEF Memos
<1>2. \A m \in Memos : memo[m].state = "none" BY DEF Init, NoMemo
<1>3. \A i \in Invoices : inv[i].credited = 0 BY DEF Init, NoInvoice, NewInvoice
<1>4. ASSUME NEW i \in Invoices PROVE PostedMemos(i) = 0
  <2> DEFINE f == [m \in Memos |-> IF memo[m].state = "posted" /\ memo[m].invoice = i
                                   THEN memo[m].amount ELSE 0]
  <2>1. f \in [1..NumMemos -> Int] /\ \A m \in 1..NumMemos : f[m] = 0 BY <1>1, <1>2
  <2>2. PostedMemos(i) = SumTo(f, NumMemos) BY DEF PostedMemos
  <2> HIDE DEF f
  <2> QED BY <1>1, <2>1, <2>2, SumToZero
<1> QED BY <1>2, <1>3, <1>4 DEF CreditInv, CreditedIsBacked

LEMMA CreditAside ==
  ASSUME CreditInv, UNCHANGED memo,
         \A i \in Invoices : \/ Opens(inv[i], inv'[i])
                             \/ Same(inv[i], inv'[i]) /\ SameCredited(inv[i], inv'[i])
  PROVE  CreditInv'
<1>1. \A i \in Invoices : PostedMemos(i)' = PostedMemos(i) BY DEF PostedMemos
<1>2. ASSUME NEW i \in Invoices
      PROVE  /\ inv'[i].credited = inv[i].credited
             /\ inv'[i].status = "none" => inv[i].status = "none"
  BY DEF CreditInv, Opens, Same, SameCredited
<1> QED BY <1>1, <1>2 DEF CreditInv, CreditedIsBacked

LEMMA CreditStep ==
  ASSUME TypeOK, TypeOK', CreditInv, Next
  PROVE  CreditInv'
<1>1. CASE InvoiceStep BY <1>1, InvoiceStepQuiet, CreditAside DEF Quiet
<1>2. CASE LedgerStep BY <1>2, LedgerStepQuiet, CreditAside DEF Quiet
<1>3. CASE PaymentStep
  BY <1>3, CreatePaymentRows, ImportPaymentRows, UnwindRows, MatchCashReceiptRows, CreditAside
  DEF PaymentStep, VoidPayment, ReturnPayment, Records
<1>4. CASE CustomerStep
  <2>1. ASSUME UNCHANGED <<inv, memo>> PROVE CreditInv'
    BY <2>1, CreditAside DEF Same, SameCredited
  <2> QED BY <1>4, <2>1, ApplyCreditRows, CreditAside
          DEF CustomerStep, DisburseCredit, AdjustBalance, Sweep
<1>5. CASE MemoStep
  <2>1. \A i \in Invoices : inv[i].credited \in Int /\ PostedMemos(i) \in Nat
    BY PostedMemosNat DEF TypeOK, InvoiceRecord
  <2>2. ASSUME NEW m \in Memos, NEW i \in Invoices, NEW a \in Amounts,
               CreateCreditMemo(m, i, a)
        PROVE  CreditInv'
    <3>1. /\ \A j \in Invoices :
               /\ Same(inv[j], inv'[j])
               /\ inv'[j].credited = inv[j].credited + (IF j = i THEN a ELSE 0)
          /\ inv[i].status # "none" /\ memo[m].state # "posted"
          /\ memo'[m] = [state |-> "posted", invoice |-> i, amount |-> a]
          /\ \A n \in Memos : n # m => memo'[n] = memo[n]
      BY <2>2, CreateCreditMemoRows
    <3>2. a \in Nat BY ReceivablesAssumption
    <3>3. ASSUME NEW j \in Invoices
          PROVE  /\ inv'[j].credited = PostedMemos(j)'
                 /\ inv'[j].status = "none" => inv'[j].credited = 0
      <4>1. PostedMemos(j)' = PostedMemos(j)
              + (MemoTerm(memo'[m], j) - MemoTerm(memo[m], j))
        BY <3>1, PostedMemosStep
      <4>2. MemoTerm(memo[m], j) = 0 /\ MemoTerm(memo'[m], j) = IF j = i THEN a ELSE 0
        BY <3>1 DEF MemoTerm
      <4>3. inv[j].credited = PostedMemos(j) BY DEF CreditInv, CreditedIsBacked
      <4>4. inv'[j].status = "none" => j # i /\ inv[j].credited = 0
        BY <3>1 DEF Same, CreditInv
      <4> QED BY <2>1, <3>1, <3>2, <4>1, <4>2, <4>3, <4>4
    <3>4. ASSUME NEW n \in Memos, memo'[n].state = "posted"
          PROVE  memo'[n].invoice \in Invoices /\ inv'[memo'[n].invoice].status # "none"
      <4>1. CASE n = m BY <3>1, <4>1 DEF Same
      <4>2. CASE n # m BY <3>1, <3>4, <4>2 DEF Same, CreditInv
      <4> QED BY <4>1, <4>2
    <3> QED BY <3>3, <3>4 DEF CreditInv, CreditedIsBacked
  <2>3. ASSUME NEW m \in Memos, VoidCreditMemo(m)
        PROVE  CreditInv'
    <3> DEFINE i == memo[m].invoice
               a == memo[m].amount
    <3>1. /\ \A j \in Invoices :
               /\ Same(inv[j], inv'[j])
               /\ inv'[j].credited = inv[j].credited - (IF j = i THEN a ELSE 0)
          /\ memo[m].state = "posted" /\ memo'[m].state = "void"
          /\ \A n \in Memos : n # m => memo'[n] = memo[n]
      BY <2>3, VoidCreditMemoRows
    <3>2. a \in Nat BY DEF TypeOK, MemoRecord
    <3>3. ASSUME NEW j \in Invoices
          PROVE  /\ inv'[j].credited = PostedMemos(j)'
                 /\ inv'[j].status = "none" => inv'[j].credited = 0
      <4>1. PostedMemos(j)' = PostedMemos(j)
              + (MemoTerm(memo'[m], j) - MemoTerm(memo[m], j))
        BY <3>1, PostedMemosStep
      <4>2. MemoTerm(memo'[m], j) = 0 /\ MemoTerm(memo[m], j) = IF j = i THEN a ELSE 0
        BY <3>1 DEF MemoTerm
      <4>3. inv[j].credited = PostedMemos(j) BY DEF CreditInv, CreditedIsBacked
      <4>4. inv'[j].status = "none" => j # i /\ inv[j].credited = 0
        BY <3>1 DEF Same, CreditInv
      <4> HIDE DEF i, a
      <4> QED BY <2>1, <3>1, <3>2, <4>1, <4>2, <4>3, <4>4
    <3>4. ASSUME NEW n \in Memos, memo'[n].state = "posted"
          PROVE  memo'[n].invoice \in Invoices /\ inv'[memo'[n].invoice].status # "none"
      <4>1. n # m /\ memo'[n] = memo[n] BY <3>1, <3>4
      <4> QED BY <3>1, <3>4, <4>1 DEF Same, CreditInv
    <3> QED BY <3>3, <3>4 DEF CreditInv, CreditedIsBacked
  <2> QED BY <1>5, <2>2, <2>3 DEF MemoStep
<1> QED BY <1>1, <1>2, <1>3, <1>4, <1>5 DEF Next

LEMMA AlwaysCredited == Spec => [](TypeOK /\ CreditInv)
<1>1. ASSUME TypeOK, CreditInv, UNCHANGED vars PROVE TypeOK' /\ CreditInv'
  <2>1. TypeOK' /\ UNCHANGED <<inv, memo>> BY <1>1 DEF TypeOK, vars
  <2>2. CreditInv' BY <1>1, <2>1, CreditAside DEF Same, SameCredited
  <2> QED BY <2>1, <2>2
<1>2. TypeOK /\ CreditInv /\ [Next]_vars => (TypeOK /\ CreditInv)'
  BY <1>1, TypeStep, CreditStep
<1> QED BY TypeInit, CreditInit, <1>2, PTL DEF Spec

(* Whatever calls arrive, the questionable ones included, an invoice is    *)
(* credited with exactly the memos that stand on it: voiding a memo takes  *)
(* back what creating it put on, behind voids, write-offs, reinstatements  *)
(* and patches too.                                                        *)
THEOREM CreditedHolds == Spec => []CreditedIsBacked
<1>1. TypeOK /\ CreditInv => CreditedIsBacked BY DEF CreditInv
<1> QED BY <1>1, AlwaysCredited, PTL

(* --- what an invoice was paid ------------------------------------------ *)

(* Without discounts, which are what an invoice is paid by no payment.     *)
PaidInv ==
  \A i \in Invoices : /\ inv[i].paid = PaidByLive(i) + creditApplied[i]
                      /\ inv[i].discount = 0
                      /\ inv[i].status = "none" => inv[i].paid = 0

LEMMA PaidInit == Init => PaidInv
<1> SUFFICES ASSUME Init, NEW i \in Invoices
             PROVE  /\ inv[i].paid = PaidByLive(i) + creditApplied[i]
                    /\ inv[i].discount = 0 /\ inv[i].paid = 0
  BY DEF PaidInv
<1>1. NumPayments \in Nat /\ Payments = 1..NumPayments
  BY ReceivablesAssumption DEF Payments
<1>2. \A p \in Payments : pay[p].state = "none" BY DEF Init, NoPayment
<1>3. inv[i].paid = 0 /\ inv[i].discount = 0 /\ creditApplied[i] = 0
  BY DEF Init, NoInvoice, NewInvoice
<1> DEFINE f == [p \in Payments |-> IF pay[p].state = "recorded" THEN pay[p].apps[i] ELSE 0]
<1>4. f \in [1..NumPayments -> Int] /\ \A p \in 1..NumPayments : f[p] = 0 BY <1>1, <1>2
<1>5. PaidByLive(i) = SumTo(f, NumPayments) BY DEF PaidByLive
<1> HIDE DEF f
<1>6. PaidByLive(i) = 0 BY <1>1, <1>4, <1>5, SumToZero
<1> QED BY <1>3, <1>6

LEMMA PaidAside ==
  ASSUME PaidInv, PaymentsKept, UNCHANGED creditApplied,
         \A i \in Invoices : \/ Opens(inv[i], inv'[i])
                             \/ Same(inv[i], inv'[i]) /\ SamePaid(inv[i], inv'[i])
  PROVE  PaidInv'
<1> SUFFICES ASSUME NEW i \in Invoices
             PROVE  /\ inv'[i].paid = PaidByLive(i)' + creditApplied'[i]
                    /\ inv'[i].discount = 0
                    /\ inv'[i].status = "none" => inv'[i].paid = 0
  BY DEF PaidInv
<1>1. PaidByLive(i)' = PaidByLive(i) BY DEF PaidByLive, PaymentsKept
<1>2. /\ inv'[i].paid = inv[i].paid /\ inv'[i].discount = 0
      /\ inv'[i].status = "none" => inv[i].status = "none"
  BY DEF PaidInv, Opens, Same, SamePaid
<1> QED BY <1>1, <1>2 DEF PaidInv

LEMMA PaidRecord ==
  ASSUME Money = Nat, TypeOK, TypeOK', PaidInv, NEW p \in Payments, NEW c, NEW t,
         NEW apps \in [Invoices -> Nat], Records(p, c, t, apps)
  PROVE  PaidInv'
<1> SUFFICES ASSUME NEW i \in Invoices
             PROVE  /\ inv'[i].paid = PaidByLive(i)' + creditApplied'[i]
                    /\ inv'[i].discount = 0
                    /\ inv'[i].status = "none" => inv'[i].paid = 0
  BY DEF PaidInv
<1>1. /\ Same(inv[i], inv'[i]) /\ inv'[i].paid = inv[i].paid + apps[i]
      /\ inv'[i].discount = inv[i].discount
      /\ apps[i] # 0 => inv[i].status # "none"
      /\ creditApplied' = creditApplied
  BY DEF Records
<1>2. PaidByLive(i)' = PaidByLive(i)
        + ((IF pay'[p].state = "recorded" THEN pay'[p].apps[i] ELSE 0)
           - (IF pay[p].state = "recorded" THEN pay[p].apps[i] ELSE 0))
  BY PaidByLiveStep DEF Records
<1>3. /\ pay'[p].state = "recorded" /\ pay'[p].apps[i] = apps[i]
      /\ pay[p].state # "recorded"
  BY DEF Records
<1>4. PaidByLive(i) \in Nat /\ apps[i] \in Nat /\ creditApplied[i] \in Nat
  BY PaidByLiveNat DEF TypeOK
<1>5. /\ inv[i].paid = PaidByLive(i) + creditApplied[i] /\ inv[i].discount = 0
      /\ inv[i].status = "none" => inv[i].paid = 0
  BY DEF PaidInv
<1>6. PaidByLive(i)' = PaidByLive(i) + apps[i] BY <1>2, <1>3, <1>4
<1>7. inv'[i].status = "none" => inv[i].status = "none" /\ apps[i] = 0
  BY <1>1, <1>4 DEF Same
<1> QED BY <1>1, <1>4, <1>5, <1>6, <1>7

LEMMA PaidUnwind ==
  ASSUME Money = Nat, TypeOK, TypeOK', PaidInv, NEW p \in Payments,
         NEW state \in {"voided", "returned"}, Unwind(p, state)
  PROVE  PaidInv'
<1> SUFFICES ASSUME NEW i \in Invoices
             PROVE  /\ inv'[i].paid = PaidByLive(i)' + creditApplied'[i]
                    /\ inv'[i].discount = 0
                    /\ inv'[i].status = "none" => inv'[i].paid = 0
  BY DEF PaidInv
<1> DEFINE a == pay[p].apps[i]
<1>1. /\ Same(inv[i], inv'[i])
      /\ IF a # 0 THEN inv'[i].paid = MaxZero(inv[i].paid - a) /\ inv'[i].discount = 0
                  ELSE inv'[i] = inv[i]
      /\ creditApplied' = creditApplied
      /\ pay[p].state = "recorded" /\ pay'[p].state # "recorded"
      /\ \A q \in Payments : q # p => pay'[q] = pay[q]
  BY UnwindRows
<1>2. PaidByLive(i)' = PaidByLive(i)
        + ((IF pay'[p].state = "recorded" THEN pay'[p].apps[i] ELSE 0)
           - (IF pay[p].state = "recorded" THEN pay[p].apps[i] ELSE 0))
  BY <1>1, PaidByLiveStep
<1>3. PaidByLive(i) \in Nat /\ a <= PaidByLive(i) BY <1>1, PaidByLiveNat
<1>4. a \in Nat /\ creditApplied[i] \in Nat /\ inv[i].paid \in Nat
  BY DEF TypeOK, PaymentRecord, InvoiceRecord
<1>5. /\ inv[i].paid = PaidByLive(i) + creditApplied[i] /\ inv[i].discount = 0
      /\ inv[i].status = "none" => inv[i].paid = 0
  BY DEF PaidInv
<1>6. PaidByLive(i)' = PaidByLive(i) - a BY <1>1, <1>2, <1>3, <1>4
<1>7. inv'[i].status = "none" => inv[i].status = "none" BY <1>1 DEF Same
<1> HIDE DEF a
<1>8. inv'[i].paid = inv[i].paid - a /\ inv'[i].discount = 0
  BY <1>1, <1>3, <1>4, <1>5 DEF MaxZero
<1> QED BY <1>1, <1>3, <1>4, <1>5, <1>6, <1>7, <1>8

LEMMA PaidApplyCredit ==
  ASSUME Money = Nat, TypeOK, TypeOK', PaidInv, NEW c \in Customers, NEW j \in Invoices,
         NEW a \in Amounts, ApplyCredit(c, j, a)
  PROVE  PaidInv'
<1> SUFFICES ASSUME NEW i \in Invoices
             PROVE  /\ inv'[i].paid = PaidByLive(i)' + creditApplied'[i]
                    /\ inv'[i].discount = 0
                    /\ inv'[i].status = "none" => inv'[i].paid = 0
  BY DEF PaidInv
<1>1. /\ a \in Nat /\ inv[j].status # "none" /\ Same(inv[i], inv'[i])
      /\ inv'[i].paid = inv[i].paid + (IF i = j THEN a ELSE 0)
      /\ inv'[i].discount = inv[i].discount
      /\ creditApplied' = [creditApplied EXCEPT ![j] = @ + a]
      /\ UNCHANGED pay
  BY ApplyCreditRows
<1>2. PaidByLive(i)' = PaidByLive(i) BY <1>1 DEF PaidByLive
<1>3. creditApplied'[i] = creditApplied[i] + (IF i = j THEN a ELSE 0)
      /\ creditApplied[i] \in Nat
  BY <1>1 DEF TypeOK
<1>4. PaidByLive(i) \in Nat BY PaidByLiveNat
<1>5. /\ inv[i].paid = PaidByLive(i) + creditApplied[i] /\ inv[i].discount = 0
      /\ inv[i].status = "none" => inv[i].paid = 0
  BY DEF PaidInv
<1>6. inv'[i].status = "none" => inv[i].status = "none" /\ i # j BY <1>1 DEF Same
<1> QED BY <1>1, <1>2, <1>3, <1>4, <1>5, <1>6

LEMMA PaidStep ==
  ASSUME TypeOK, TypeOK', PaidInv, Next, Acts \cap (Honors \cup {"cash_receipts", "below_zero"}) = {}
  PROVE  PaidInv'
<1>0. Money = Nat BY NatMoney
<1>1. CASE InvoiceStep
  <2>1. \A i \in Invoices : \/ Opens(inv[i], inv'[i])
                            \/ Same(inv[i], inv'[i]) /\ SamePaid(inv[i], inv'[i])
    BY <1>1, InvoiceStepQuiet DEF Quiet
  <2>2. PaymentsKept /\ UNCHANGED creditApplied
    BY <1>1, InvoiceStepQuiet DEF PaymentsKept
  <2> QED BY <2>1, <2>2, PaidAside
<1>2. CASE LedgerStep
  <2>1. \A i \in Invoices : \/ Opens(inv[i], inv'[i])
                            \/ Same(inv[i], inv'[i]) /\ SamePaid(inv[i], inv'[i])
    BY <1>2, LedgerStepQuiet DEF Quiet
  <2>2. PaymentsKept /\ UNCHANGED creditApplied
    BY <1>2, LedgerStepQuiet DEF TotalsKept
  <2> QED BY <2>1, <2>2, PaidAside
<1>3. CASE MemoStep
  <2>1. /\ \A i \in Invoices : Same(inv[i], inv'[i]) /\ SamePaid(inv[i], inv'[i])
        /\ UNCHANGED <<pay, creditApplied>>
    BY <1>3, CreateCreditMemoRows, VoidCreditMemoRows DEF MemoStep
  <2>2. PaymentsKept BY <2>1 DEF PaymentsKept
  <2> QED BY <2>1, <2>2, PaidAside
<1>4. CASE PaymentStep
  <2>1. ASSUME NEW p \in Payments, NEW i \in Invoices, NEW a \in Amounts
        PROVE  ~ MatchCashReceipt(p, i, a)
    BY DEF MatchCashReceipt
  <2>2. ASSUME NEW p \in Payments, NEW c \in Customers, NEW t \in Figures,
               NEW apps \in [Invoices -> Figures], CreatePayment(p, c, t, apps)
        PROVE  PaidInv'
    <3>1. apps \in [Invoices -> Nat] /\ Records(p, c, t, apps)
      BY <1>0, <2>2, CreatePaymentRows
    <3> QED BY <1>0, <3>1, PaidRecord
  <2>3. ASSUME NEW p \in Payments, NEW c \in Customers,
               NEW apps \in [Invoices -> Amounts \cup {0}], ImportPayment(p, c, apps)
        PROVE  PaidInv'
    BY <1>0, <2>3, ImportPaymentRows, PaidRecord
  <2> QED BY <1>0, <1>4, <2>1, <2>2, <2>3, PaidUnwind DEF PaymentStep, VoidPayment, ReturnPayment
<1>5. CASE CustomerStep
  <2>1. ASSUME UNCHANGED <<inv, pay, creditApplied>> PROVE PaidInv'
    <3>1. PaymentsKept BY <2>1 DEF PaymentsKept
    <3> QED BY <2>1, <3>1, PaidAside DEF Same, SamePaid
  <2> QED BY <1>0, <1>5, <2>1, PaidApplyCredit
          DEF CustomerStep, DisburseCredit, AdjustBalance, Sweep
<1> QED BY <1>1, <1>2, <1>3, <1>4, <1>5 DEF Next

(* Unless a discount is honoured, a cash receipt matched or less than      *)
(* nothing asked for, what an invoice was paid is what the recorded        *)
(* payments and the applied credit paid it, over any sequence of payments, *)
(* imports, voids and returns: the floor at zero of an unwinding cuts      *)
(* nothing off while no row is below zero.                                 *)
THEOREM PaidHolds ==
  ASSUME Acts \cap (Honors \cup {"cash_receipts", "below_zero"}) = {}
  PROVE  Spec => []PaidIsBacked
<1>0. Money = Nat BY NatMoney
<1>1. ASSUME TypeOK, PaidInv, UNCHANGED vars PROVE TypeOK' /\ PaidInv'
  <2>1. TypeOK' /\ UNCHANGED <<inv, pay, creditApplied>> BY <1>1 DEF TypeOK, vars
  <2>2. PaymentsKept BY <2>1 DEF PaymentsKept
  <2>3. PaidInv' BY <1>1, <2>1, <2>2, PaidAside DEF Same, SamePaid
  <2> QED BY <2>1, <2>3
<1>2. TypeOK /\ PaidInv /\ [Next]_vars => (TypeOK /\ PaidInv)'
  BY <1>1, TypeStep, PaidStep
<1>3. ASSUME TypeOK, PaidInv PROVE PaidIsBacked
  <2> SUFFICES ASSUME NEW i \in Invoices
               PROVE  inv[i].paid = PaidByLive(i) + creditApplied[i] + inv[i].discount
    BY DEF PaidIsBacked
  <2>1. PaidByLive(i) \in Nat /\ creditApplied[i] \in Nat
    BY <1>0, <1>3, PaidByLiveNat DEF TypeOK
  <2> QED BY <1>3, <2>1 DEF PaidInv
<1> QED BY TypeInit, PaidInit, <1>2, <1>3, PTL DEF Spec

(* --- the credit pocket ------------------------------------------------- *)

(* What a payment adds to the pocket of c while it stands. *)
PocketTerm(q, c) ==
  LET over == q.total - SumTo(q.apps, NumInvoices)
  IN  IF q.state = "recorded" /\ q.customer = c /\ over > 1 THEN over ELSE 0

LEMMA PocketTermInt ==
  ASSUME NEW q \in PaymentRecord, NEW c
  PROVE  PocketTerm(q, c) \in Int
<1>1. NumInvoices \in Nat /\ q.apps \in [1..NumInvoices -> Money] /\ q.total \in Money
  BY ReceivablesAssumption DEF PaymentRecord, Invoices
<1>2. SumTo(q.apps, NumInvoices) \in Money BY <1>1, SumToMoney
<1>3. q.total \in Int /\ SumTo(q.apps, NumInvoices) \in Int BY <1>1, <1>2, MoneyFacts
<1> QED BY <1>3 DEF PocketTerm

LEMMA PocketInStep ==
  ASSUME TypeOK, TypeOK', NEW p \in Payments, NEW c,
         \A q \in Payments : q # p => pay'[q] = pay[q]
  PROVE  PocketIn(c)' = PocketIn(c) + (PocketTerm(pay'[p], c) - PocketTerm(pay[p], c))
<1> DEFINE f == [q \in Payments |-> PocketTerm(pay[q], c)]
           g == [q \in Payments |-> PocketTerm(pay'[q], c)]
<1>1. NumPayments \in Nat /\ Payments = 1..NumPayments
  BY ReceivablesAssumption DEF Payments
<1>2. f \in [1..NumPayments -> Int] /\ g \in [1..NumPayments -> Int]
  BY <1>1, PocketTermInt DEF TypeOK
<1>3. \A q \in 1..NumPayments : q # p => g[q] = f[q] BY <1>1
<1>4. PocketIn(c) = SumTo(f, NumPayments) /\ PocketIn(c)' = SumTo(g, NumPayments)
  BY DEF PocketIn, PocketTerm, Overpaid, Applied
<1>5. f[p] = PocketTerm(pay[p], c) /\ g[p] = PocketTerm(pay'[p], c) OBVIOUS
<1> HIDE DEF f, g
<1>6. SumTo(g, NumPayments) = SumTo(f, NumPayments) + (g[p] - f[p])
  BY <1>1, <1>2, <1>3, SumToPoint
<1> QED BY <1>4, <1>5, <1>6

LEMMA PocketInt ==
  ASSUME TypeOK, NEW c
  PROVE  PocketIn(c) \in Int /\ PocketOut(c) \in Int
<1> DEFINE f == [q \in Payments |-> PocketTerm(pay[q], c)]
           g == [i \in Invoices |-> IF inv[i].customer = c THEN creditApplied[i] ELSE 0]
<1>1. /\ NumPayments \in Nat /\ Payments = 1..NumPayments
      /\ NumInvoices \in Nat /\ Invoices = 1..NumInvoices
  BY ReceivablesAssumption DEF Payments, Invoices
<1>2. f \in [1..NumPayments -> Int] /\ g \in [1..NumInvoices -> Int]
  BY <1>1, PocketTermInt DEF TypeOK
<1>3. PocketIn(c) = SumTo(f, NumPayments) /\ PocketOut(c) = SumTo(g, NumInvoices)
  BY DEF PocketIn, PocketOut, PocketTerm, Overpaid, Applied
<1> HIDE DEF f, g
<1> QED BY <1>1, <1>2, <1>3, SumToInt

PocketInv == PocketLaw /\ \A i \in Invoices : inv[i].status = "none" => creditApplied[i] = 0

LEMMA PocketInit == Init => PocketInv
<1> SUFFICES ASSUME Init, NEW c \in Customers
             PROVE  creditBalance[c] + PocketOut(c) + creditDisbursed[c] = PocketIn(c)
  BY DEF PocketInv, PocketLaw, Init
<1> DEFINE f == [q \in Payments |-> PocketTerm(pay[q], c)]
           g == [i \in Invoices |-> IF inv[i].customer = c THEN creditApplied[i] ELSE 0]
<1>1. /\ NumPayments \in Nat /\ Payments = 1..NumPayments
      /\ NumInvoices \in Nat /\ Invoices = 1..NumInvoices
  BY ReceivablesAssumption DEF Payments, Invoices
<1>2. \A q \in Payments : pay[q].state = "none" BY DEF Init, NoPayment
<1>3. f \in [1..NumPayments -> Int] /\ \A q \in 1..NumPayments : f[q] = 0
  BY <1>1, <1>2 DEF PocketTerm
<1>4. g \in [1..NumInvoices -> Int] /\ \A i \in 1..NumInvoices : g[i] = 0
  BY <1>1 DEF Init
<1>5. PocketIn(c) = SumTo(f, NumPayments) /\ PocketOut(c) = SumTo(g, NumInvoices)
  BY DEF PocketIn, PocketOut, PocketTerm, Overpaid, Applied
<1> HIDE DEF f, g
<1>6. PocketIn(c) = 0 /\ PocketOut(c) = 0 BY <1>1, <1>3, <1>4, <1>5, SumToZero
<1> QED BY <1>6 DEF Init

(* Credit is applied to rows that exist, so none moves with a customer.    *)
Steady == \A i \in Invoices : Opens(inv[i], inv'[i]) \/ Same(inv[i], inv'[i])

LEMMA PocketOutStays ==
  ASSUME PocketInv, Steady, UNCHANGED creditApplied, NEW c
  PROVE  PocketOut(c)' = PocketOut(c)
<1>1. ASSUME NEW i \in Invoices
      PROVE  (IF inv'[i].customer = c THEN creditApplied'[i] ELSE 0)
               = (IF inv[i].customer = c THEN creditApplied[i] ELSE 0)
  BY DEF Steady, PocketInv, Opens, Same
<1>2. [i \in Invoices |-> IF inv'[i].customer = c THEN creditApplied'[i] ELSE 0]
        = [i \in Invoices |-> IF inv[i].customer = c THEN creditApplied[i] ELSE 0]
  BY <1>1
<1> QED BY <1>2 DEF PocketOut

LEMMA UnappliedStays ==
  ASSUME PocketInv, Steady, UNCHANGED creditApplied
  PROVE  \A i \in Invoices : inv'[i].status = "none" => creditApplied'[i] = 0
BY DEF Steady, PocketInv, Opens, Same

LEMMA PocketAside ==
  ASSUME PocketInv, Steady, TotalsKept,
         UNCHANGED <<creditBalance, creditApplied, creditDisbursed>>
  PROVE  PocketInv'
<1>1. \A c \in Customers : PocketIn(c)' = PocketIn(c)
  BY DEF PocketIn, Overpaid, Applied, TotalsKept, PaymentsKept
<1>2. \A c \in Customers : PocketOut(c)' = PocketOut(c) BY PocketOutStays
<1> QED BY <1>1, <1>2, UnappliedStays DEF PocketInv, PocketLaw

(* One payment is recorded or undone, and the pocket follows. *)
LEMMA PocketPayment ==
  ASSUME TypeOK, TypeOK', PocketInv, Steady, NEW p \in Payments,
         \A q \in Payments : q # p => pay'[q] = pay[q],
         UNCHANGED <<creditApplied, creditDisbursed>>,
         \A c \in Customers :
           creditBalance'[c] =
             creditBalance[c] + (PocketTerm(pay'[p], c) - PocketTerm(pay[p], c))
  PROVE  PocketInv'
<1> SUFFICES ASSUME NEW c \in Customers
             PROVE  (creditBalance[c] + PocketOut(c) + creditDisbursed[c] = PocketIn(c))'
  BY UnappliedStays DEF PocketInv, PocketLaw
<1> DEFINE x == PocketTerm(pay[p], c)
           y == PocketTerm(pay'[p], c)
<1>1. x \in Int /\ y \in Int BY PocketTermInt DEF TypeOK
<1>2. creditBalance'[c] = creditBalance[c] + (y - x) /\ PocketIn(c)' = PocketIn(c) + (y - x)
  BY PocketInStep
<1>3. PocketOut(c)' = PocketOut(c) BY PocketOutStays
<1>4. creditBalance[c] \in Nat /\ creditDisbursed[c] \in Nat BY DEF TypeOK
<1>5. PocketIn(c) \in Int /\ PocketOut(c) \in Int BY PocketInt
<1>6. creditBalance[c] + PocketOut(c) + creditDisbursed[c] = PocketIn(c)
  BY DEF PocketInv, PocketLaw
<1> HIDE DEF x, y
<1> QED BY <1>1, <1>2, <1>3, <1>4, <1>5, <1>6

LEMMA PocketCreate ==
  ASSUME TypeOK, TypeOK', PocketInv, "float_cent" \notin Acts, NEW p \in Payments,
         NEW c \in Customers, NEW t \in Figures, NEW apps \in [Invoices -> Figures],
         CreatePayment(p, c, t, apps)
  PROVE  PocketInv'
<1> DEFINE over == t - SumTo(apps, NumInvoices)
           credit == IF over > 1 THEN over ELSE 0
<1>1. /\ Records(p, c, t, apps) /\ apps \in [Invoices -> Money] /\ t \in Money
      /\ creditBalance' = [creditBalance EXCEPT ![c] = creditBalance[c] + credit]
  BY CreatePaymentRows DEF Pocketed
<1>2. over \in Int
  <2>1. SumTo(apps, NumInvoices) \in Money
    BY <1>1, ReceivablesAssumption, SumToMoney DEF Invoices
  <2>2. t \in Int /\ SumTo(apps, NumInvoices) \in Int BY <1>1, <2>1, MoneyFacts
  <2> QED BY <2>2
<1>3. Steady /\ \A q \in Payments : q # p => pay'[q] = pay[q]
  BY <1>1 DEF Records, Steady
<1>4. ASSUME NEW d \in Customers
      PROVE  creditBalance'[d] =
               creditBalance[d] + (PocketTerm(pay'[p], d) - PocketTerm(pay[p], d))
  <2>1. PocketTerm(pay[p], d) = 0 BY <1>1 DEF Records, PocketTerm
  <2>2. PocketTerm(pay'[p], d) = IF d = c THEN credit ELSE 0
    BY <1>1 DEF Records, PocketTerm
  <2>3. creditBalance \in [Customers -> Nat] BY DEF TypeOK
  <2> HIDE DEF over
  <2>4. credit \in Int BY <1>2
  <2> HIDE DEF credit
  <2> QED BY <1>1, <2>1, <2>2, <2>3, <2>4
<1> QED BY <1>1, <1>3, <1>4, PocketPayment DEF Records

LEMMA PocketImport ==
  ASSUME TypeOK, TypeOK', PocketInv, NEW p \in Payments, NEW c \in Customers,
         NEW apps \in [Invoices -> Amounts \cup {0}], ImportPayment(p, c, apps)
  PROVE  PocketInv'
<1> DEFINE t == SumTo(apps, NumInvoices)
<1>1. /\ Records(p, c, t, apps) /\ apps \in [Invoices -> Nat] /\ UNCHANGED creditBalance
  BY ImportPaymentRows
<1>2. t \in Nat BY <1>1, ReceivablesAssumption, SumToNat DEF Invoices
<1>3. Steady /\ \A q \in Payments : q # p => pay'[q] = pay[q]
  BY <1>1 DEF Records, Steady
<1>4. ASSUME NEW d \in Customers
      PROVE  creditBalance'[d] =
               creditBalance[d] + (PocketTerm(pay'[p], d) - PocketTerm(pay[p], d))
  <2>1. PocketTerm(pay[p], d) = 0 BY <1>1 DEF Records, PocketTerm
  <2>2. t - t = 0 BY <1>2
  <2>3. pay'[p].total - SumTo(pay'[p].apps, NumInvoices) = 0 BY <1>1, <2>2 DEF Records
  <2>4. PocketTerm(pay'[p], d) = 0 BY <2>3 DEF PocketTerm
  <2>5. creditBalance[d] \in Nat BY DEF TypeOK
  <2> QED BY <1>1, <2>1, <2>4, <2>5
<1> QED BY <1>1, <1>3, <1>4, PocketPayment DEF Records

LEMMA PocketUnwind ==
  ASSUME TypeOK, TypeOK', PocketInv, NEW p \in Payments,
         NEW state \in {"voided", "returned"}, Unwind(p, state)
  PROVE  PocketInv'
<1> DEFINE c == pay[p].customer
           over == pay[p].total - SumTo(pay[p].apps, NumInvoices)
           credit == IF over > 1 THEN over ELSE 0
<1>1. /\ pay[p].state = "recorded" /\ pay'[p].state # "recorded"
      /\ \A q \in Payments : q # p => pay'[q] = pay[q]
      /\ Steady /\ UNCHANGED <<creditApplied, creditDisbursed>>
  BY UnwindRows DEF Steady
<1>2. creditBalance' = [creditBalance EXCEPT ![c] = IF over > 1 THEN creditBalance[c] - over
                                                    ELSE creditBalance[c]]
  BY DEF Unwind, Overpaid, Applied
<1>3. over \in Int
  <2>1. pay[p].total \in Money BY DEF TypeOK, PaymentRecord
  <2>2. SumTo(pay[p].apps, NumInvoices) \in Money BY AppliedMoney DEF Applied
  <2>3. pay[p].total \in Int /\ SumTo(pay[p].apps, NumInvoices) \in Int
    BY <2>1, <2>2, MoneyFacts
  <2> QED BY <2>3
<1>4. ASSUME NEW d \in Customers
      PROVE  creditBalance'[d] =
               creditBalance[d] + (PocketTerm(pay'[p], d) - PocketTerm(pay[p], d))
  <2>1. PocketTerm(pay'[p], d) = 0 BY <1>1 DEF PocketTerm
  <2>2. PocketTerm(pay[p], d) = IF d = c THEN credit ELSE 0 BY <1>1 DEF PocketTerm
  <2>3. creditBalance \in [Customers -> Nat] BY DEF TypeOK
  <2> HIDE DEF over, c
  <2>4. CASE d = c BY <1>2, <1>3, <2>1, <2>2, <2>3, <2>4
  <2>5. CASE d # c
    <3>1. creditBalance'[d] = creditBalance[d] /\ creditBalance[d] \in Nat
      BY <1>2, <2>3, <2>5
    <3> QED BY <2>1, <2>2, <2>5, <3>1
  <2> QED BY <2>4, <2>5
<1> QED BY <1>1, <1>4, PocketPayment

LEMMA PocketApply ==
  ASSUME TypeOK, TypeOK', PocketInv, NEW c \in Customers, NEW i \in Invoices,
         NEW a \in Amounts, ApplyCredit(c, i, a)
  PROVE  PocketInv'
<1>1. /\ a \in Nat /\ inv[i].customer = c /\ inv[i].status # "none"
      /\ \A j \in Invoices : Same(inv[j], inv'[j])
      /\ creditBalance' = [creditBalance EXCEPT ![c] = creditBalance[c] - a]
      /\ creditApplied' = [creditApplied EXCEPT ![i] = creditApplied[i] + a]
      /\ UNCHANGED <<pay, creditDisbursed>>
  BY ApplyCreditRows
<1>2. ASSUME NEW j \in Invoices, inv'[j].status = "none" PROVE creditApplied'[j] = 0
  <2>1. inv[j].status = "none" /\ j # i BY <1>1, <1>2 DEF Same
  <2>2. creditApplied[j] = 0 BY <2>1 DEF PocketInv
  <2> QED BY <1>1, <2>1, <2>2 DEF TypeOK
<1>3. ASSUME NEW d \in Customers
      PROVE  creditBalance'[d] + PocketOut(d)' + creditDisbursed'[d] = PocketIn(d)'
  <2> DEFINE f == [j \in Invoices |-> IF inv[j].customer = d THEN creditApplied[j] ELSE 0]
             g == [j \in Invoices |-> IF inv'[j].customer = d THEN creditApplied'[j] ELSE 0]
  <2>1. NumInvoices \in Nat /\ Invoices = 1..NumInvoices
    BY ReceivablesAssumption DEF Invoices
  <2>2. f \in [1..NumInvoices -> Int] /\ g \in [1..NumInvoices -> Int]
    <3>1. \A j \in Invoices : creditApplied[j] \in Int /\ creditApplied'[j] \in Int
      BY DEF TypeOK
    <3> QED BY <2>1, <3>1
  <2>3. \A j \in 1..NumInvoices : j # i => g[j] = f[j]
    BY <1>1, <2>1 DEF TypeOK, Same
  <2>4. g[i] - f[i] = IF d = c THEN a ELSE 0
    <3>1. creditApplied'[i] = creditApplied[i] + a /\ creditApplied[i] \in Nat
      BY <1>1 DEF TypeOK
    <3>2. inv'[i].customer = c BY <1>1 DEF Same
    <3> QED BY <1>1, <3>1, <3>2
  <2>5. PocketOut(d) = SumTo(f, NumInvoices) /\ PocketOut(d)' = SumTo(g, NumInvoices)
    BY DEF PocketOut
  <2> HIDE DEF f, g
  <2>6. SumTo(g, NumInvoices) = SumTo(f, NumInvoices) + (g[i] - f[i])
    BY <2>1, <2>2, <2>3, SumToPoint
  <2>7. PocketIn(d)' = PocketIn(d) BY <1>1 DEF PocketIn, Overpaid, Applied
  <2>8. /\ creditBalance'[d] = creditBalance[d] - (IF d = c THEN a ELSE 0)
        /\ creditBalance[d] \in Nat /\ creditDisbursed[d] \in Nat
    BY <1>1 DEF TypeOK
  <2>9. PocketIn(d) \in Int /\ PocketOut(d) \in Int BY PocketInt
  <2>10. creditBalance[d] + PocketOut(d) + creditDisbursed[d] = PocketIn(d)
    BY DEF PocketInv, PocketLaw
  <2>11. PocketOut(d)' = PocketOut(d) + (IF d = c THEN a ELSE 0) BY <2>4, <2>5, <2>6
  <2> QED BY <1>1, <2>7, <2>8, <2>9, <2>10, <2>11
<1> QED BY <1>2, <1>3 DEF PocketInv, PocketLaw

LEMMA PocketDisburse ==
  ASSUME TypeOK, PocketInv, NEW c \in Customers, NEW a \in Amounts, DisburseCredit(c, a)
  PROVE  PocketInv'
<1>1. /\ UNCHANGED <<inv, pay, creditApplied>> /\ a \in Nat
      /\ creditBalance' = [creditBalance EXCEPT ![c] = creditBalance[c] - a]
      /\ creditDisbursed' = [creditDisbursed EXCEPT ![c] = creditDisbursed[c] + a]
  BY ReceivablesAssumption DEF DisburseCredit
<1>2. ASSUME NEW d \in Customers
      PROVE  creditBalance'[d] + PocketOut(d)' + creditDisbursed'[d] = PocketIn(d)'
  <2>1. PocketIn(d)' = PocketIn(d) /\ PocketOut(d)' = PocketOut(d)
    BY <1>1 DEF PocketIn, PocketOut, Overpaid, Applied
  <2>2. /\ creditBalance'[d] = creditBalance[d] - (IF d = c THEN a ELSE 0)
        /\ creditDisbursed'[d] = creditDisbursed[d] + (IF d = c THEN a ELSE 0)
        /\ creditBalance[d] \in Nat /\ creditDisbursed[d] \in Nat
    BY <1>1 DEF TypeOK
  <2>3. PocketIn(d) \in Int /\ PocketOut(d) \in Int BY PocketInt
  <2>4. creditBalance[d] + PocketOut(d) + creditDisbursed[d] = PocketIn(d)
    BY DEF PocketInv, PocketLaw
  <2> QED BY <1>1, <2>1, <2>2, <2>3, <2>4
<1> QED BY <1>1, <1>2 DEF PocketInv, PocketLaw

LEMMA PocketStep ==
  ASSUME TypeOK, TypeOK', PocketInv, Next, Acts \cap {"cash_receipts", "float_cent"} = {}
  PROVE  PocketInv'
<1>1. CASE InvoiceStep
  <2>1. Steady BY <1>1, InvoiceStepQuiet DEF Quiet, Steady
  <2>2. TotalsKept BY <1>1, InvoiceStepQuiet DEF TotalsKept, PaymentsKept
  <2> QED BY <1>1, <2>1, <2>2, InvoiceStepQuiet, PocketAside
<1>2. CASE LedgerStep
  <2>1. Steady BY <1>2, LedgerStepQuiet DEF Quiet, Steady
  <2> QED BY <1>2, <2>1, LedgerStepQuiet, PocketAside
<1>3. CASE MemoStep
  <2>1. /\ Steady
        /\ UNCHANGED <<pay, creditBalance, creditApplied, creditDisbursed>>
    BY <1>3, CreateCreditMemoRows, VoidCreditMemoRows DEF MemoStep, Steady
  <2>2. TotalsKept BY <2>1 DEF TotalsKept, PaymentsKept
  <2> QED BY <2>1, <2>2, PocketAside
<1>4. CASE PaymentStep
  <2>1. ASSUME NEW p \in Payments, NEW i \in Invoices, NEW a \in Amounts
        PROVE  ~ MatchCashReceipt(p, i, a)
    BY DEF MatchCashReceipt
  <2>2. "float_cent" \notin Acts OBVIOUS
  <2> QED BY <1>4, <2>1, <2>2, PocketCreate, PocketImport, PocketUnwind
          DEF PaymentStep, VoidPayment, ReturnPayment
<1>5. CASE CustomerStep
  <2>1. ASSUME UNCHANGED <<inv, pay, creditBalance, creditApplied, creditDisbursed>>
        PROVE  PocketInv'
    <3>1. TotalsKept BY <2>1 DEF TotalsKept, PaymentsKept
    <3>2. Steady BY <2>1 DEF Steady, Same
    <3> QED BY <2>1, <3>1, <3>2, PocketAside
  <2> QED BY <1>5, <2>1, PocketApply, PocketDisburse DEF CustomerStep, AdjustBalance, Sweep
<1> QED BY <1>1, <1>2, <1>3, <1>4, <1>5 DEF Next

(* Unless a cash receipt is matched or the float comparison takes a cent   *)
(* for more, a customer's pocket holds exactly what their recorded         *)
(* payments overpaid, less what was applied and disbursed: an overpayment  *)
(* that was spent keeps its payment from being undone, so no credit is     *)
(* spent twice and none outlives its payment.                              *)
THEOREM PocketHoldsLaw ==
  ASSUME Acts \cap {"cash_receipts", "float_cent"} = {}
  PROVE  Spec => []PocketLaw
<1>1. ASSUME TypeOK, PocketInv, UNCHANGED vars PROVE TypeOK' /\ PocketInv'
  <2>1. TypeOK' /\ UNCHANGED <<inv, pay, creditBalance, creditApplied, creditDisbursed>>
    BY <1>1 DEF TypeOK, vars
  <2>2. TotalsKept BY <2>1 DEF TotalsKept, PaymentsKept
  <2>3. Steady BY <2>1 DEF Steady, Same
  <2> QED BY <1>1, <2>1, <2>2, <2>3, PocketAside
<1>2. TypeOK /\ PocketInv /\ [Next]_vars => (TypeOK /\ PocketInv)'
  BY <1>1, TypeStep, PocketStep
<1>3. PocketInv => PocketLaw BY DEF PocketInv
<1> QED BY TypeInit, PocketInit, <1>2, <1>3, PTL DEF Spec

(* --- no settlement beyond the total ------------------------------------ *)

Patches  == {"patch_draft", "patch_issued"}
Settlers == {"honor_ineligible", "pay_twice_in_one", "cash_receipts", "below_zero"}

(* How one step may move an invoice: what it takes off a balance was       *)
(* there, and what it marks paid owes nothing.                             *)
Settles(r, s) ==
  /\ Balance(s) >= 0 \/ Balance(s) >= Balance(r)
  /\ s.status = "paid" => \/ Balance(s) <= 0
                          \/ r.status = "paid" /\ Balance(s) = Balance(r)
                          \/ r.credited < 0
                          \/ Acts \cap Patches # {}

Settling == \A i \in Invoices : Settles(inv[i], inv'[i])

LEMMA SettlesStays ==
  ASSUME NEW r \in InvoiceRecord
  PROVE  Settles(r, r)
<1>1. Balance(r) \in Int BY BalanceInt
<1> QED BY <1>1 DEF Settles

LEMMA SettlingAside ==
  ASSUME TypeOK, UNCHANGED inv
  PROVE  Settling
BY SettlesStays DEF Settling, TypeOK

LEMMA SettlesReplaced ==
  ASSUME TypeOK, NEW i, NEW r, inv' = [inv EXCEPT ![i] = r],
         i \in Invoices => Settles(inv[i], r)
  PROVE  Settling
<1> SUFFICES ASSUME NEW j \in Invoices PROVE Settles(inv[j], inv'[j])
  BY DEF Settling
<1>1. inv \in [Invoices -> InvoiceRecord] BY DEF TypeOK
<1>2. CASE j = i
  <2>1. inv'[j] = r BY <1>1, <1>2
  <2> QED BY <1>2, <2>1
<1>3. CASE j # i
  <2>1. inv'[j] = inv[j] /\ inv[j] \in InvoiceRecord BY <1>1, <1>3
  <2> QED BY <2>1, SettlesStays
<1> QED BY <1>2, <1>3

(* A change of words only. *)
LEMMA SettlesWords ==
  ASSUME NEW r \in InvoiceRecord, NEW s,
         s.total = r.total, s.paid = r.paid, s.credited = r.credited,
         s.writtenOff = r.writtenOff,
         s.status = "paid" => r.status = "paid" \/ Acts \cap Patches # {}
  PROVE  Settles(r, s)
<1>1. Balance(s) = Balance(r) BY DEF Balance
<1>2. Balance(r) \in Int BY BalanceInt
<1> QED BY <1>1, <1>2 DEF Settles

(* A re-derived invoice. *)
LEMMA SettlesRecompute ==
  ASSUME NEW r \in InvoiceRecord, NEW q \in InvoiceRecord,
         Balance(q) >= 0 \/ Balance(q) >= Balance(r)
  PROVE  Settles(r, Recompute(q))
<1> DEFINE s == Recompute(q)
<1>1. Balance(s) = Balance(q) /\ (s.status = "paid" => Balance(s) <= 0)
  BY RecomputeKeeps
<1> HIDE DEF s
<1>2. Settles(r, s) BY <1>1 DEF Settles
<1> QED BY <1>2 DEF s

LEMMA InvoiceStepSettles ==
  ASSUME TypeOK, InvoiceStep, Acts \cap Settlers = {}
  PROVE  Settling
<1>0. Money = Nat /\ Figures \subseteq Nat BY NatMoney DEF Settlers
<1>1. PICK i \in Invoices :
    \/ \E c \in Customers, o \in Orders \cup {NoOrder}, t \in Figures :
         CreateInvoice(i, c, o, t)
    \/ IssueInvoice(i) \/ VoidInvoice(i)
    \/ \E s \in {"sent", "partial", "paid", "void"} : PatchInvoice(i, s)
    \/ WriteOffInvoice(i) \/ ReinstateInvoice(i) \/ HonorDiscount(i)
  BY DEF InvoiceStep
<1>2. inv \in [Invoices -> InvoiceRecord] /\ inv[i] \in InvoiceRecord
  BY DEF TypeOK
<1>3. /\ inv[i].total \in Nat /\ inv[i].paid \in Nat /\ inv[i].credited \in Int
      /\ inv[i].writtenOff \in Nat
  BY <1>0, <1>2 DEF InvoiceRecord
<1>4. ASSUME NEW c \in Customers, NEW o \in Orders \cup {NoOrder}, NEW t \in Figures,
             CreateInvoice(i, c, o, t)
      PROVE  Settling
  <2>1. t \in Nat BY <1>0
  <2>2. Settles(inv[i], NewInvoice(c, o, t)) BY <2>1 DEF NewInvoice, Settles, Balance
  <2> QED BY <1>4, <2>2, SettlesReplaced DEF CreateInvoice
<1>5. CASE IssueInvoice(i)
  <2>1. PICK e : inv' = [inv EXCEPT ![i] = [inv[i] EXCEPT !.status = "sent", !.entry = e]]
    BY <1>5 DEF IssueInvoice
  <2> DEFINE r == [inv[i] EXCEPT !.status = "sent", !.entry = e]
  <2>2. /\ r.status = "sent" /\ r.total = inv[i].total /\ r.paid = inv[i].paid
        /\ r.credited = inv[i].credited /\ r.writtenOff = inv[i].writtenOff
    BY <1>2 DEF InvoiceRecord
  <2>3. inv' = [inv EXCEPT ![i] = r] BY <2>1
  <2> HIDE DEF r
  <2>4. Settles(inv[i], r) BY <1>2, <2>2, SettlesWords
  <2> QED BY <2>3, <2>4, SettlesReplaced
<1>6. CASE VoidInvoice(i)
  <2> DEFINE r == [inv[i] EXCEPT !.status = "void", !.entry = Undone(@)]
  <2>1. inv' = [inv EXCEPT ![i] = r] BY <1>6 DEF VoidInvoice
  <2>2. /\ r.status = "void" /\ r.total = inv[i].total /\ r.paid = inv[i].paid
        /\ r.credited = inv[i].credited /\ r.writtenOff = inv[i].writtenOff
    BY <1>2 DEF InvoiceRecord
  <2> HIDE DEF r
  <2>3. Settles(inv[i], r) BY <1>2, <2>2, SettlesWords
  <2> QED BY <2>1, <2>3, SettlesReplaced
<1>7. ASSUME NEW w \in {"sent", "partial", "paid", "void"}, PatchInvoice(i, w)
      PROVE  Settling
  <2> DEFINE r == [inv[i] EXCEPT !.status = w]
  <2>1. inv' = [inv EXCEPT ![i] = r] BY <1>7 DEF PatchInvoice
  <2>2. w = "paid" => Acts \cap Patches # {} BY <1>7 DEF PatchInvoice, Patches
  <2>3. /\ r.status = w /\ r.total = inv[i].total /\ r.paid = inv[i].paid
        /\ r.credited = inv[i].credited /\ r.writtenOff = inv[i].writtenOff
    BY <1>2 DEF InvoiceRecord
  <2> HIDE DEF r
  <2>4. Settles(inv[i], r) BY <1>2, <2>2, <2>3, SettlesWords
  <2> QED BY <2>1, <2>4, SettlesReplaced
<1>8. CASE WriteOffInvoice(i)
  <2> DEFINE rest == Balance(inv[i])
             r == [inv[i] EXCEPT !.writtenOff = rest, !.status = "write_off"]
  <2>1. inv' = [inv EXCEPT ![i] = r] BY <1>8 DEF WriteOffInvoice
  <2>2. rest = inv[i].total - inv[i].paid - inv[i].credited - inv[i].writtenOff
    BY DEF Balance
  <2> HIDE DEF rest
  <2>3. /\ r.status = "write_off" /\ r.total = inv[i].total /\ r.paid = inv[i].paid
        /\ r.credited = inv[i].credited /\ r.writtenOff = rest
    BY <1>2 DEF InvoiceRecord
  <2> HIDE DEF r
  <2>4. Balance(r) = inv[i].writtenOff BY <1>3, <2>2, <2>3 DEF Balance
  <2>5. Settles(inv[i], r) BY <1>3, <2>3, <2>4 DEF Settles
  <2> QED BY <2>1, <2>5, SettlesReplaced
<1>9. CASE ReinstateInvoice(i)
  <2> DEFINE q == [inv[i] EXCEPT !.writtenOff = 0, !.status = "sent"]
  <2>1. inv' = [inv EXCEPT ![i] = Recompute(q)] BY <1>9 DEF ReinstateInvoice
  <2>2. /\ q \in InvoiceRecord /\ q.total = inv[i].total /\ q.paid = inv[i].paid
        /\ q.credited = inv[i].credited /\ q.writtenOff = 0
    BY <1>2 DEF InvoiceRecord, InvoiceStatus
  <2> HIDE DEF q
  <2>3. Balance(q) >= Balance(inv[i]) BY <1>3, <2>2 DEF Balance
  <2>4. Settles(inv[i], Recompute(q)) BY <1>2, <2>2, <2>3, SettlesRecompute
  <2> QED BY <2>1, <2>4, SettlesReplaced
<1>10. CASE HonorDiscount(i)
  <2> DEFINE d == inv[i].total - inv[i].paid
             t == inv[i].total
             r == [inv[i] EXCEPT !.discount = d, !.paid = t, !.status = "paid"]
  <2>1. /\ inv' = [inv EXCEPT ![i] = r]
        /\ inv[i].credited = 0 /\ inv[i].writtenOff = 0
    BY <1>10 DEF HonorDiscount, Settlers
  <2> HIDE DEF d
  <2>2. /\ r.total = inv[i].total /\ r.paid = inv[i].total
        /\ r.credited = inv[i].credited /\ r.writtenOff = inv[i].writtenOff
    BY <1>2 DEF InvoiceRecord
  <2> HIDE DEF r
  <2>3. Balance(r) = 0 BY <1>3, <2>1, <2>2 DEF Balance
  <2>4. Settles(inv[i], r) BY <2>3 DEF Settles
  <2> QED BY <2>1, <2>4, SettlesReplaced
<1> QED BY <1>1, <1>4, <1>5, <1>6, <1>7, <1>8, <1>9, <1>10

LEMMA MemoStepSettles ==
  ASSUME TypeOK, MemoStep
  PROVE  Settling
<1>1. ASSUME NEW m \in Memos, NEW i \in Invoices, NEW a \in Amounts,
             CreateCreditMemo(m, i, a)
      PROVE  Settling
  <2> DEFINE q == [inv[i] EXCEPT !.credited = @ + a]
  <2>1. inv[i] \in InvoiceRecord /\ a \in Nat BY ReceivablesAssumption DEF TypeOK
  <2>2. inv' = [inv EXCEPT ![i] = Recompute(q)] /\ a <= Balance(inv[i])
    BY <1>1 DEF CreateCreditMemo
  <2>3. /\ q \in InvoiceRecord /\ q.total = inv[i].total /\ q.paid = inv[i].paid
        /\ q.credited = inv[i].credited + a /\ q.writtenOff = inv[i].writtenOff
    BY <2>1 DEF InvoiceRecord
  <2> HIDE DEF q
  <2>4. /\ inv[i].total \in Int /\ inv[i].paid \in Int /\ inv[i].credited \in Int
        /\ inv[i].writtenOff \in Int
    BY <2>1, MoneyFacts DEF InvoiceRecord
  <2>5. Balance(q) >= 0 BY <2>1, <2>2, <2>3, <2>4 DEF Balance
  <2>6. Settles(inv[i], Recompute(q)) BY <2>1, <2>3, <2>5, SettlesRecompute
  <2> QED BY <2>2, <2>6, SettlesReplaced
<1>2. ASSUME NEW m \in Memos, VoidCreditMemo(m)
      PROVE  Settling
  <2> DEFINE i == memo[m].invoice
             a == memo[m].amount
             q == [inv[i] EXCEPT !.credited = @ - a]
  <2>1. inv' = [inv EXCEPT ![i] = Recompute(q)] BY <1>2 DEF VoidCreditMemo
  <2>2. a \in Nat BY DEF TypeOK, MemoRecord
  <2> HIDE DEF i, a
  <2>3. ASSUME i \in Invoices PROVE Settles(inv[i], Recompute(q))
    <3>1. inv[i] \in InvoiceRecord BY <2>3 DEF TypeOK
    <3>2. /\ q \in InvoiceRecord /\ q.total = inv[i].total /\ q.paid = inv[i].paid
          /\ q.credited = inv[i].credited - a /\ q.writtenOff = inv[i].writtenOff
      BY <2>2, <3>1 DEF InvoiceRecord
    <3> HIDE DEF q
    <3>3. /\ inv[i].total \in Int /\ inv[i].paid \in Int /\ inv[i].credited \in Int
          /\ inv[i].writtenOff \in Int
      BY <3>1, MoneyFacts DEF InvoiceRecord
    <3>4. Balance(q) >= Balance(inv[i]) BY <2>2, <3>2, <3>3 DEF Balance
    <3> QED BY <3>1, <3>2, <3>4, SettlesRecompute
  <2> HIDE DEF q
  <2> QED BY <2>1, <2>3, SettlesReplaced
<1> QED BY <1>1, <1>2 DEF MemoStep

LEMMA RecordSettles ==
  ASSUME Money = Nat, TypeOK, Acts \cap Settlers = {}, NEW c, NEW apps \in [Invoices -> Nat],
         \A i \in Invoices : apps[i] # 0 => Applicable(i, c, apps[i]),
         inv' = [i \in Invoices |-> IF apps[i] # 0 THEN Paid(inv[i], apps[i]) ELSE inv[i]]
  PROVE  Settling
<1> SUFFICES ASSUME NEW i \in Invoices PROVE Settles(inv[i], inv'[i])
  BY DEF Settling
<1> DEFINE a == apps[i]
           s == Paid(inv[i], a)
<1>1. inv[i] \in InvoiceRecord /\ a \in Nat BY DEF TypeOK
<1>2. CASE a # 0
  <2>1. a <= Balance(inv[i]) BY <1>2 DEF Applicable, Settlers
  <2>2. inv'[i] = s BY <1>2
  <2>0. a > 0 BY <1>1, <1>2
  <2>3. /\ s.credited = inv[i].credited /\ s.writtenOff = inv[i].writtenOff
        /\ s.total = inv[i].total /\ s.paid = inv[i].paid + a
        /\ s.status = "paid" => inv[i].paid + a >= inv[i].total
    BY <1>1, <2>0, PaidKeeps
  <2> HIDE DEF s, a
  <2>4. /\ inv[i].total \in Nat /\ inv[i].paid \in Nat /\ inv[i].credited \in Int
        /\ inv[i].writtenOff \in Nat
    BY <1>1 DEF InvoiceRecord
  <2>5. Balance(s) >= 0 BY <1>1, <2>1, <2>3, <2>4 DEF Balance
  <2>6. s.status = "paid" => Balance(s) <= 0 \/ inv[i].credited < 0
    BY <1>1, <2>3, <2>4 DEF Balance
  <2> QED BY <2>2, <2>5, <2>6 DEF Settles
<1>3. CASE ~ (a # 0)
  <2>1. inv'[i] = inv[i] BY <1>3
  <2> QED BY <1>1, <2>1, SettlesStays
<1> QED BY <1>2, <1>3

LEMMA UnwindSettles ==
  ASSUME Money = Nat, TypeOK, NEW p \in Payments, NEW state \in {"voided", "returned"}, Unwind(p, state)
  PROVE  Settling
<1> SUFFICES ASSUME NEW i \in Invoices PROVE Settles(inv[i], inv'[i])
  BY DEF Settling
<1> DEFINE a == pay[p].apps[i]
           s == Unpaid(inv[i], a)
<1>1. inv[i] \in InvoiceRecord /\ a \in Nat BY DEF TypeOK, PaymentRecord
<1>2. inv'[i] = s \/ inv'[i] = inv[i] BY DEF Unwind
<1>3. Balance(s) >= Balance(inv[i]) /\ (s.status = "paid" => Balance(s) <= 0)
  BY <1>1, UnpaidKeeps
<1> HIDE DEF s
<1>4. Settles(inv[i], s) BY <1>3 DEF Settles
<1> QED BY <1>1, <1>2, <1>4, SettlesStays

LEMMA ApplyCreditSettles ==
  ASSUME TypeOK, NEW c \in Customers, NEW i \in Invoices, NEW a \in Amounts,
         ApplyCredit(c, i, a)
  PROVE  Settling
<1> DEFINE q == [inv[i] EXCEPT !.paid = @ + a]
<1>1. inv[i] \in InvoiceRecord /\ a \in Nat BY ReceivablesAssumption DEF TypeOK
<1>2. inv' = [inv EXCEPT ![i] = Recompute(q)] /\ a <= Balance(inv[i]) BY DEF ApplyCredit
<1>0. /\ inv[i].total \in Int /\ inv[i].paid \in Int /\ inv[i].credited \in Int
      /\ inv[i].writtenOff \in Int /\ inv[i].paid + a \in Money
  BY <1>1, MoneyFacts DEF InvoiceRecord
<1>3. /\ q \in InvoiceRecord /\ q.total = inv[i].total /\ q.paid = inv[i].paid + a
      /\ q.credited = inv[i].credited /\ q.writtenOff = inv[i].writtenOff
  BY <1>0, <1>1 DEF InvoiceRecord
<1> HIDE DEF q
<1>5. Balance(q) >= 0 BY <1>0, <1>1, <1>2, <1>3 DEF Balance
<1>6. Settles(inv[i], Recompute(q)) BY <1>1, <1>3, <1>5, SettlesRecompute
<1> QED BY <1>2, <1>6, SettlesReplaced

LEMMA NextSettles ==
  ASSUME TypeOK, [Next]_vars, Acts \cap Settlers = {}
  PROVE  Settling
<1>0. Money = Nat /\ Figures \subseteq Nat BY NatMoney DEF Settlers
<1>1. CASE PaymentStep
  <2>1. ASSUME NEW apps \in [Invoices -> Amounts \cup {0}] PROVE apps \in [Invoices -> Nat]
    <3>1. Amounts \cup {0} \subseteq Nat BY ReceivablesAssumption
    <3> QED BY <3>1
  <2>2. ASSUME NEW p \in Payments, NEW c \in Customers, NEW t \in Figures,
               NEW apps \in [Invoices -> Figures], CreatePayment(p, c, t, apps)
        PROVE  Settling
    <3>1. /\ \A i \in Invoices : apps[i] # 0 => Applicable(i, c, apps[i])
          /\ inv' = [i \in Invoices |-> IF apps[i] # 0 THEN Paid(inv[i], apps[i])
                                        ELSE inv[i]]
      BY <2>2 DEF CreatePayment
    <3>2. apps \in [Invoices -> Nat] BY <1>0
    <3> QED BY <1>0, <3>1, <3>2, RecordSettles
  <2>3. ASSUME NEW p \in Payments, NEW c \in Customers,
               NEW apps \in [Invoices -> Amounts \cup {0}], ImportPayment(p, c, apps)
        PROVE  Settling
    <3>0. apps \in [Invoices -> Nat] /\ \A i \in Invoices : apps[i] # 0 <=> apps[i] > 0
      BY <2>1
    <3>1. /\ \A i \in Invoices : apps[i] # 0 => Applicable(i, c, apps[i])
          /\ inv' = [i \in Invoices |-> IF apps[i] # 0 THEN Paid(inv[i], apps[i])
                                        ELSE inv[i]]
      BY <2>3, <3>0 DEF ImportPayment
    <3> QED BY <1>0, <3>0, <3>1, RecordSettles
  <2>4. ASSUME NEW p \in Payments, NEW i \in Invoices, NEW a \in Amounts
        PROVE  ~ MatchCashReceipt(p, i, a)
    BY DEF MatchCashReceipt, Settlers
  <2> QED BY <1>0, <1>1, <2>2, <2>3, <2>4, UnwindSettles DEF PaymentStep, VoidPayment, ReturnPayment
<1>2. CASE CustomerStep
  BY <1>2, ApplyCreditSettles, SettlingAside
  DEF CustomerStep, DisburseCredit, AdjustBalance, Sweep
<1>3. CASE LedgerStep
  <2>1. ASSUME NEW i \in Invoices, NEW f \in EntryStatus, BookInvoiceEntry(i, f)
        PROVE  Settling
    <3> DEFINE r == [inv[i] EXCEPT !.entry = f]
    <3>1. inv' = [inv EXCEPT ![i] = r] /\ inv[i] \in InvoiceRecord
      BY <2>1 DEF BookInvoiceEntry, TypeOK
    <3>2. /\ r.status = inv[i].status /\ r.total = inv[i].total /\ r.paid = inv[i].paid
          /\ r.credited = inv[i].credited /\ r.writtenOff = inv[i].writtenOff
      BY <3>1 DEF InvoiceRecord
    <3> HIDE DEF r
    <3>3. Settles(inv[i], r) BY <3>1, <3>2, SettlesWords
    <3> QED BY <3>1, <3>3, SettlesReplaced
  <2> QED BY <1>3, <2>1, SettlingAside
          DEF LedgerStep, ApplyDiscount, BookPaymentEntry, LockPeriod
<1>4. CASE UNCHANGED vars BY <1>4, SettlingAside DEF vars
<1> QED BY <1>1, <1>2, <1>3, <1>4, InvoiceStepSettles, MemoStepSettles DEF Next

LEMMA NeverOverStep ==
  ASSUME TypeOK, TypeOK', NeverOverSettled, Settling
  PROVE  NeverOverSettled'
<1> SUFFICES ASSUME NEW i \in Invoices PROVE Balance(inv'[i]) >= 0
  BY DEF NeverOverSettled
<1>1. Balance(inv[i]) \in Int /\ Balance(inv'[i]) \in Int BY BalanceInt DEF TypeOK
<1>2. Balance(inv[i]) >= 0 BY DEF NeverOverSettled
<1>3. Balance(inv'[i]) >= 0 \/ Balance(inv'[i]) >= Balance(inv[i])
  BY DEF Settling, Settles
<1> QED BY <1>1, <1>2, <1>3

LEMMA NeverOverInit == Init => NeverOverSettled /\ PaidMeansSettled
BY DEF Init, NeverOverSettled, PaidMeansSettled, NoInvoice, NewInvoice, Balance

(* Unless an ineligible discount is honoured, one payment pays an invoice  *)
(* twice, a cash receipt is matched or less than nothing is asked for, no  *)
(* invoice is ever settled beyond its total, whatever payments, memos,     *)
(* credits and write-offs meet on it.                                      *)
THEOREM NeverOverHolds ==
  ASSUME Acts \cap Settlers = {}
  PROVE  Spec => []NeverOverSettled
<1>1. ASSUME TypeOK, NeverOverSettled, [Next]_vars PROVE TypeOK' /\ NeverOverSettled'
  <2>1. TypeOK' BY <1>1, TypeStep DEF TypeOK, vars
  <2>2. Settling BY <1>1, NextSettles
  <2> QED BY <1>1, <2>1, <2>2, NeverOverStep
<1>2. TypeOK /\ NeverOverSettled /\ [Next]_vars => (TypeOK /\ NeverOverSettled)' BY <1>1
<1> QED BY TypeInit, NeverOverInit, <1>2, PTL DEF Spec

(* If moreover no PATCH writes a settled status, a paid invoice owes       *)
(* nothing.  The payment marks an invoice paid without looking at its      *)
(* credits, and is right because what was credited is never negative: it   *)
(* is the sum of the posted memos.                                         *)
THEOREM PaidSettledHolds ==
  ASSUME Acts \cap (Settlers \cup Patches) = {}
  PROVE  Spec => []PaidMeansSettled
<1>1. ASSUME TypeOK, CreditInv, NeverOverSettled, PaidMeansSettled, [Next]_vars
      PROVE  NeverOverSettled' /\ PaidMeansSettled'
  <2>1. TypeOK' BY <1>1, TypeStep DEF TypeOK, vars
  <2>2. Settling BY <1>1, NextSettles
  <2>3. NeverOverSettled' BY <1>1, <2>1, <2>2, NeverOverStep
  <2>4. ASSUME NEW i \in Invoices, inv'[i].status = "paid" PROVE Balance(inv'[i]) = 0
    <3>1. inv[i].credited \in Nat
      BY <1>1, PostedMemosNat DEF CreditInv, CreditedIsBacked
    <3>2. \/ Balance(inv'[i]) <= 0
          \/ inv[i].status = "paid" /\ Balance(inv'[i]) = Balance(inv[i])
      BY <2>2, <2>4, <3>1 DEF Settling, Settles
    <3>3. Balance(inv'[i]) >= 0 /\ Balance(inv'[i]) \in Int
      BY <2>1, <2>3, BalanceInt DEF NeverOverSettled, TypeOK
    <3> QED BY <1>1, <3>2, <3>3 DEF PaidMeansSettled
  <2> QED BY <2>3, <2>4 DEF PaidMeansSettled
<1>2. TypeOK /\ CreditInv /\ NeverOverSettled /\ PaidMeansSettled /\ [Next]_vars
        => (NeverOverSettled /\ PaidMeansSettled)'
  BY <1>1
<1> QED BY NeverOverInit, AlwaysCredited, <1>2, PTL DEF Spec

(* --- the ledger implements the plain customer account ------------------ *)

MoneyTerm(q, c) == IF q.state = "recorded" /\ q.customer = c THEN q.total ELSE 0

LEMMA MoneyTermInt ==
  ASSUME NEW q \in PaymentRecord, NEW c
  PROVE  MoneyTerm(q, c) \in Int
BY MoneyFacts DEF MoneyTerm, PaymentRecord

LEMMA MoneyInInt ==
  ASSUME TypeOK, NEW c
  PROVE  MoneyIn(c) \in Int
<1> DEFINE f == [q \in Payments |-> MoneyTerm(pay[q], c)]
<1>1. NumPayments \in Nat /\ Payments = 1..NumPayments
  BY ReceivablesAssumption DEF Payments
<1>2. f \in [1..NumPayments -> Int]
  BY <1>1, MoneyTermInt DEF TypeOK
<1>3. MoneyIn(c) = SumTo(f, NumPayments)
  BY DEF MoneyIn, MoneyTerm
<1> HIDE DEF f
<1> QED BY <1>1, <1>2, <1>3, SumToInt

LEMMA MoneyInStep ==
  ASSUME TypeOK, TypeOK', NEW p \in Payments, NEW c,
         \A q \in Payments : q # p => pay'[q] = pay[q]
  PROVE  MoneyIn(c)' = MoneyIn(c) + (MoneyTerm(pay'[p], c) - MoneyTerm(pay[p], c))
<1> DEFINE f == [q \in Payments |-> MoneyTerm(pay[q], c)]
           g == [q \in Payments |-> MoneyTerm(pay'[q], c)]
<1>1. NumPayments \in Nat /\ Payments = 1..NumPayments
  BY ReceivablesAssumption DEF Payments
<1>2. f \in [1..NumPayments -> Int] /\ g \in [1..NumPayments -> Int]
  BY <1>1, MoneyTermInt DEF TypeOK
<1>3. \A q \in 1..NumPayments : q # p => g[q] = f[q] BY <1>1
<1>4. MoneyIn(c) = SumTo(f, NumPayments) /\ MoneyIn(c)' = SumTo(g, NumPayments)
  BY DEF MoneyIn, MoneyTerm
<1>5. f[p] = MoneyTerm(pay[p], c) /\ g[p] = MoneyTerm(pay'[p], c) OBVIOUS
<1> HIDE DEF f, g
<1>6. SumTo(g, NumPayments) = SumTo(f, NumPayments) + (g[p] - f[p])
  BY <1>1, <1>2, <1>3, SumToPoint
<1> QED BY <1>4, <1>5, <1>6

LEMMA CashKept ==
  ASSUME TotalsKept, UNCHANGED creditDisbursed
  PROVE  Cash' = Cash
<1>1. \A c \in Customers : MoneyIn(c)' = MoneyIn(c)
  BY DEF MoneyIn, TotalsKept, PaymentsKept
<1> QED BY <1>1 DEF Cash

LEMMA CashInt ==
  ASSUME TypeOK
  PROVE  Cash \in [Customers -> Int]
<1>1. \A c \in Customers : MoneyIn(c) \in Int /\ creditDisbursed[c] \in Int
  BY MoneyInInt DEF TypeOK
<1> QED BY <1>1 DEF Cash

(* What the law and the bound on settlements say together: no customer's   *)
(* running balance is below zero.                                          *)
LEMMA BalanceNat ==
  ASSUME TypeOK, BalanceLaw, NeverOverSettled
  PROVE  currentBalance \in [Customers -> Nat]
<1>1. ASSUME NEW c \in Customers PROVE currentBalance[c] \in Nat
  <2> DEFINE f == [i \in Invoices |-> Owed(i, c)]
  <2>1. NumInvoices \in Nat /\ Invoices = 1..NumInvoices
    BY ReceivablesAssumption DEF Invoices
  <2>2. \A i \in Invoices : Owed(i, c) \in Nat
    <3>1. \A i \in Invoices : Balance(inv[i]) \in Int /\ Balance(inv[i]) >= 0
      BY BalanceInt DEF TypeOK, NeverOverSettled
    <3> QED BY <3>1 DEF Owed
  <2>3. f \in [1..NumInvoices -> Nat]
    BY <2>1, <2>2
  <2>4. OpenTotal(c) = SumTo(f, NumInvoices)
    BY DEF OpenTotal
  <2> HIDE DEF f
  <2> QED BY <2>1, <2>3, <2>4, SumToNat DEF BalanceLaw
<1> QED BY <1>1 DEF TypeOK

(* The same of the state a step leads to. *)
LEMMA NextBalanceNat ==
  (TypeOK /\ BalanceLaw /\ NeverOverSettled)' => (currentBalance \in [Customers -> Nat])'
<1>1. TypeOK /\ BalanceLaw /\ NeverOverSettled => currentBalance \in [Customers -> Nat]
  BY BalanceNat
<1> QED BY <1>1, PTL

LEMMA NextCashInt == TypeOK' => (Cash \in [Customers -> Int])'
<1>1. TypeOK => Cash \in [Customers -> Int]
  BY CashInt
<1> QED BY <1>1, PTL

(* A payment applies no more than its total. *)
Fits == \A p \in Payments : pay[p].state = "recorded" => Applied(p) <= pay[p].total

(* Everything the implementation needs. *)
AccountsInv == IInv /\ NeverOverSettled /\ Fits

(* A step that leaves the accounts of all customers but c0 as they are. *)
Elsewhere(c0) ==
  \A d \in Customers \ {c0} : /\ currentBalance'[d] = currentBalance[d]
                              /\ creditBalance'[d] = creditBalance[d]
                              /\ Cash'[d] = Cash[d]

LEMMA OneEvent ==
  ASSUME TypeOK, AccountsInv', NEW c0, Elsewhere(c0),
         c0 \in Customers => Accounts!Event(c0)
  PROVE  Accounts!Next \/ UNCHANGED Accounts!accounts
<1>0. TypeOK' /\ BalanceLaw' /\ NeverOverSettled'
  BY DEF AccountsInv, IInv
<1>1. /\ currentBalance' \in [Customers -> Nat] /\ creditBalance' \in [Customers -> Nat]
      /\ Cash' \in [Customers -> Int]
  <2>1. currentBalance' \in [Customers -> Nat]
    BY <1>0, NextBalanceNat
  <2>2. Cash' \in [Customers -> Int]
    BY <1>0, NextCashInt
  <2> QED BY <1>0, <2>1, <2>2 DEF TypeOK
<1>2. /\ currentBalance \in [Customers -> Int] /\ creditBalance \in [Customers -> Nat]
      /\ Cash \in [Customers -> Int]
  BY CashInt DEF TypeOK
<1>3. CASE c0 \in Customers
  BY <1>1, <1>3 DEF Accounts!Next, Accounts!Others, Elsewhere
<1>4. CASE c0 \notin Customers
  <2>1. currentBalance' = currentBalance /\ creditBalance' = creditBalance /\ Cash' = Cash
    BY <1>1, <1>2, <1>4 DEF Elsewhere
  <2> QED BY <2>1 DEF Accounts!accounts
<1> QED BY <1>3, <1>4

(* A call that bills a customer, or forgives, and moves no money. *)
LEMMA BillEvent ==
  ASSUME TypeOK, AccountsInv', NEW c0, NEW d, ReduceAR(c0, d),
         UNCHANGED <<creditBalance, Cash>>
  PROVE  Accounts!Next \/ UNCHANGED Accounts!accounts
<1>1. Elsewhere(c0)
  BY DEF Elsewhere, ReduceAR, TypeOK
<1>2. ASSUME c0 \in Customers PROVE Accounts!Event(c0)
  <2>1. creditBalance'[c0] - creditBalance[c0] = 0 /\ Cash'[c0] - Cash[c0] = 0
    <3>1. creditBalance[c0] \in Int /\ Cash[c0] \in Int
      BY <1>2, CashInt DEF TypeOK
    <3> QED BY <3>1
  <2> QED BY <2>1 DEF Accounts!Event, Accounts!Billed
<1> QED BY <1>1, <1>2, OneEvent

LEMMA AccountsAside ==
  ASSUME UNCHANGED <<currentBalance, creditBalance, creditDisbursed>>, TotalsKept
  PROVE  UNCHANGED Accounts!accounts
BY CashKept DEF Accounts!accounts

LEMMA InvoiceStepEvent ==
  ASSUME TypeOK, AccountsInv', InvoiceStep
  PROVE  Accounts!Next \/ UNCHANGED Accounts!accounts
<1>1. TotalsKept /\ UNCHANGED <<creditBalance, creditDisbursed>>
  BY InvoiceStepQuiet DEF TotalsKept, PaymentsKept
<1>2. Cash' = Cash BY <1>1, CashKept
<1>3. PICK i \in Invoices :
        \/ \E c \in Customers, o \in Orders \cup {NoOrder}, t \in Figures :
             CreateInvoice(i, c, o, t)
        \/ IssueInvoice(i) \/ VoidInvoice(i)
        \/ \E s \in {"sent", "partial", "paid", "void"} : PatchInvoice(i, s)
        \/ WriteOffInvoice(i) \/ ReinstateInvoice(i) \/ HonorDiscount(i)
  BY DEF InvoiceStep
<1>4. UNCHANGED currentBalance \/ \E d : ReduceAR(inv[i].customer, d)
  <2>1. CASE IssueInvoice(i)
    <3>1. ReduceAR(inv[i].customer, -inv[i].total) BY <2>1 DEF IssueInvoice
    <3> QED BY <3>1
  <2>2. CASE VoidInvoice(i)
    <3>1. UNCHANGED currentBalance \/ ReduceAR(inv[i].customer, Balance(inv[i]))
      BY <2>2 DEF VoidInvoice
    <3> QED BY <3>1
  <2>3. CASE WriteOffInvoice(i)
    <3>1. ReduceAR(inv[i].customer, Balance(inv[i])) BY <2>3 DEF WriteOffInvoice
    <3> QED BY <3>1
  <2>4. CASE ReinstateInvoice(i)
    <3>1. ReduceAR(inv[i].customer, -inv[i].writtenOff) BY <2>4 DEF ReinstateInvoice
    <3> QED BY <3>1
  <2>5. CASE HonorDiscount(i)
    <3>1. ReduceAR(inv[i].customer, inv[i].total - inv[i].paid) BY <2>5 DEF HonorDiscount
    <3> QED BY <3>1
  <2> QED BY <1>3, <2>1, <2>2, <2>3, <2>4, <2>5 DEF CreateInvoice, PatchInvoice
<1> QED BY <1>1, <1>2, <1>4, BillEvent, AccountsAside

LEMMA MemoStepEvent ==
  ASSUME TypeOK, AccountsInv', MemoStep
  PROVE  Accounts!Next \/ UNCHANGED Accounts!accounts
<1>1. UNCHANGED <<pay, creditBalance, creditDisbursed>> /\ \E c, d : ReduceAR(c, d)
  BY DEF MemoStep, CreateCreditMemo, VoidCreditMemo
<1>2. Cash' = Cash BY <1>1, CashKept DEF TotalsKept, PaymentsKept
<1> QED BY <1>1, <1>2, BillEvent

(* What one recorded or undone payment does to the money of the customers. *)
LEMMA CashOfPayment ==
  ASSUME TypeOK, TypeOK', NEW p \in Payments, UNCHANGED creditDisbursed,
         \A q \in Payments : q # p => pay'[q] = pay[q], NEW c \in Customers
  PROVE  Cash'[c] - Cash[c] = MoneyTerm(pay'[p], c) - MoneyTerm(pay[p], c)
<1>1. MoneyIn(c)' = MoneyIn(c) + (MoneyTerm(pay'[p], c) - MoneyTerm(pay[p], c))
  BY MoneyInStep
<1>2. MoneyTerm(pay'[p], c) \in Int /\ MoneyTerm(pay[p], c) \in Int
  BY MoneyTermInt DEF TypeOK
<1>3. MoneyIn(c) \in Int /\ creditDisbursed[c] \in Int
  BY MoneyInInt DEF TypeOK
<1>4. Cash[c] = MoneyIn(c) - creditDisbursed[c] /\ Cash'[c] = MoneyIn(c)' - creditDisbursed[c]
  BY DEF Cash
<1> QED BY <1>1, <1>2, <1>3, <1>4

(* A payment of t that applies a and pockets k, recorded. *)
LEMMA RecordEvent ==
  ASSUME TypeOK, AccountsInv', NEW p \in Payments, NEW c \in Customers, NEW t \in Nat,
         NEW apps \in [Invoices -> Nat], Records(p, c, t, apps), NEW a \in Nat, NEW k \in Nat,
         ReduceAR(c, a), creditBalance' = [creditBalance EXCEPT ![c] = @ + k],
         t = k + a \/ (k = 0 /\ t = a + 1)
  PROVE  Accounts!Next \/ UNCHANGED Accounts!accounts
<1>1. TypeOK' BY DEF AccountsInv, IInv
<1>2. ASSUME NEW d \in Customers PROVE Cash'[d] - Cash[d] = IF d = c THEN t ELSE 0
  <2>1. Cash'[d] - Cash[d] = MoneyTerm(pay'[p], d) - MoneyTerm(pay[p], d)
    BY <1>1, CashOfPayment DEF Records
  <2> QED BY <2>1 DEF Records, MoneyTerm
<1>3. \A d \in Customers : Cash[d] \in Int /\ Cash'[d] \in Int
  BY <1>1, CashInt, NextCashInt
<1>4. Elsewhere(c)
  <2> SUFFICES ASSUME NEW d \in Customers \ {c}
               PROVE  /\ currentBalance'[d] = currentBalance[d]
                      /\ creditBalance'[d] = creditBalance[d]
                      /\ Cash'[d] = Cash[d]
    BY DEF Elsewhere
  <2>1. Cash'[d] = Cash[d] BY <1>2, <1>3
  <2> QED BY <2>1 DEF ReduceAR, TypeOK
<1>5. /\ currentBalance'[c] - currentBalance[c] = -a
      /\ creditBalance'[c] - creditBalance[c] = k
      /\ Cash'[c] - Cash[c] = t
  <2>1. currentBalance[c] \in Int /\ creditBalance[c] \in Int
        /\ currentBalance'[c] = currentBalance[c] - a /\ creditBalance'[c] = creditBalance[c] + k
    BY DEF ReduceAR, TypeOK
  <2> QED BY <1>2, <2>1
<1>6. Accounts!Received(-a, k, t)
  BY DEF Accounts!Received
<1> QED BY <1>4, <1>5, <1>6, OneEvent DEF Accounts!Event

(* A payment undone gives back what it applied and what it pocketed. *)
LEMMA UnwindEvent ==
  ASSUME Money = Nat, TypeOK, AccountsInv, AccountsInv', NEW p \in Payments,
         NEW state \in {"voided", "returned"}, Unwind(p, state)
  PROVE  Accounts!Next \/ UNCHANGED Accounts!accounts
<1> DEFINE c == pay[p].customer
           a == Applied(p)
           t == pay[p].total
           k == IF t - a > 1 THEN t - a ELSE 0
<1>0. TypeOK' BY DEF AccountsInv, IInv
<1>1. /\ pay[p].state = "recorded" /\ pay'[p].state # "recorded" /\ UNCHANGED creditDisbursed
      /\ \A q \in Payments : q # p => pay'[q] = pay[q]
  BY UnwindRows
<1>2. a \in Nat /\ t \in Nat /\ a <= t
  BY <1>1, AppliedMoney DEF AccountsInv, Fits, TypeOK, PaymentRecord
<1>3. /\ ReduceAR(c, -a)
      /\ creditBalance' = [creditBalance EXCEPT ![c] = IF t - a > 1 THEN @ - (t - a) ELSE @]
  BY DEF Unwind, Overpaid
<1>4. ASSUME NEW d \in Customers PROVE Cash'[d] - Cash[d] = IF d = c THEN -t ELSE 0
  <2>1. Cash'[d] - Cash[d] = MoneyTerm(pay'[p], d) - MoneyTerm(pay[p], d)
    BY <1>0, <1>1, CashOfPayment
  <2>2. MoneyTerm(pay'[p], d) = 0 /\ MoneyTerm(pay[p], d) = IF d = c THEN t ELSE 0
    BY <1>1 DEF MoneyTerm
  <2> HIDE DEF c, t
  <2> QED BY <1>2, <2>1, <2>2
<1>5. \A d \in Customers : Cash[d] \in Int /\ Cash'[d] \in Int
  BY <1>0, CashInt, NextCashInt
<1> HIDE DEF c, a, t
<1>6. Elsewhere(c)
  <2> SUFFICES ASSUME NEW d \in Customers \ {c}
               PROVE  /\ currentBalance'[d] = currentBalance[d]
                      /\ creditBalance'[d] = creditBalance[d]
                      /\ Cash'[d] = Cash[d]
    BY DEF Elsewhere
  <2>1. Cash'[d] = Cash[d] BY <1>4, <1>5
  <2> QED BY <1>3, <2>1 DEF ReduceAR, TypeOK
<1>7. ASSUME c \in Customers PROVE Accounts!Event(c)
  <2>1. /\ currentBalance[c] \in Int /\ creditBalance[c] \in Int
        /\ currentBalance'[c] = currentBalance[c] - (-a)
        /\ creditBalance'[c] = IF t - a > 1 THEN creditBalance[c] - (t - a) ELSE creditBalance[c]
    BY <1>3, <1>7 DEF ReduceAR, TypeOK
  <2>2. /\ currentBalance'[c] - currentBalance[c] = a
        /\ creditBalance'[c] - creditBalance[c] = -k
        /\ Cash'[c] - Cash[c] = -t
    BY <1>2, <1>4, <1>7, <2>1
  <2>3. k \in Nat /\ (t = k + a \/ (k = 0 /\ t = a + 1))
    BY <1>2
  <2> HIDE DEF k
  <2>4. Accounts!TakenBack(a, -k, -t)
    <3>1. -(-k) = k /\ -(-t) = t /\ -(-a) = a
      BY <1>2, <2>3
    <3>2. -a <= 0 /\ k >= 0 /\ (t = k - (-a) \/ (k = 0 /\ t = 1 - (-a)))
      BY <1>2, <2>3
    <3> QED BY <3>1, <3>2 DEF Accounts!TakenBack, Accounts!Received
  <2> QED BY <2>2, <2>4 DEF Accounts!Event
<1> QED BY <1>6, <1>7, OneEvent

LEMMA PaymentStepEvent ==
  ASSUME Money = Nat, TypeOK, AccountsInv, AccountsInv', PaymentStep,
         "cash_receipts" \notin Acts
  PROVE  Accounts!Next \/ UNCHANGED Accounts!accounts
<1>0. ASSUME NEW apps \in [Invoices -> Nat] PROVE SumTo(apps, NumInvoices) \in Nat
  BY ReceivablesAssumption, SumToNat DEF Invoices
<1>1. ASSUME NEW p \in Payments, NEW c \in Customers, NEW t \in Figures,
             NEW apps \in [Invoices -> Figures], CreatePayment(p, c, t, apps)
      PROVE  Accounts!Next \/ UNCHANGED Accounts!accounts
  <2> DEFINE a == SumTo(apps, NumInvoices)
  <2>1. /\ apps \in [Invoices -> Nat] /\ t \in Nat /\ Records(p, c, t, apps)
        /\ a <= t /\ \E k \in Pocketed(t - a) : creditBalance' = [creditBalance EXCEPT ![c] = @ + k]
    BY <1>1, CreatePaymentRows
  <2>2. a \in Nat BY <1>0, <2>1
  <2>3. ReduceAR(c, a) BY <1>1 DEF CreatePayment
  <2> HIDE DEF a
  <2>4. PICK k \in Pocketed(t - a) : creditBalance' = [creditBalance EXCEPT ![c] = @ + k]
    BY <2>1
  <2>5. k \in Nat /\ (t = k + a \/ (k = 0 /\ t = a + 1))
    BY <2>1, <2>2, <2>4 DEF Pocketed
  <2> QED BY <2>1, <2>2, <2>3, <2>4, <2>5, RecordEvent
<1>2. ASSUME NEW p \in Payments, NEW c \in Customers,
             NEW apps \in [Invoices -> Amounts \cup {0}], ImportPayment(p, c, apps)
      PROVE  Accounts!Next \/ UNCHANGED Accounts!accounts
  <2> DEFINE a == SumTo(apps, NumInvoices)
  <2>1. apps \in [Invoices -> Nat] /\ Records(p, c, a, apps) /\ UNCHANGED creditBalance
    BY <1>2, ImportPaymentRows
  <2>2. a \in Nat BY <1>0, <2>1
  <2>3. ReduceAR(c, a) BY <1>2 DEF ImportPayment
  <2> HIDE DEF a
  <2>4. creditBalance' = [creditBalance EXCEPT ![c] = @ + 0]
    <3>1. creditBalance[c] + 0 = creditBalance[c] BY DEF TypeOK
    <3>2. creditBalance = [creditBalance EXCEPT ![c] = creditBalance[c]] BY DEF TypeOK
    <3> QED BY <2>1, <3>1, <3>2
  <2>5. a = 0 + a BY <2>2
  <2> QED BY <2>1, <2>2, <2>3, <2>4, <2>5, RecordEvent
<1>3. ASSUME NEW p \in Payments, NEW i \in Invoices, NEW a \in Amounts
      PROVE  ~ MatchCashReceipt(p, i, a)
  BY DEF MatchCashReceipt
<1> QED BY <1>1, <1>2, <1>3, UnwindEvent DEF PaymentStep, VoidPayment, ReturnPayment

LEMMA CustomerStepEvent ==
  ASSUME AccountsInv, AccountsInv', CustomerStep, "adjust_balance" \notin Acts
  PROVE  Accounts!Next \/ UNCHANGED Accounts!accounts
<1>0. TypeOK /\ TypeOK' /\ IInv
  BY DEF AccountsInv, IInv
<1>1. ASSUME NEW c \in Customers, NEW a \in Amounts, DisburseCredit(c, a)
      PROVE  Accounts!Next \/ UNCHANGED Accounts!accounts
  <2>1. a \in Nat BY ReceivablesAssumption
  <2>2. /\ UNCHANGED <<currentBalance, pay>>
        /\ creditBalance' = [creditBalance EXCEPT ![c] = @ - a]
        /\ creditDisbursed' = [creditDisbursed EXCEPT ![c] = @ + a]
    BY <1>1 DEF DisburseCredit
  <2>3. \A d \in Customers : MoneyIn(d)' = MoneyIn(d) /\ MoneyIn(d) \in Int
    <3>1. \A d \in Customers : MoneyIn(d)' = MoneyIn(d) BY <2>2 DEF MoneyIn
    <3>2. \A d \in Customers : MoneyIn(d) \in Int BY <1>0, MoneyInInt
    <3> QED BY <3>1, <3>2
  <2>4. \A d \in Customers : /\ Cash[d] = MoneyIn(d) - creditDisbursed[d]
                             /\ Cash'[d] = MoneyIn(d) - creditDisbursed'[d]
    BY <2>3 DEF Cash
  <2>5. Elsewhere(c)
    <3> SUFFICES ASSUME NEW d \in Customers \ {c}
                 PROVE  /\ currentBalance'[d] = currentBalance[d]
                        /\ creditBalance'[d] = creditBalance[d]
                        /\ Cash'[d] = Cash[d]
      BY DEF Elsewhere
    <3>1. creditBalance'[d] = creditBalance[d] /\ creditDisbursed'[d] = creditDisbursed[d]
      BY <1>0, <2>2 DEF TypeOK
    <3> QED BY <2>2, <2>4, <3>1
  <2>6. /\ currentBalance'[c] - currentBalance[c] = 0
        /\ creditBalance'[c] - creditBalance[c] = -a /\ Cash'[c] - Cash[c] = -a
    <3>1. /\ currentBalance[c] \in Int /\ creditBalance[c] \in Int /\ creditDisbursed[c] \in Int
          /\ creditBalance'[c] = creditBalance[c] - a
          /\ creditDisbursed'[c] = creditDisbursed[c] + a
      BY <1>0, <2>2 DEF TypeOK
    <3> QED BY <2>1, <2>2, <2>3, <2>4, <3>1
  <2>7. Accounts!Refunded(0, -a, -a)
    BY <2>1 DEF Accounts!Refunded
  <2> QED BY <1>0, <2>5, <2>6, <2>7, OneEvent DEF Accounts!Event
<1>2. ASSUME NEW c \in Customers, NEW i \in Invoices, NEW a \in Amounts, ApplyCredit(c, i, a)
      PROVE  Accounts!Next \/ UNCHANGED Accounts!accounts
  <2>1. /\ a \in Nat /\ creditBalance' = [creditBalance EXCEPT ![c] = @ - a]
        /\ UNCHANGED <<pay, creditDisbursed>>
    BY <1>0, <1>2, ApplyCreditRows
  <2>2. ReduceAR(c, a) BY <1>2 DEF ApplyCredit
  <2>3. Cash' = Cash BY <2>1, CashKept DEF TotalsKept, PaymentsKept
  <2>4. Elsewhere(c)
    BY <1>0, <2>1, <2>2, <2>3 DEF Elsewhere, ReduceAR, TypeOK
  <2>5. /\ currentBalance'[c] - currentBalance[c] = -a
        /\ creditBalance'[c] - creditBalance[c] = -a /\ Cash'[c] - Cash[c] = 0
    <3>1. /\ currentBalance[c] \in Int /\ creditBalance[c] \in Int /\ Cash[c] \in Int
          /\ creditBalance'[c] = creditBalance[c] - a
          /\ currentBalance'[c] = currentBalance[c] - a
      BY <1>0, <2>1, <2>2, CashInt DEF ReduceAR, TypeOK
    <3> QED BY <2>1, <2>3, <3>1
  <2>6. Accounts!CreditUsed(-a, -a, 0)
    BY <2>1 DEF Accounts!CreditUsed
  <2> QED BY <1>0, <2>4, <2>5, <2>6, OneEvent DEF Accounts!Event
<1>3. ASSUME NEW c \in Customers, NEW kind, NEW a PROVE ~ AdjustBalance(c, kind, a)
  BY DEF AdjustBalance
<1> QED BY <1>0, <1>1, <1>2, <1>3, NothingDrifts DEF CustomerStep

LEMMA FitsKept ==
  ASSUME Fits, TotalsKept
  PROVE  Fits'
BY DEF Fits, Applied, TotalsKept, PaymentsKept

LEMMA FitsStep ==
  ASSUME TypeOK, Fits, Next, "cash_receipts" \notin Acts
  PROVE  Fits'
<1>1. CASE InvoiceStep \/ MemoStep \/ CustomerStep
  <2>1. UNCHANGED pay
    BY <1>1, InvoiceStepQuiet DEF MemoStep, CreateCreditMemo, VoidCreditMemo, CustomerStep,
       DisburseCredit, ApplyCredit, AdjustBalance, Sweep
  <2> QED BY <2>1, FitsKept DEF TotalsKept, PaymentsKept
<1>2. CASE LedgerStep
  BY <1>2, LedgerStepQuiet, FitsKept
<1>3. CASE PaymentStep
  <2>1. ASSUME NEW p \in Payments, \A q \in Payments : q # p => pay'[q] = pay[q],
               pay'[p].state = "recorded" => SumTo(pay'[p].apps, NumInvoices) <= pay'[p].total
        PROVE  Fits'
    BY <2>1 DEF Fits, Applied
  <2>2. ASSUME NEW p \in Payments, NEW c \in Customers, NEW t \in Figures,
               NEW apps \in [Invoices -> Figures], CreatePayment(p, c, t, apps)
        PROVE  Fits'
    BY <2>1, <2>2, CreatePaymentRows DEF Records
  <2>3. ASSUME NEW p \in Payments, NEW c \in Customers,
               NEW apps \in [Invoices -> Amounts \cup {0}], ImportPayment(p, c, apps)
        PROVE  Fits'
    <3>1. apps \in [Invoices -> Nat] /\ Records(p, c, SumTo(apps, NumInvoices), apps)
      BY <2>3, ImportPaymentRows
    <3>2. SumTo(apps, NumInvoices) <= SumTo(apps, NumInvoices)
      BY <3>1, SumToNat, ReceivablesAssumption DEF Invoices
    <3> QED BY <2>1, <3>1, <3>2 DEF Records
  <2>4. ASSUME NEW p \in Payments, NEW state \in {"voided", "returned"}, Unwind(p, state)
        PROVE  Fits'
    BY <2>1, <2>4, UnwindRows
  <2>5. ASSUME NEW p \in Payments, NEW i \in Invoices, NEW a \in Amounts
        PROVE  ~ MatchCashReceipt(p, i, a)
    BY DEF MatchCashReceipt
  <2> QED BY <1>3, <2>2, <2>3, <2>4, <2>5 DEF PaymentStep, VoidPayment, ReturnPayment
<1> QED BY <1>1, <1>2, <1>3 DEF Next

(* Without the calls that break the balance law or settle an invoice past  *)
(* its total, the whole ledger behaves, for any number of documents and    *)
(* customers, as one plain account per customer: each call is one event of *)
(* one account, and no balance and no pocket goes below zero.              *)
THEOREM LedgerKeepsAccounts ==
  ASSUME Acts \cap (LawBreakers \cup Settlers) = {}
  PROVE  Spec => KeepsAccounts
<1>0. /\ Acts \cap LawBreakers = {} /\ Acts \cap Settlers = {}
      /\ "cash_receipts" \notin Acts /\ "adjust_balance" \notin Acts
      /\ Money = Nat
  BY NatMoney DEF LawBreakers
<1>1. Init => AccountsInv
  BY LawInit, NeverOverInit DEF AccountsInv, Fits, Init, NoPayment
<1>2. ASSUME AccountsInv, [Next]_vars PROVE AccountsInv'
  <2>1. TypeOK BY <1>2 DEF AccountsInv, IInv
  <2>2. CASE Next
    <3>1. IInv' BY <1>0, <1>2, <2>2, LawStepNext DEF AccountsInv
    <3>2. NeverOverSettled'
      <4>1. TypeOK' BY <3>1 DEF IInv
      <4>2. Settling BY <1>0, <1>2, <2>1, NextSettles
      <4> QED BY <1>2, <2>1, <4>1, <4>2, NeverOverStep DEF AccountsInv
    <3>3. Fits' BY <1>0, <1>2, <2>1, <2>2, FitsStep DEF AccountsInv
    <3> QED BY <3>1, <3>2, <3>3 DEF AccountsInv
  <2>3. CASE UNCHANGED vars
    <3>1. IInv'
      <4>1. TypeOK' BY <2>1, <2>3 DEF TypeOK, vars
      <4>2. PaymentsKept BY <2>3 DEF vars, PaymentsKept
      <4> QED BY <1>2, <2>3, <4>1, <4>2, AsideStep DEF AccountsInv, vars
    <3>2. NeverOverSettled' /\ Fits'
      BY <1>2, <2>3 DEF vars, AccountsInv, NeverOverSettled, Fits, Applied
    <3> QED BY <3>1, <3>2 DEF AccountsInv
  <2> QED BY <1>2, <2>2, <2>3
<1>3. Init => Accounts!Init
  <2> SUFFICES ASSUME Init PROVE Accounts!Init OBVIOUS
  <2>1. ASSUME NEW c \in Customers PROVE MoneyIn(c) = 0
    <3> DEFINE f == [q \in Payments |-> MoneyTerm(pay[q], c)]
    <3>1. NumPayments \in Nat /\ Payments = 1..NumPayments
      BY ReceivablesAssumption DEF Payments
    <3>2. f = [q \in 1..NumPayments |-> 0]
      BY <3>1 DEF Init, NoPayment, MoneyTerm
    <3>3. MoneyIn(c) = SumTo(f, NumPayments) BY DEF MoneyIn, MoneyTerm
    <3>4. f \in [1..NumPayments -> Int] /\ \A k \in 1..NumPayments : f[k] = 0 BY <3>2
    <3> HIDE DEF f
    <3> QED BY <3>1, <3>3, <3>4, SumToZero
  <2>2. Cash = [c \in Customers |-> 0]
    BY <2>1 DEF Cash, Init
  <2> QED BY <2>2 DEF Init, Accounts!Init
<1>4. ASSUME AccountsInv, AccountsInv', [Next]_vars
      PROVE  Accounts!Next \/ UNCHANGED Accounts!accounts
  <2>1. TypeOK BY <1>4 DEF AccountsInv, IInv
  <2>2. CASE LedgerStep
    <3>1. UNCHANGED currentBalance
      <4>1. ASSUME NEW i, NEW f, BookInvoiceEntry(i, f) PROVE UNCHANGED currentBalance
        BY <4>1 DEF BookInvoiceEntry
      <4>2. ASSUME NEW p, NEW f, BookPaymentEntry(p, f) PROVE UNCHANGED currentBalance
        BY <4>2 DEF BookPaymentEntry
      <4>3. ASSUME NEW p, ApplyDiscount(p) PROVE UNCHANGED currentBalance
        BY <4>3 DEF ApplyDiscount
      <4> QED BY <2>2, <4>1, <4>2, <4>3 DEF LedgerStep, LockPeriod
    <3> QED BY <2>1, <2>2, <3>1, LedgerStepQuiet, AccountsAside
  <2>3. CASE UNCHANGED vars
    BY <2>3, AccountsAside DEF vars, TotalsKept, PaymentsKept
  <2> QED BY <1>0, <1>4, <2>1, <2>2, <2>3, InvoiceStepEvent, MemoStepEvent, PaymentStepEvent,
             CustomerStepEvent DEF Next
<1>5. AccountsInv /\ [Next]_vars => AccountsInv'
  BY <1>2
<1>6. AccountsInv /\ AccountsInv' /\ [Next]_vars => [Accounts!Next]_Accounts!accounts
  BY <1>4
<1> QED BY <1>1, <1>3, <1>5, <1>6, PTL DEF Spec, KeepsAccounts, Accounts!Spec
=============================================================================
