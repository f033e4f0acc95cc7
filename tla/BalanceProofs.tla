---------------------------- MODULE BalanceProofs ----------------------------
(***************************************************************************)
(* The balance law of Receivables, for any numbers of documents, any       *)
(* customers and any amounts, over every call that respects it.            *)
(***************************************************************************)
EXTENDS ReceivablesProofs

(* The calls that move a balance or an invoice without the other. *)
LawBreakers == {"honor_ineligible", "patch_draft", "patch_issued", "void_memo_of_void",
                "pay_written_off", "pay_other_customer", "cash_receipts", "adjust_balance",
                "below_zero"}

(* --- the invariant that carries the law -------------------------------- *)

(* What the verbs rely on when they compute what to take off the balance:  *)
(* a draft is untouched, money stands on no void invoice, only a written-  *)
(* off invoice (or one voided since) has an amount written off, and an     *)
(* open invoice without credits is not overpaid.                           *)
InvoiceInv(r) ==
  /\ r.status \in {"none", "draft"} => r.paid = 0 /\ r.credited = 0 /\ r.writtenOff = 0
  /\ r.status = "void" => r.paid = 0
  /\ r.status \notin {"write_off", "void"} => r.writtenOff = 0
  /\ r.status \in {"sent", "partial"} /\ r.credited = 0 => r.paid <= r.total

(* A recorded payment pays its own customer's invoices, and what it paid   *)
(* is still there to be taken back.                                        *)
LivePaid(i) == inv[i].paid >= PaidByLive(i)
LiveApps(p) ==
  pay[p].state = "recorded" =>
    \A i \in Invoices : pay[p].apps[i] > 0 => inv[i].customer = pay[p].customer

(* A posted memo credits an invoice that was issued. *)
MemoInv(m) ==
  memo[m].state = "posted" => /\ memo[m].invoice \in Invoices
                              /\ inv[memo[m].invoice].status \notin {"none", "draft"}

IInv == /\ TypeOK
        /\ BalanceLaw
        /\ \A i \in Invoices : InvoiceInv(inv[i]) /\ LivePaid(i)
        /\ \A p \in Payments : LiveApps(p)
        /\ \A m \in Memos : MemoInv(m)

(* --- sums over the invoices -------------------------------------------- *)

(* What an invoice adds to its customer's total. *)
Contribution(r) == IF Receivable(r) THEN Balance(r) ELSE 0

LEMMA ContributionInt ==
  ASSUME NEW r \in InvoiceRecord
  PROVE  Contribution(r) \in Int
BY BalanceInt DEF Contribution

LEMMA SumToNegate ==
  ASSUME NEW n \in Nat, NEW f \in [1..n -> Int], NEW g \in [1..n -> Int],
         \A k \in 1..n : g[k] = -f[k]
  PROVE  SumTo(g, n) = -SumTo(f, n)
<1> DEFINE z == [k \in 1..n |-> 0]
<1>1. z \in [1..n -> Int] /\ \A k \in 1..n : z[k] = f[k] + g[k] OBVIOUS
<1>2. SumTo(z, n) = SumTo(f, n) + SumTo(g, n)
  <2> HIDE DEF z
  <2> QED BY <1>1, SumToAdd
<1>3. SumTo(z, n) = 0
  <2>1. \A k \in 1..n : z[k] = 0 OBVIOUS
  <2> HIDE DEF z
  <2> QED BY <1>1, <2>1, SumToZero
<1>4. SumTo(f, n) \in Int /\ SumTo(g, n) \in Int BY SumToInt
<1> HIDE DEF z
<1> QED BY <1>2, <1>3, <1>4

LEMMA ReduceARAt ==
  ASSUME TypeOK, NEW c0, NEW d \in Int, ReduceAR(c0, d), NEW c \in Customers
  PROVE  currentBalance'[c] = currentBalance[c] - (IF c = c0 THEN d ELSE 0)
<1>1. currentBalance \in [Customers -> Int] BY DEF TypeOK
<1>2. currentBalance' = [currentBalance EXCEPT ![c0] = currentBalance[c0] - d]
  BY DEF ReduceAR
<1>3. CASE c = c0 BY <1>1, <1>2, <1>3
<1>4. CASE c # c0
  <2>1. currentBalance'[c] = currentBalance[c] BY <1>1, <1>2, <1>4
  <2> QED BY <1>1, <1>4, <2>1
<1> QED BY <1>3, <1>4

(* A call that takes moved[i] off what each invoice i contributes, all of  *)
(* it owed by the customer c0, and the total off that customer's balance.  *)
Leaves(c0, moved) ==
  /\ moved \in [1..NumInvoices -> Int]
  /\ \A i \in Invoices :
       /\ Contribution(inv'[i]) = Contribution(inv[i]) - moved[i]
       /\ Contribution(inv[i]) # 0 => inv'[i].customer = inv[i].customer
       /\ moved[i] # 0 => inv'[i].customer = c0
  /\ \A c \in Customers :
       currentBalance'[c] =
         currentBalance[c] - (IF c = c0 THEN SumTo(moved, NumInvoices) ELSE 0)

(* The balance law survives such a call. *)
LEMMA LawStep ==
  ASSUME TypeOK, BalanceLaw, inv' \in [Invoices -> InvoiceRecord],
         NEW c0, NEW moved, Leaves(c0, moved)
  PROVE  BalanceLaw'
<1> SUFFICES ASSUME NEW c \in Customers
             PROVE  currentBalance'[c] = OpenTotal(c)'
  BY DEF BalanceLaw
<1> USE DEF Leaves
<1> DEFINE f == [i \in Invoices |-> Owed(i, c)]
           g == [i \in Invoices |-> Owed(i, c)']
           d == [i \in Invoices |-> IF c = c0 THEN moved[i] ELSE 0]
<1>1. NumInvoices \in Nat /\ Invoices = 1..NumInvoices
  BY ReceivablesAssumption DEF Invoices
<1>2. \A i \in Invoices : /\ inv[i] \in InvoiceRecord /\ inv'[i] \in InvoiceRecord
                         /\ Contribution(inv[i]) \in Int /\ Contribution(inv'[i]) \in Int
  BY ContributionInt DEF TypeOK
<1>3. \A i \in Invoices :
        /\ Owed(i, c) = IF inv[i].customer = c THEN Contribution(inv[i]) ELSE 0
        /\ Owed(i, c)' = IF inv'[i].customer = c THEN Contribution(inv'[i]) ELSE 0
  BY DEF Owed, Contribution
<1>4. f \in [1..NumInvoices -> Int] /\ g \in [1..NumInvoices -> Int]
  BY <1>1, <1>2, <1>3
<1>5. d \in [1..NumInvoices -> Int] BY <1>1
<1>6. \A i \in 1..NumInvoices : f[i] = g[i] + d[i]
  <2> SUFFICES ASSUME NEW i \in Invoices
               PROVE  Owed(i, c) = Owed(i, c)' + (IF c = c0 THEN moved[i] ELSE 0)
    BY <1>1
  <2>1. moved[i] \in Int BY <1>1
  <2> DEFINE x == Contribution(inv[i])
             y == Contribution(inv'[i])
  <2>2. x \in Int /\ y \in Int BY <1>2
  <2>3. /\ Owed(i, c) = IF inv[i].customer = c THEN x ELSE 0
        /\ Owed(i, c)' = IF inv'[i].customer = c THEN y ELSE 0
    BY <1>3
  <2>4. /\ y = x - moved[i]
        /\ x # 0 => inv'[i].customer = inv[i].customer
        /\ moved[i] # 0 => inv'[i].customer = c0
    OBVIOUS
  <2> HIDE DEF x, y
  <2> QED BY <2>1, <2>2, <2>3, <2>4
<1> HIDE DEF f, g, d
<1>7. SumTo(f, NumInvoices) = SumTo(g, NumInvoices) + SumTo(d, NumInvoices)
  BY <1>1, <1>4, <1>5, <1>6, SumToAdd
<1>8. SumTo(d, NumInvoices) = IF c = c0 THEN SumTo(moved, NumInvoices) ELSE 0
  <2>1. CASE c = c0
    <3>1. d = moved BY <1>1, <2>1 DEF d
    <3> QED BY <2>1, <3>1
  <2>2. CASE c # c0
    <3>1. \A i \in 1..NumInvoices : d[i] = 0 BY <1>1, <2>2 DEF d
    <3> QED BY <1>1, <1>5, <2>2, <3>1, SumToZero
  <2> QED BY <2>1, <2>2
<1>9. OpenTotal(c) = SumTo(f, NumInvoices) /\ OpenTotal(c)' = SumTo(g, NumInvoices)
  BY DEF f, g, OpenTotal
<1>10. SumTo(f, NumInvoices) \in Int /\ SumTo(g, NumInvoices) \in Int
       /\ SumTo(d, NumInvoices) \in Int
  BY <1>1, <1>4, <1>5, SumToInt
<1>11. currentBalance[c] = OpenTotal(c) BY DEF BalanceLaw
<1> QED BY <1>7, <1>8, <1>9, <1>10, <1>11

(* The same for a call that changes one invoice. *)
LEMMA LawStepOne ==
  ASSUME TypeOK, BalanceLaw, NEW i \in Invoices, NEW r \in InvoiceRecord,
         inv' = [inv EXCEPT ![i] = r],
         Contribution(inv[i]) # 0 => r.customer = inv[i].customer,
         \A c \in Customers :
           currentBalance'[c] =
             currentBalance[c] - (IF c = r.customer
                                  THEN Contribution(inv[i]) - Contribution(r) ELSE 0)
  PROVE  BalanceLaw'
<1> DEFINE d == Contribution(inv[i]) - Contribution(r)
           z == [j \in 1..NumInvoices |-> 0]
           moved == [j \in 1..NumInvoices |-> IF j = i THEN d ELSE 0]
<1>1. NumInvoices \in Nat /\ Invoices = 1..NumInvoices
  BY ReceivablesAssumption DEF Invoices
<1>2. /\ inv \in [Invoices -> InvoiceRecord] /\ inv' \in [Invoices -> InvoiceRecord]
      /\ inv'[i] = r /\ \A j \in Invoices : j # i => inv'[j] = inv[j]
  BY DEF TypeOK
<1>3. \A j \in Invoices : Contribution(inv[j]) \in Int
  BY <1>2, ContributionInt
<1>4. Contribution(r) \in Int /\ d \in Int BY <1>3, ContributionInt
<1> HIDE DEF d
<1>5. moved \in [1..NumInvoices -> Int] /\ z \in [1..NumInvoices -> Int] BY <1>4
<1>6. SumTo(moved, NumInvoices) = d
  <2>1. \A j \in 1..NumInvoices : j # i => moved[j] = z[j] OBVIOUS
  <2>2. moved[i] = d /\ z[i] = 0 BY <1>1
  <2>3. \A j \in 1..NumInvoices : z[j] = 0 OBVIOUS
  <2> HIDE DEF moved, z
  <2>4. SumTo(z, NumInvoices) = 0 BY <1>1, <1>5, <2>3, SumToZero
  <2>5. SumTo(moved, NumInvoices) = SumTo(z, NumInvoices) + (moved[i] - z[i])
    BY <1>1, <1>5, <2>1, SumToPoint
  <2> QED BY <1>4, <2>2, <2>4, <2>5
<1>7. \A j \in Invoices :
        /\ Contribution(inv'[j]) = Contribution(inv[j]) - moved[j]
        /\ Contribution(inv[j]) # 0 => inv'[j].customer = inv[j].customer
        /\ moved[j] # 0 => inv'[j].customer = r.customer
  <2> SUFFICES ASSUME NEW j \in Invoices
      PROVE  /\ Contribution(inv'[j]) = Contribution(inv[j]) - moved[j]
             /\ Contribution(inv[j]) # 0 => inv'[j].customer = inv[j].customer
             /\ moved[j] # 0 => inv'[j].customer = r.customer
    OBVIOUS
  <2>1. CASE j = i BY <1>1, <1>2, <1>3, <1>4, <2>1 DEF d
  <2>2. CASE j # i
    <3>1. moved[j] = 0 BY <1>1, <2>2
    <3> QED BY <1>2, <1>3, <2>2, <3>1
  <2> QED BY <2>1, <2>2
<1>8. \A c \in Customers :
        currentBalance'[c] =
          currentBalance[c] - (IF c = r.customer THEN SumTo(moved, NumInvoices) ELSE 0)
  BY <1>6 DEF d
<1> HIDE DEF moved, z
<1>9. Leaves(r.customer, moved) BY <1>5, <1>7, <1>8 DEF Leaves
<1> QED BY <1>2, <1>9, LawStep

(* A call that changes no balance and no contribution. *)
LEMMA LawStays ==
  ASSUME TypeOK, BalanceLaw, NEW i \in Invoices, NEW r \in InvoiceRecord,
         inv' = [inv EXCEPT ![i] = r], UNCHANGED currentBalance,
         Contribution(inv[i]) # 0 => r.customer = inv[i].customer,
         Contribution(r) = Contribution(inv[i])
  PROVE  BalanceLaw'
<1>1. Contribution(inv[i]) \in Int BY ContributionInt DEF TypeOK
<1>2. \A c \in Customers :
        currentBalance'[c] =
          currentBalance[c] - (IF c = r.customer
                               THEN Contribution(inv[i]) - Contribution(r) ELSE 0)
  BY <1>1 DEF TypeOK
<1> QED BY <1>2, LawStepOne

(* --- what a call leaves behind ----------------------------------------- *)

LEMMA RecomputeFields ==
  ASSUME NEW r \in InvoiceRecord, r.status # "none"
  PROVE  LET s == Recompute(r) IN
         /\ s.customer = r.customer /\ s.total = r.total /\ s.paid = r.paid
         /\ s.credited = r.credited /\ s.writtenOff = r.writtenOff
         /\ Contribution(s) = Contribution(r)
         /\ r.status \in {"draft", "void", "write_off"} => s.status = r.status
         /\ r.status \notin {"draft", "void", "write_off"} =>
              /\ s.status \in {"paid", "partial", "sent"}
              /\ s.status \in {"partial", "sent"} => Balance(r) > 0
<1> DEFINE s == Recompute(r)
<1>1. /\ s.customer = r.customer /\ s.total = r.total /\ s.paid = r.paid
      /\ s.credited = r.credited /\ s.writtenOff = r.writtenOff
  BY DEF Recompute, InvoiceRecord
<1>2. s.status = IF r.status \in {"draft", "void", "write_off"} THEN r.status
                 ELSE IF Balance(r) <= 0 THEN "paid"
                 ELSE IF r.paid > 0 \/ r.credited > 0 THEN "partial" ELSE "sent"
  BY DEF Recompute, InvoiceRecord
<1>3. Balance(r) \in Int BY BalanceInt
<1> HIDE DEF s
<1>4. Balance(s) = Balance(r) BY <1>1 DEF Balance
<1>5. Contribution(s) = Contribution(r)
  BY <1>2, <1>4 DEF Contribution, Receivable
<1> QED BY <1>1, <1>2, <1>3, <1>5 DEF s

(* A settled or unwound invoice that is not behind a void or a write-off   *)
(* is as the verbs expect to find it, because its status was re-derived.   *)
LEMMA RecomputeInv ==
  ASSUME Money = Nat, NEW r \in InvoiceRecord,
         r.status \notin {"none", "draft", "void"},
         r.status # "write_off" => r.writtenOff = 0
  PROVE  InvoiceInv(Recompute(r))
<1> DEFINE s == Recompute(r)
<1>1. /\ s.total = r.total /\ s.paid = r.paid
      /\ s.credited = r.credited /\ s.writtenOff = r.writtenOff
      /\ r.status = "write_off" => s.status = "write_off"
      /\ r.status # "write_off" => /\ s.status \in {"paid", "partial", "sent"}
                                   /\ s.status \in {"partial", "sent"} => Balance(r) > 0
  BY RecomputeFields
<1> HIDE DEF s
<1>2. r.total \in Nat /\ r.paid \in Nat /\ r.credited \in Int /\ r.writtenOff \in Nat
  BY DEF InvoiceRecord
<1>3. InvoiceInv(s) BY <1>1, <1>2 DEF InvoiceInv, Balance
<1> QED BY <1>3 DEF s

LEMMA PaidByLiveNat ==
  ASSUME Money = Nat, TypeOK, NEW i \in Invoices
  PROVE  /\ PaidByLive(i) \in Nat
         /\ \A p \in Payments : pay[p].state = "recorded" => pay[p].apps[i] <= PaidByLive(i)
<1> DEFINE f == [p \in Payments |-> IF pay[p].state = "recorded" THEN pay[p].apps[i] ELSE 0]
<1>1. NumPayments \in Nat /\ Payments = 1..NumPayments
  BY ReceivablesAssumption DEF Payments
<1>2. f \in [1..NumPayments -> Nat] BY <1>1 DEF TypeOK, PaymentRecord
<1>3. \A p \in Payments : pay[p].state = "recorded" => f[p] = pay[p].apps[i] OBVIOUS
<1>4. PaidByLive(i) = SumTo(f, NumPayments) BY DEF PaidByLive
<1> HIDE DEF f
<1>5. SumTo(f, NumPayments) \in Nat BY <1>1, <1>2, SumToNat
<1>6. \A p \in Payments : SumTo(f, NumPayments) >= f[p] BY <1>1, <1>2, SumToBounds
<1> QED BY <1>1, <1>2, <1>3, <1>4, <1>5, <1>6

(* What recorded payments apply to an invoice moves with the one payment   *)
(* that changes.                                                           *)
LEMMA PaidByLiveStep ==
  ASSUME Money = Nat, TypeOK, TypeOK', NEW p \in Payments, NEW i \in Invoices,
         \A q \in Payments : q # p => pay'[q] = pay[q]
  PROVE  PaidByLive(i)' = PaidByLive(i)
           + ((IF pay'[p].state = "recorded" THEN pay'[p].apps[i] ELSE 0)
              - (IF pay[p].state = "recorded" THEN pay[p].apps[i] ELSE 0))
<1> DEFINE f == [q \in Payments |-> IF pay[q].state = "recorded" THEN pay[q].apps[i] ELSE 0]
           g == [q \in Payments |-> IF pay'[q].state = "recorded" THEN pay'[q].apps[i] ELSE 0]
<1>1. NumPayments \in Nat /\ Payments = 1..NumPayments
  BY ReceivablesAssumption DEF Payments
<1>2. f \in [1..NumPayments -> Int] /\ g \in [1..NumPayments -> Int]
  BY <1>1 DEF TypeOK, PaymentRecord
<1>3. \A q \in 1..NumPayments : q # p => g[q] = f[q] BY <1>1
<1>4. PaidByLive(i) = SumTo(f, NumPayments) /\ PaidByLive(i)' = SumTo(g, NumPayments)
  BY DEF PaidByLive
<1>5. /\ f[p] = IF pay[p].state = "recorded" THEN pay[p].apps[i] ELSE 0
      /\ g[p] = IF pay'[p].state = "recorded" THEN pay'[p].apps[i] ELSE 0
  OBVIOUS
<1> HIDE DEF f, g
<1>6. SumTo(g, NumPayments) = SumTo(f, NumPayments) + (g[p] - f[p])
  BY <1>1, <1>2, <1>3, SumToPoint
<1> QED BY <1>4, <1>5, <1>6

(* A call may only add to what is paid on an invoice, and may give it a    *)
(* new customer only while nothing is paid on it; the payments stay what   *)
(* they are.                                                               *)
PaymentsKept == \A p \in Payments : /\ pay'[p].state = pay[p].state
                                    /\ pay'[p].apps = pay[p].apps
                                    /\ pay'[p].customer = pay[p].customer

LEMMA PaidKept ==
  ASSUME Money = Nat, TypeOK, TypeOK', NEW i \in Invoices, LivePaid(i), PaymentsKept,
         \A p \in Payments : LiveApps(p),
         inv'[i].paid >= inv[i].paid,
         inv'[i].customer = inv[i].customer \/ inv[i].paid = 0
  PROVE  /\ LivePaid(i)'
         /\ \A p \in Payments : pay'[p].state = "recorded" /\ pay'[p].apps[i] > 0 =>
              inv'[i].customer = pay'[p].customer
<1>1. PaidByLive(i)' = PaidByLive(i) BY DEF PaidByLive, PaymentsKept
<1>2. PaidByLive(i) \in Nat /\ inv[i].paid \in Nat /\ inv'[i].paid \in Nat
  BY PaidByLiveNat DEF TypeOK, InvoiceRecord
<1>3. LivePaid(i)' BY <1>1, <1>2 DEF LivePaid
<1>4. ASSUME NEW p \in Payments, pay'[p].state = "recorded", pay'[p].apps[i] > 0
      PROVE  inv'[i].customer = pay'[p].customer
  <2>1. pay[p].state = "recorded" /\ pay[p].apps[i] > 0 /\ pay'[p].customer = pay[p].customer
    BY <1>4 DEF PaymentsKept
  <2>2. inv[i].customer = pay[p].customer BY <2>1 DEF LiveApps
  <2>3. pay[p].apps[i] <= PaidByLive(i) BY <2>1, PaidByLiveNat
  <2>4. pay[p].apps[i] \in Nat BY DEF TypeOK, PaymentRecord
  <2>5. inv[i].paid # 0 BY <1>2, <2>1, <2>3, <2>4 DEF LivePaid
  <2> QED BY <2>1, <2>2, <2>5
<1> QED BY <1>3, <1>4

(* A call that replaces one invoice by r and takes the difference off its  *)
(* customer's balance, as the verbs on invoices, memos and credit do.      *)
Replaces(i, r) ==
  /\ inv' = [inv EXCEPT ![i] = r]
  /\ r \in InvoiceRecord
  /\ InvoiceInv(r)
  /\ r.paid >= inv[i].paid
  /\ r.customer # inv[i].customer => inv[i].paid = 0 /\ Contribution(inv[i]) = 0
  /\ inv[i].status \notin {"none", "draft"} => r.status \notin {"none", "draft"}
  /\ \A c \in Customers :
       currentBalance'[c] = currentBalance[c]
         - (IF c = r.customer THEN Contribution(inv[i]) - Contribution(r) ELSE 0)

LEMMA ReplacedInv ==
  ASSUME Money = Nat, IInv, TypeOK', NEW i \in Invoices, NEW r, Replaces(i, r), PaymentsKept,
         \A m \in Memos : MemoInv(m)'
  PROVE  IInv'
<1>1. /\ inv'[i] = r /\ r \in InvoiceRecord
      /\ \A j \in Invoices : j # i => inv'[j] = inv[j]
  BY DEF IInv, TypeOK, Replaces
<1>2. BalanceLaw'
  <2>1. /\ inv' = [inv EXCEPT ![i] = r]
        /\ Contribution(inv[i]) # 0 => r.customer = inv[i].customer
        /\ \A c \in Customers :
             currentBalance'[c] = currentBalance[c]
               - (IF c = r.customer THEN Contribution(inv[i]) - Contribution(r) ELSE 0)
    BY DEF Replaces
  <2> QED BY <1>1, <2>1, LawStepOne DEF IInv
<1>3. \A j \in Invoices : /\ InvoiceInv(inv'[j])
                          /\ inv'[j].paid >= inv[j].paid
                          /\ inv'[j].customer = inv[j].customer \/ inv[j].paid = 0
  <2> SUFFICES ASSUME NEW j \in Invoices
               PROVE  /\ InvoiceInv(inv'[j])
                      /\ inv'[j].paid >= inv[j].paid
                      /\ inv'[j].customer = inv[j].customer \/ inv[j].paid = 0
    OBVIOUS
  <2>1. CASE j = i BY <1>1, <2>1 DEF Replaces
  <2>2. CASE j # i
    <3>1. inv[j].paid \in Nat BY DEF IInv, TypeOK, InvoiceRecord
    <3> QED BY <1>1, <2>2, <3>1 DEF IInv
  <2> QED BY <2>1, <2>2
<1>4. \A j \in Invoices :
        /\ LivePaid(j)'
        /\ \A p \in Payments : pay'[p].state = "recorded" /\ pay'[p].apps[j] > 0 =>
             inv'[j].customer = pay'[p].customer
  BY <1>3, PaidKept DEF IInv
<1>5. \A p \in Payments : LiveApps(p)' BY <1>4 DEF LiveApps
<1> QED BY <1>2, <1>3, <1>4, <1>5 DEF IInv

(* A memo stays on an issued invoice as long as nothing is un-issued.      *)
LEMMA MemosKept ==
  ASSUME IInv, UNCHANGED memo,
         \A i \in Invoices : inv[i].status \notin {"none", "draft"} =>
                               inv'[i].status \notin {"none", "draft"}
  PROVE  \A m \in Memos : MemoInv(m)'
BY DEF IInv, MemoInv

LEMMA ReplacedMemos ==
  ASSUME IInv, UNCHANGED memo, NEW i \in Invoices, NEW r, Replaces(i, r)
  PROVE  \A m \in Memos : MemoInv(m)'
<1>1. \A j \in Invoices : inv[j].status \notin {"none", "draft"} =>
                            inv'[j].status \notin {"none", "draft"}
  BY DEF IInv, TypeOK, Replaces
<1> QED BY <1>1, MemosKept

(* The same for a call that touches no memo and no payment.                *)
LEMMA ReplacedStep ==
  ASSUME Money = Nat, IInv, TypeOK', NEW i \in Invoices, NEW r, Replaces(i, r),
         UNCHANGED <<pay, memo>>
  PROVE  IInv'
<1>1. PaymentsKept BY DEF PaymentsKept
<1>2. \A m \in Memos : MemoInv(m)' BY ReplacedMemos
<1> QED BY <1>1, <1>2, ReplacedInv

(* --- invoices ---------------------------------------------------------- *)

LEMMA CreateInvoiceLaw ==
  ASSUME Money = Nat, IInv, TypeOK', NEW i \in Invoices, NEW c \in Customers,
         NEW o \in Orders \cup {NoOrder}, NEW t \in Figures, CreateInvoice(i, c, o, t)
  PROVE  IInv'
<1> DEFINE r == NewInvoice(c, o, t)
<1>1. /\ inv' = [inv EXCEPT ![i] = r] /\ inv[i].status = "none"
      /\ UNCHANGED <<pay, memo, currentBalance>>
  BY DEF CreateInvoice
<1>2. /\ r.status = "draft" /\ r.paid = 0 /\ r.credited = 0 /\ r.writtenOff = 0
      /\ r \in InvoiceRecord
  BY MoneyFacts, FiguresType DEF NewInvoice, InvoiceRecord, InvoiceStatus, EntryStatus
<1> HIDE DEF r
<1>3. inv[i].paid = 0 BY <1>1 DEF IInv, InvoiceInv
<1>4. Contribution(inv[i]) = 0 /\ Contribution(r) = 0
  BY <1>1, <1>2 DEF Contribution, Receivable
<1>5. \A d \in Customers : currentBalance[d] \in Int BY DEF IInv, TypeOK
<1>6. Replaces(i, r) BY <1>1, <1>2, <1>3, <1>4, <1>5 DEF Replaces, InvoiceInv
<1> QED BY <1>1, <1>6, ReplacedStep

LEMMA IssueInvoiceLaw ==
  ASSUME Money = Nat, IInv, TypeOK', NEW i \in Invoices, IssueInvoice(i)
  PROVE  IInv'
<1>1. PICK e \in EntryStatus :
        inv' = [inv EXCEPT ![i] = [inv[i] EXCEPT !.status = "sent", !.entry = e]]
  BY ReceivablesAssumption DEF IssueInvoice, EntryStatus
<1> DEFINE r == [inv[i] EXCEPT !.status = "sent", !.entry = e]
<1>2. /\ inv[i].status = "draft" /\ UNCHANGED <<pay, memo>>
      /\ ReduceAR(inv[i].customer, -inv[i].total)
  BY DEF IssueInvoice
<1>3. inv[i] \in InvoiceRecord BY DEF IInv, TypeOK
<1>4. /\ r \in InvoiceRecord /\ r.status = "sent" /\ r.customer = inv[i].customer
      /\ r.total = inv[i].total /\ r.paid = inv[i].paid
      /\ r.credited = inv[i].credited /\ r.writtenOff = inv[i].writtenOff
  BY <1>1, <1>3 DEF InvoiceRecord, InvoiceStatus
<1> HIDE DEF r
<1>5. inv[i].paid = 0 /\ inv[i].credited = 0 /\ inv[i].writtenOff = 0
  BY <1>2 DEF IInv, InvoiceInv
<1>6. inv[i].total \in Nat BY <1>3 DEF InvoiceRecord
<1>7. Contribution(inv[i]) = 0 /\ Contribution(r) = inv[i].total
  BY <1>2, <1>4, <1>5, <1>6 DEF Contribution, Receivable, Balance
<1>8. \A d \in Customers : currentBalance'[d] =
         currentBalance[d] - (IF d = inv[i].customer THEN -inv[i].total ELSE 0)
  BY <1>2, <1>6, ReduceARAt DEF IInv
<1>9. Replaces(i, r)
  BY <1>1, <1>2, <1>4, <1>5, <1>6, <1>7, <1>8 DEF Replaces, InvoiceInv, r
<1> QED BY <1>2, <1>9, ReplacedStep

LEMMA PatchInvoiceLaw ==
  ASSUME Money = Nat, IInv, TypeOK', Acts \cap LawBreakers = {}, NEW i \in Invoices,
         NEW s \in {"sent", "partial", "paid", "void"}, PatchInvoice(i, s)
  PROVE  IInv'
<1> DEFINE r == [inv[i] EXCEPT !.status = s]
<1>1. /\ inv' = [inv EXCEPT ![i] = r] /\ UNCHANGED <<pay, memo, currentBalance>>
      /\ inv[i].status \in {"sent", "partial"} /\ s \in {"sent", "partial"}
  BY DEF PatchInvoice, LawBreakers
<1>2. inv[i] \in InvoiceRecord BY DEF IInv, TypeOK
<1>3. /\ r \in InvoiceRecord /\ r.status = s /\ r.customer = inv[i].customer
      /\ r.total = inv[i].total /\ r.paid = inv[i].paid
      /\ r.credited = inv[i].credited /\ r.writtenOff = inv[i].writtenOff
  BY <1>1, <1>2 DEF InvoiceRecord, InvoiceStatus
<1> HIDE DEF r
<1>4. Contribution(r) = Contribution(inv[i])
  BY <1>1, <1>3 DEF Contribution, Receivable, Balance
<1>5. Contribution(inv[i]) \in Int /\ inv[i].paid \in Nat
  BY <1>2, ContributionInt DEF InvoiceRecord
<1>6. InvoiceInv(r)
  BY <1>1, <1>3 DEF IInv, InvoiceInv
<1>7. \A d \in Customers : currentBalance[d] \in Int BY DEF IInv, TypeOK
<1>8. Replaces(i, r)
  BY <1>1, <1>3, <1>4, <1>5, <1>6, <1>7 DEF Replaces
<1> QED BY <1>1, <1>8, ReplacedStep

LEMMA VoidInvoiceLaw ==
  ASSUME Money = Nat, IInv, TypeOK', NEW i \in Invoices, VoidInvoice(i)
  PROVE  IInv'
<1> DEFINE r == [inv[i] EXCEPT !.status = "void", !.entry = Undone(@)]
           moved == IF inv[i].status = "draft" THEN 0 ELSE Balance(inv[i])
<1>1. /\ inv' = [inv EXCEPT ![i] = r] /\ UNCHANGED <<pay, memo>>
      /\ inv[i].status \notin {"none", "void"} /\ inv[i].paid <= 0
      /\ inv[i].status = "draft" => UNCHANGED currentBalance
      /\ inv[i].status # "draft" => ReduceAR(inv[i].customer, Balance(inv[i]))
  BY DEF VoidInvoice, Voidable
<1>2. inv[i] \in InvoiceRecord BY DEF IInv, TypeOK
<1>3. /\ r.status = "void" /\ r.customer = inv[i].customer /\ r.paid = inv[i].paid
      /\ r.total = inv[i].total /\ r.credited = inv[i].credited
      /\ r.writtenOff = inv[i].writtenOff
  BY <1>2 DEF InvoiceRecord
<1>4. r \in InvoiceRecord BY <1>1 DEF IInv, TypeOK
<1> HIDE DEF r
<1>5. inv[i].paid = 0 BY <1>1, <1>2 DEF InvoiceRecord
<1>6. Balance(inv[i]) \in Int BY <1>2, BalanceInt
<1>7. Contribution(inv[i]) = moved /\ Contribution(r) = 0 /\ moved \in Int
  BY <1>1, <1>3, <1>6 DEF Contribution, Receivable
<1>8. \A d \in Customers : currentBalance'[d] =
         currentBalance[d] - (IF d = inv[i].customer THEN moved ELSE 0)
  <2>1. CASE inv[i].status = "draft"
    <3>1. \A d \in Customers : currentBalance[d] \in Int BY DEF IInv, TypeOK
    <3> QED BY <1>1, <2>1, <3>1
  <2>2. CASE inv[i].status # "draft"
    <3>1. ReduceAR(inv[i].customer, moved) BY <1>1, <2>2
    <3> HIDE DEF moved
    <3> QED BY <1>7, <3>1, ReduceARAt DEF IInv
  <2> QED BY <2>1, <2>2
<1> HIDE DEF moved
<1>9. Replaces(i, r)
  BY <1>1, <1>3, <1>4, <1>5, <1>7, <1>8 DEF Replaces, InvoiceInv
<1> QED BY <1>1, <1>9, ReplacedStep

LEMMA WriteOffInvoiceLaw ==
  ASSUME Money = Nat, IInv, TypeOK', NEW i \in Invoices, WriteOffInvoice(i)
  PROVE  IInv'
<1> DEFINE rest == Balance(inv[i])
           r == [inv[i] EXCEPT !.writtenOff = rest, !.status = "write_off"]
<1>1. /\ inv' = [inv EXCEPT ![i] = r] /\ UNCHANGED <<pay, memo>>
      /\ inv[i].status \in {"sent", "partial"} /\ rest > 0
      /\ ReduceAR(inv[i].customer, rest)
  BY DEF WriteOffInvoice
<1>2. inv[i] \in InvoiceRecord /\ rest \in Int BY BalanceInt DEF IInv, TypeOK
<1>3. rest = inv[i].total - inv[i].paid - inv[i].credited - inv[i].writtenOff
  BY DEF Balance
<1>4. inv[i].writtenOff = 0 BY <1>1 DEF IInv, InvoiceInv
<1>5. Contribution(inv[i]) = rest BY <1>1 DEF Contribution, Receivable
<1> HIDE DEF rest
<1>6. /\ r \in InvoiceRecord /\ r.status = "write_off" /\ r.customer = inv[i].customer
      /\ r.total = inv[i].total /\ r.paid = inv[i].paid
      /\ r.credited = inv[i].credited /\ r.writtenOff = rest
  <2>1. rest \in Nat /\ "write_off" \in InvoiceStatus BY <1>1, <1>2 DEF InvoiceStatus
  <2> QED BY <1>2, <2>1 DEF InvoiceRecord
<1> HIDE DEF r
<1>7. /\ inv[i].total \in Nat /\ inv[i].paid \in Nat /\ inv[i].credited \in Int
  BY <1>2 DEF InvoiceRecord
<1>8. Contribution(r) = 0
  BY <1>3, <1>4, <1>6, <1>7 DEF Contribution, Receivable, Balance
<1>9. \A d \in Customers : currentBalance'[d] =
         currentBalance[d] - (IF d = inv[i].customer THEN rest ELSE 0)
  BY <1>1, <1>2, ReduceARAt DEF IInv
<1>10. Replaces(i, r)
  BY <1>1, <1>2, <1>5, <1>6, <1>7, <1>8, <1>9 DEF Replaces, InvoiceInv
<1> QED BY <1>1, <1>10, ReplacedStep

(* What the next three lemmas share: an invoice that is re-derived after   *)
(* its amounts changed.                                                    *)
LEMMA RecomputedReplaces ==
  ASSUME Money = Nat, IInv, TypeOK', NEW i \in Invoices, NEW q \in InvoiceRecord,
         inv' = [inv EXCEPT ![i] = Recompute(q)],
         q.status \notin {"none", "draft", "void"},
         q.status # "write_off" => q.writtenOff = 0,
         q.paid >= inv[i].paid, q.customer = inv[i].customer,
         Receivable(inv[i]),
         NEW moved \in Int, Balance(q) = Balance(inv[i]) - moved,
         ReduceAR(q.customer, moved)
  PROVE  Replaces(i, Recompute(q))
<1> DEFINE r == Recompute(q)
<1>1. /\ r.customer = q.customer /\ r.paid = q.paid /\ Contribution(r) = Contribution(q)
      /\ r.status \notin {"none", "draft"} /\ r \in InvoiceRecord
  BY RecomputeFields, RecomputeType
<1>2. InvoiceInv(r) BY RecomputeInv
<1>3. inv' = [inv EXCEPT ![i] = r] OBVIOUS
<1> HIDE DEF r
<1>4. Balance(inv[i]) \in Int BY BalanceInt DEF IInv, TypeOK
<1>5. Contribution(inv[i]) = Balance(inv[i]) /\ Contribution(q) = Balance(q)
  BY DEF Contribution, Receivable
<1>6. Contribution(inv[i]) - Contribution(r) = moved BY <1>1, <1>4, <1>5
<1>7. \A d \in Customers : currentBalance'[d] =
         currentBalance[d] - (IF d = q.customer THEN moved ELSE 0)
  BY ReduceARAt DEF IInv
<1>8. Replaces(i, r) BY <1>1, <1>2, <1>3, <1>6, <1>7 DEF Replaces
<1> QED BY <1>8 DEF r

LEMMA ReinstateInvoiceLaw ==
  ASSUME Money = Nat, IInv, TypeOK', NEW i \in Invoices, ReinstateInvoice(i)
  PROVE  IInv'
<1> DEFINE q == [inv[i] EXCEPT !.writtenOff = 0, !.status = "sent"]
           moved == -inv[i].writtenOff
<1>1. /\ inv' = [inv EXCEPT ![i] = Recompute(q)] /\ UNCHANGED <<pay, memo>>
      /\ inv[i].status = "write_off" /\ ReduceAR(inv[i].customer, moved)
  BY DEF ReinstateInvoice
<1>2. inv[i] \in InvoiceRecord BY DEF IInv, TypeOK
<1>3. /\ q \in InvoiceRecord /\ q.status = "sent" /\ q.customer = inv[i].customer
      /\ q.total = inv[i].total /\ q.paid = inv[i].paid
      /\ q.credited = inv[i].credited /\ q.writtenOff = 0
  BY <1>2 DEF InvoiceRecord, InvoiceStatus
<1> HIDE DEF q
<1>4. /\ inv[i].total \in Nat /\ inv[i].paid \in Nat /\ inv[i].credited \in Int
      /\ inv[i].writtenOff \in Nat
  BY <1>2 DEF InvoiceRecord
<1>5. moved \in Int /\ Balance(q) = Balance(inv[i]) - moved
  BY <1>3, <1>4 DEF Balance
<1>6. Receivable(inv[i]) BY <1>1 DEF Receivable
<1>7. q.paid >= inv[i].paid BY <1>3, <1>4
<1> HIDE DEF moved
<1>8. ReduceAR(q.customer, moved) BY <1>1, <1>3
<1>9. Replaces(i, Recompute(q))
  BY <1>1, <1>3, <1>5, <1>6, <1>7, <1>8, RecomputedReplaces
<1> QED BY <1>1, <1>9, ReplacedStep

LEMMA HonorDiscountLaw ==
  ASSUME Money = Nat, IInv, TypeOK', Acts \cap LawBreakers = {}, NEW i \in Invoices,
         HonorDiscount(i)
  PROVE  IInv'
<1> DEFINE discount == inv[i].total - inv[i].paid
           r == [inv[i] EXCEPT !.discount = discount, !.paid = inv[i].total,
                               !.status = "paid"]
<1>1. /\ inv' = [inv EXCEPT ![i] = r] /\ UNCHANGED <<pay, memo>>
      /\ inv[i].status \in {"sent", "partial"}
      /\ inv[i].credited = 0 /\ inv[i].writtenOff = 0
      /\ ReduceAR(inv[i].customer, discount)
  BY DEF HonorDiscount, LawBreakers
<1>2. inv[i] \in InvoiceRecord BY DEF IInv, TypeOK
<1>3. inv[i].total \in Nat /\ inv[i].paid \in Nat BY <1>2 DEF InvoiceRecord
<1>4. inv[i].paid <= inv[i].total BY <1>1 DEF IInv, InvoiceInv
<1>5. discount \in Int BY <1>3
<1> HIDE DEF discount
<1>6. /\ r \in InvoiceRecord /\ r.status = "paid" /\ r.customer = inv[i].customer
      /\ r.total = inv[i].total /\ r.paid = inv[i].total
      /\ r.credited = inv[i].credited /\ r.writtenOff = inv[i].writtenOff
  BY <1>2, <1>3, <1>5 DEF InvoiceRecord, InvoiceStatus
<1> HIDE DEF r
<1>7. Contribution(inv[i]) = discount /\ Contribution(r) = 0
  BY <1>1, <1>3, <1>6 DEF Contribution, Receivable, Balance, discount
<1>8. \A d \in Customers : currentBalance'[d] =
         currentBalance[d] - (IF d = inv[i].customer THEN discount ELSE 0)
  BY <1>1, <1>5, ReduceARAt DEF IInv
<1>9. Replaces(i, r)
  BY <1>1, <1>3, <1>4, <1>5, <1>6, <1>7, <1>8 DEF Replaces, InvoiceInv
<1> QED BY <1>1, <1>9, ReplacedStep

LEMMA BookInvoiceEntryLaw ==
  ASSUME Money = Nat, IInv, TypeOK', NEW i \in Invoices, NEW f \in EntryStatus,
         BookInvoiceEntry(i, f)
  PROVE  IInv'
<1> DEFINE r == [inv[i] EXCEPT !.entry = f]
<1>1. inv' = [inv EXCEPT ![i] = r] /\ UNCHANGED <<pay, memo, currentBalance>>
  BY DEF BookInvoiceEntry
<1>2. inv[i] \in InvoiceRecord BY DEF IInv, TypeOK
<1>3. /\ r \in InvoiceRecord /\ r.status = inv[i].status /\ r.customer = inv[i].customer
      /\ r.total = inv[i].total /\ r.paid = inv[i].paid
      /\ r.credited = inv[i].credited /\ r.writtenOff = inv[i].writtenOff
  BY <1>1, <1>2 DEF InvoiceRecord
<1> HIDE DEF r
<1>4. Contribution(r) = Contribution(inv[i])
  BY <1>3 DEF Contribution, Receivable, Balance
<1>5. Contribution(inv[i]) \in Int /\ inv[i].paid \in Nat
  BY <1>2, ContributionInt DEF InvoiceRecord
<1>6. InvoiceInv(r) BY <1>3 DEF IInv, InvoiceInv
<1>7. \A d \in Customers : currentBalance[d] \in Int BY DEF IInv, TypeOK
<1>8. Replaces(i, r)
  BY <1>1, <1>3, <1>4, <1>5, <1>6, <1>7 DEF Replaces
<1> QED BY <1>1, <1>8, ReplacedStep

(* --- credit memos and credit ------------------------------------------- *)

LEMMA CreateCreditMemoLaw ==
  ASSUME Money = Nat, IInv, TypeOK', NEW m \in Memos, NEW i \in Invoices, NEW a \in Amounts,
         CreateCreditMemo(m, i, a)
  PROVE  IInv'
<1> DEFINE q == [inv[i] EXCEPT !.credited = @ + a]
<1>1. /\ inv' = [inv EXCEPT ![i] = Recompute(q)] /\ UNCHANGED pay
      /\ inv[i].status \notin {"none", "draft", "void", "write_off"}
      /\ ReduceAR(inv[i].customer, a)
      /\ memo' = [memo EXCEPT ![m] = [state |-> "posted", invoice |-> i, amount |-> a]]
  BY DEF CreateCreditMemo
<1>2. inv[i] \in InvoiceRecord /\ a \in Nat BY ReceivablesAssumption DEF IInv, TypeOK
<1>3. /\ q \in InvoiceRecord /\ q.status = inv[i].status /\ q.customer = inv[i].customer
      /\ q.total = inv[i].total /\ q.paid = inv[i].paid
      /\ q.credited = inv[i].credited + a /\ q.writtenOff = inv[i].writtenOff
  BY <1>2 DEF InvoiceRecord
<1> HIDE DEF q
<1>4. /\ inv[i].total \in Nat /\ inv[i].paid \in Nat /\ inv[i].credited \in Int
      /\ inv[i].writtenOff \in Nat
  BY <1>2 DEF InvoiceRecord
<1>5. Balance(q) = Balance(inv[i]) - a BY <1>2, <1>3, <1>4 DEF Balance
<1>6. Receivable(inv[i]) BY <1>1 DEF Receivable
<1>7. q.writtenOff = 0 /\ q.paid >= inv[i].paid
  BY <1>1, <1>3, <1>4 DEF IInv, InvoiceInv
<1>8. ReduceAR(q.customer, a) /\ a \in Int BY <1>1, <1>2, <1>3
<1>9. Replaces(i, Recompute(q))
  BY <1>1, <1>3, <1>5, <1>6, <1>7, <1>8, RecomputedReplaces
<1>10. \A n \in Memos : MemoInv(n)'
  <2>1. \A j \in Invoices : inv[j].status \notin {"none", "draft"} =>
                              inv'[j].status \notin {"none", "draft"}
    <3> DEFINE r == Recompute(q)
    <3>1. r.status \notin {"none", "draft"} /\ inv' = [inv EXCEPT ![i] = r]
      BY <1>1, <1>9 DEF Replaces
    <3> HIDE DEF r
    <3> QED BY <3>1 DEF IInv, TypeOK
  <2>2. memo'[m] = [state |-> "posted", invoice |-> i, amount |-> a]
    BY <1>1 DEF IInv, TypeOK
  <2>3. \A n \in Memos : n # m => memo'[n] = memo[n] BY <1>1 DEF IInv, TypeOK
  <2> SUFFICES ASSUME NEW n \in Memos PROVE MemoInv(n)' OBVIOUS
  <2>4. CASE n = m BY <1>1, <2>1, <2>2, <2>4 DEF MemoInv
  <2>5. CASE n # m BY <2>1, <2>3, <2>5 DEF IInv, MemoInv
  <2> QED BY <2>4, <2>5
<1>11. PaymentsKept BY <1>1 DEF PaymentsKept
<1> QED BY <1>9, <1>10, <1>11, ReplacedInv

LEMMA VoidCreditMemoLaw ==
  ASSUME Money = Nat, IInv, TypeOK', Acts \cap LawBreakers = {}, NEW m \in Memos,
         VoidCreditMemo(m)
  PROVE  IInv'
<1> DEFINE i == memo[m].invoice
           a == memo[m].amount
           q == [inv[i] EXCEPT !.credited = @ - a]
<1>1. /\ inv' = [inv EXCEPT ![i] = Recompute(q)] /\ UNCHANGED pay
      /\ memo[m].state = "posted"
      /\ inv[i].status \notin {"void", "write_off"}
      /\ ReduceAR(inv[i].customer, -a)
      /\ memo' = [memo EXCEPT ![m].state = "void"]
  BY DEF VoidCreditMemo, MemoVoidable, LawBreakers
<1>2. /\ i \in Invoices /\ inv[i].status \notin {"none", "draft"}
  BY <1>1 DEF IInv, MemoInv
<1>3. inv[i] \in InvoiceRecord /\ a \in Nat
  BY <1>2 DEF IInv, TypeOK, MemoRecord
<1> HIDE DEF i, a
<1>4. /\ q \in InvoiceRecord /\ q.status = inv[i].status /\ q.customer = inv[i].customer
      /\ q.total = inv[i].total /\ q.paid = inv[i].paid
      /\ q.credited = inv[i].credited - a /\ q.writtenOff = inv[i].writtenOff
  BY <1>3 DEF InvoiceRecord
<1> HIDE DEF q
<1>5. /\ inv[i].total \in Nat /\ inv[i].paid \in Nat /\ inv[i].credited \in Int
      /\ inv[i].writtenOff \in Nat
  BY <1>3 DEF InvoiceRecord
<1> DEFINE moved == -a
<1>6. Balance(q) = Balance(inv[i]) - moved /\ moved \in Int
  BY <1>3, <1>4, <1>5 DEF Balance
<1>7. Receivable(inv[i]) BY <1>1, <1>2 DEF Receivable
<1>8. q.writtenOff = 0 /\ q.paid >= inv[i].paid
  BY <1>1, <1>2, <1>4, <1>5 DEF IInv, InvoiceInv
<1>9. ReduceAR(q.customer, moved) BY <1>1, <1>4
<1> HIDE DEF moved
<1>10. Replaces(i, Recompute(q))
  BY <1>1, <1>2, <1>4, <1>6, <1>7, <1>8, <1>9, RecomputedReplaces
<1>11. \A n \in Memos : MemoInv(n)'
  <2>1. \A j \in Invoices : inv[j].status \notin {"none", "draft"} =>
                              inv'[j].status \notin {"none", "draft"}
    <3> DEFINE r == Recompute(q)
    <3>1. r.status \notin {"none", "draft"} /\ inv' = [inv EXCEPT ![i] = r]
      BY <1>1, <1>2, <1>10 DEF Replaces
    <3> HIDE DEF r
    <3> QED BY <3>1 DEF IInv, TypeOK
  <2>2. memo'[m].state = "void" BY <1>1 DEF IInv, TypeOK, MemoRecord
  <2>3. \A n \in Memos : n # m => memo'[n] = memo[n] BY <1>1 DEF IInv, TypeOK
  <2> SUFFICES ASSUME NEW n \in Memos PROVE MemoInv(n)' OBVIOUS
  <2>4. CASE n = m BY <2>2, <2>4 DEF MemoInv
  <2>5. CASE n # m BY <2>1, <2>3, <2>5 DEF IInv, MemoInv
  <2> QED BY <2>4, <2>5
<1>12. PaymentsKept BY <1>1 DEF PaymentsKept
<1> QED BY <1>2, <1>10, <1>11, <1>12, ReplacedInv

LEMMA ApplyCreditLaw ==
  ASSUME Money = Nat, IInv, TypeOK', NEW c \in Customers, NEW i \in Invoices, NEW a \in Amounts,
         ApplyCredit(c, i, a)
  PROVE  IInv'
<1> DEFINE q == [inv[i] EXCEPT !.paid = @ + a]
<1>1. /\ inv' = [inv EXCEPT ![i] = Recompute(q)] /\ UNCHANGED <<pay, memo>>
      /\ inv[i].status \in {"sent", "partial"} /\ inv[i].customer = c
      /\ ReduceAR(c, a)
  BY DEF ApplyCredit
<1>2. inv[i] \in InvoiceRecord /\ a \in Nat BY ReceivablesAssumption DEF IInv, TypeOK
<1>3. /\ q \in InvoiceRecord /\ q.status = inv[i].status /\ q.customer = inv[i].customer
      /\ q.total = inv[i].total /\ q.paid = inv[i].paid + a
      /\ q.credited = inv[i].credited /\ q.writtenOff = inv[i].writtenOff
  BY <1>2 DEF InvoiceRecord
<1> HIDE DEF q
<1>4. /\ inv[i].total \in Nat /\ inv[i].paid \in Nat /\ inv[i].credited \in Int
      /\ inv[i].writtenOff \in Nat
  BY <1>2 DEF InvoiceRecord
<1>5. Balance(q) = Balance(inv[i]) - a BY <1>2, <1>3, <1>4 DEF Balance
<1>6. Receivable(inv[i]) BY <1>1 DEF Receivable
<1>7. q.writtenOff = 0 /\ q.paid >= inv[i].paid
  BY <1>1, <1>2, <1>3, <1>4 DEF IInv, InvoiceInv
<1>8. ReduceAR(q.customer, a) /\ a \in Int BY <1>1, <1>2, <1>3
<1>9. Replaces(i, Recompute(q))
  BY <1>1, <1>3, <1>5, <1>6, <1>7, <1>8, RecomputedReplaces
<1> QED BY <1>1, <1>9, ReplacedStep

(* --- payments ---------------------------------------------------------- *)

LEMMA PaidFields ==
  ASSUME Money = Nat, NEW r \in InvoiceRecord, NEW a \in Nat, a > 0
  PROVE  LET s == Paid(r, a) IN
         /\ s.customer = r.customer /\ s.total = r.total /\ s.paid = r.paid + a
         /\ s.credited = r.credited /\ s.writtenOff = r.writtenOff
         /\ s.status = IF r.paid + a >= r.total THEN "paid" ELSE "partial"
         /\ Balance(s) = Balance(r) - a
<1> DEFINE s == Paid(r, a)
<1>2. /\ r.total \in Nat /\ r.paid \in Nat /\ r.credited \in Int /\ r.writtenOff \in Nat
  BY DEF InvoiceRecord
<1>1. /\ s.customer = r.customer /\ s.total = r.total /\ s.paid = r.paid + a
      /\ s.credited = r.credited /\ s.writtenOff = r.writtenOff
      /\ s.status = IF r.paid + a >= r.total THEN "paid" ELSE "partial"
  BY <1>2 DEF Paid, InvoiceRecord
<1> HIDE DEF s
<1>3. Balance(s) = Balance(r) - a BY <1>1, <1>2 DEF Balance
<1> QED BY <1>1, <1>3 DEF s

LEMMA UnpaidFields ==
  ASSUME Money = Nat, NEW r \in InvoiceRecord, NEW a \in Nat, a <= r.paid,
         r.status \notin {"none", "draft", "void"},
         r.status # "write_off" => r.writtenOff = 0
  PROVE  LET s == Unpaid(r, a) IN
         /\ s.customer = r.customer /\ s.paid = r.paid - a
         /\ s.status \notin {"none", "draft"}
         /\ InvoiceInv(s) /\ Contribution(s) = Contribution(r) + a
<1> DEFINE v == MaxZero(r.paid - a)
           z == 0
           q == [r EXCEPT !.paid = v, !.discount = z]
<1>1. r.paid \in Nat /\ r.total \in Nat /\ r.credited \in Int /\ r.writtenOff \in Nat
  BY DEF InvoiceRecord
<1>2. v = r.paid - a /\ v \in Nat BY <1>1 DEF MaxZero
<1>3. z \in Int OBVIOUS
<1>4. Unpaid(r, a) = Recompute(q) BY DEF Unpaid
<1> HIDE DEF v, z
<1>5. /\ q \in InvoiceRecord /\ q.customer = r.customer /\ q.status = r.status
      /\ q.paid = v /\ q.total = r.total /\ q.credited = r.credited
      /\ q.writtenOff = r.writtenOff
  BY <1>2, <1>3 DEF InvoiceRecord
<1> HIDE DEF q
<1>6. Balance(q) = Balance(r) + a BY <1>1, <1>2, <1>5 DEF Balance
<1>7. Contribution(q) = Contribution(r) + a
  BY <1>5, <1>6 DEF Contribution, Receivable
<1>8. InvoiceInv(Recompute(q)) BY <1>5, RecomputeInv
<1>9. LET s == Recompute(q) IN
        /\ s.customer = q.customer /\ s.paid = q.paid
        /\ s.status \notin {"none", "draft"} /\ Contribution(s) = Contribution(q)
  BY <1>5, RecomputeFields
<1> QED BY <1>2, <1>4, <1>5, <1>7, <1>8, <1>9

(* A payment is recorded: it takes off its customer's balance the total of *)
(* its rows, and off each invoice its row.                                 *)
LEMMA RecordPayment ==
  ASSUME Money = Nat, IInv, TypeOK', Acts \cap LawBreakers = {}, UNCHANGED memo,
         NEW p \in Payments, NEW c \in Customers, NEW apps \in [Invoices -> Nat],
         pay[p].state # "recorded",
         pay'[p].state = "recorded", pay'[p].customer = c, pay'[p].apps = apps,
         \A q \in Payments : q # p => pay'[q] = pay[q],
         \A i \in Invoices : apps[i] > 0 => Applicable(i, c, apps[i]),
         inv' = [i \in Invoices |-> IF apps[i] > 0 THEN Paid(inv[i], apps[i]) ELSE inv[i]],
         ReduceAR(c, SumTo(apps, NumInvoices))
  PROVE  IInv'
<1>1. NumInvoices \in Nat /\ Invoices = 1..NumInvoices
  BY ReceivablesAssumption DEF Invoices
<1>2. \A i \in Invoices : apps[i] > 0 =>
        /\ inv[i].customer = c
        /\ inv[i].status \in {"sent", "partial", "paid"} /\ inv[i].writtenOff = 0
  <2> SUFFICES ASSUME NEW i \in Invoices, apps[i] > 0
               PROVE  /\ inv[i].customer = c
                      /\ inv[i].status \in {"sent", "partial", "paid"}
                      /\ inv[i].writtenOff = 0
    OBVIOUS
  <2>1. /\ inv[i].status \notin {"none", "draft", "void", "write_off"}
        /\ inv[i].customer = c
    BY DEF Applicable, LawBreakers
  <2>2. inv[i].status \in InvoiceStatus BY DEF IInv, TypeOK, InvoiceRecord
  <2> QED BY <2>1, <2>2 DEF IInv, InvoiceInv, InvoiceStatus
<1>3. \A i \in Invoices :
        /\ inv'[i].customer = inv[i].customer
        /\ inv'[i].paid = inv[i].paid + apps[i]
        /\ InvoiceInv(inv'[i])
        /\ Contribution(inv'[i]) = Contribution(inv[i]) - apps[i]
        /\ inv[i].status \notin {"none", "draft"} => inv'[i].status \notin {"none", "draft"}
  <2> SUFFICES ASSUME NEW i \in Invoices
      PROVE  /\ inv'[i].customer = inv[i].customer
             /\ inv'[i].paid = inv[i].paid + apps[i]
             /\ InvoiceInv(inv'[i])
             /\ Contribution(inv'[i]) = Contribution(inv[i]) - apps[i]
             /\ inv[i].status \notin {"none", "draft"} =>
                  inv'[i].status \notin {"none", "draft"}
    OBVIOUS
  <2>1. inv[i] \in InvoiceRecord /\ apps[i] \in Nat BY DEF IInv, TypeOK
  <2>2. CASE apps[i] > 0
    <3> DEFINE s == Paid(inv[i], apps[i])
    <3>1. inv'[i] = s BY <2>2
    <3>2. /\ s.customer = inv[i].customer /\ s.total = inv[i].total
          /\ s.paid = inv[i].paid + apps[i] /\ s.writtenOff = inv[i].writtenOff
          /\ s.status = IF inv[i].paid + apps[i] >= inv[i].total THEN "paid" ELSE "partial"
          /\ Balance(s) = Balance(inv[i]) - apps[i]
      BY <2>1, <2>2, PaidFields
    <3> HIDE DEF s
    <3>3. inv[i].paid \in Nat /\ inv[i].total \in Nat BY <2>1 DEF InvoiceRecord
    <3>4. InvoiceInv(s) BY <1>2, <2>1, <2>2, <3>2, <3>3 DEF InvoiceInv
    <3>5. Contribution(s) = Contribution(inv[i]) - apps[i]
      BY <1>2, <2>2, <3>2 DEF Contribution, Receivable
    <3> QED BY <3>1, <3>2, <3>4, <3>5
  <2>3. CASE ~ (apps[i] > 0)
    <3>1. inv'[i] = inv[i] /\ apps[i] = 0 BY <2>1, <2>3
    <3>2. Contribution(inv[i]) \in Int /\ inv[i].paid \in Nat
      BY <2>1, ContributionInt DEF InvoiceRecord
    <3> QED BY <3>1, <3>2 DEF IInv
  <2> QED BY <2>2, <2>3
<1>4. BalanceLaw'
  <2>1. apps \in [1..NumInvoices -> Nat] /\ apps \in [1..NumInvoices -> Int] BY <1>1
  <2>2. SumTo(apps, NumInvoices) \in Int BY <1>1, <2>1, SumToInt
  <2>3. \A d \in Customers : currentBalance'[d] =
          currentBalance[d] - (IF d = c THEN SumTo(apps, NumInvoices) ELSE 0)
    BY <2>2, ReduceARAt DEF IInv
  <2>4. \A i \in Invoices : apps[i] # 0 => inv'[i].customer = c
    BY <1>2, <1>3
  <2>5. Leaves(c, apps) BY <1>3, <2>1, <2>3, <2>4 DEF Leaves
  <2> QED BY <2>5, LawStep DEF IInv, TypeOK
<1>5. \A i \in Invoices : LivePaid(i)'
  <2> SUFFICES ASSUME NEW i \in Invoices PROVE LivePaid(i)' OBVIOUS
  <2>1. PaidByLive(i)' = PaidByLive(i) + apps[i]
    <3>1. PaidByLive(i) \in Nat /\ apps[i] \in Nat BY PaidByLiveNat DEF IInv
    <3>2. PaidByLive(i)' = PaidByLive(i)
            + ((IF pay'[p].state = "recorded" THEN pay'[p].apps[i] ELSE 0)
               - (IF pay[p].state = "recorded" THEN pay[p].apps[i] ELSE 0))
      BY PaidByLiveStep DEF IInv
    <3> QED BY <3>1, <3>2
  <2>2. PaidByLive(i) \in Nat /\ inv[i].paid \in Nat
    BY PaidByLiveNat DEF IInv, TypeOK, InvoiceRecord
  <2> QED BY <1>3, <2>1, <2>2 DEF IInv, LivePaid
<1>6. \A q \in Payments : LiveApps(q)'
  <2> SUFFICES ASSUME NEW q \in Payments PROVE LiveApps(q)' OBVIOUS
  <2>1. CASE q = p BY <1>2, <1>3, <2>1 DEF LiveApps
  <2>2. CASE q # p BY <1>3, <2>2 DEF IInv, LiveApps
  <2> QED BY <2>1, <2>2
<1>7. \A m \in Memos : MemoInv(m)' BY <1>3, MemosKept
<1> QED BY <1>3, <1>4, <1>5, <1>6, <1>7 DEF IInv

LEMMA CreatePaymentLaw ==
  ASSUME Money = Nat, IInv, TypeOK', Acts \cap LawBreakers = {}, NEW p \in Payments,
         NEW c \in Customers, NEW t \in Figures, NEW apps \in [Invoices -> Figures],
         CreatePayment(p, c, t, apps)
  PROVE  IInv'
<1>1. PICK e \in Booking :
        pay' = [pay EXCEPT ![p] = [NoPayment EXCEPT
                  !.state = "recorded", !.customer = c, !.total = t,
                  !.apps = apps, !.entry = e]]
  BY DEF CreatePayment
<1>2. /\ pay'[p].state = "recorded" /\ pay'[p].customer = c /\ pay'[p].apps = apps
      /\ \A q \in Payments : q # p => pay'[q] = pay[q]
  BY <1>1 DEF IInv, TypeOK, NoPayment
<1>3. apps \in [Invoices -> Nat] /\ \A i \in Invoices : apps[i] # 0 <=> apps[i] > 0
  <2>1. apps \in [Invoices -> Nat] BY FiguresType
  <2> QED BY <2>1
<1>4. /\ UNCHANGED memo /\ pay[p].state # "recorded"
      /\ \A i \in Invoices : apps[i] > 0 => Applicable(i, c, apps[i])
      /\ inv' = [i \in Invoices |-> IF apps[i] > 0 THEN Paid(inv[i], apps[i]) ELSE inv[i]]
      /\ ReduceAR(c, SumTo(apps, NumInvoices))
  BY <1>3 DEF CreatePayment
<1> QED BY <1>2, <1>3, <1>4, RecordPayment

LEMMA ImportPaymentLaw ==
  ASSUME Money = Nat, IInv, TypeOK', Acts \cap LawBreakers = {}, NEW p \in Payments,
         NEW c \in Customers, NEW apps \in [Invoices -> Amounts \cup {0}],
         ImportPayment(p, c, apps)
  PROVE  IInv'
<1>1. pay' = [pay EXCEPT ![p] = [NoPayment EXCEPT
                !.state = "recorded", !.customer = c,
                !.total = SumTo(apps, NumInvoices), !.apps = apps]]
  BY DEF ImportPayment
<1>2. /\ pay'[p].state = "recorded" /\ pay'[p].customer = c /\ pay'[p].apps = apps
      /\ \A q \in Payments : q # p => pay'[q] = pay[q]
  BY <1>1 DEF IInv, TypeOK, NoPayment
<1>3. apps \in [Invoices -> Nat]
  <2>1. Amounts \cup {0} \subseteq Nat BY ReceivablesAssumption
  <2> QED BY <2>1
<1>4. /\ UNCHANGED memo /\ pay[p].state # "recorded"
      /\ \A i \in Invoices : apps[i] > 0 => Applicable(i, c, apps[i])
      /\ inv' = [i \in Invoices |-> IF apps[i] > 0 THEN Paid(inv[i], apps[i]) ELSE inv[i]]
      /\ ReduceAR(c, SumTo(apps, NumInvoices))
  BY DEF ImportPayment
<1> QED BY <1>2, <1>3, <1>4, RecordPayment

LEMMA UnwindLaw ==
  ASSUME Money = Nat, IInv, TypeOK', NEW p \in Payments, NEW state \in {"voided", "returned"},
         Unwind(p, state)
  PROVE  IInv'
<1> DEFINE c == pay[p].customer
           apps == pay[p].apps
           back == [i \in 1..NumInvoices |-> -apps[i]]
<1>1. NumInvoices \in Nat /\ Invoices = 1..NumInvoices
  BY ReceivablesAssumption DEF Invoices
<1>3. /\ apps \in [1..NumInvoices -> Nat] /\ apps \in [1..NumInvoices -> Int]
      /\ apps \in [Invoices -> Nat] /\ \A i \in Invoices : apps[i] # 0 <=> apps[i] > 0
  <2>1. apps \in [Invoices -> Nat] BY DEF IInv, TypeOK, PaymentRecord
  <2> HIDE DEF apps
  <2> QED BY <1>1, <2>1
<1>2. /\ pay[p].state = "recorded" /\ UNCHANGED memo
      /\ inv' = [i \in Invoices |-> IF apps[i] > 0 THEN Unpaid(inv[i], apps[i]) ELSE inv[i]]
      /\ ReduceAR(c, -SumTo(apps, NumInvoices))
  BY <1>3 DEF Unwind, Undoable, Applied
<1>4. /\ \A q \in Payments : q # p => pay'[q] = pay[q]
      /\ pay'[p].state = state
  BY DEF Unwind, IInv, TypeOK, PaymentRecord
<1>5. back \in [1..NumInvoices -> Int] /\ SumTo(back, NumInvoices) = -SumTo(apps, NumInvoices)
  <2> HIDE DEF apps
  <2>1. \A i \in 1..NumInvoices : -apps[i] \in Int BY <1>3
  <2>2. back \in [1..NumInvoices -> Int] /\ \A i \in 1..NumInvoices : back[i] = -apps[i]
    BY <2>1
  <2> HIDE DEF back
  <2> QED BY <1>1, <1>3, <2>2, SumToNegate
<1>6. \A i \in Invoices : apps[i] > 0 =>
        /\ inv[i].customer = c
        /\ apps[i] <= inv[i].paid
        /\ inv[i].status \notin {"none", "draft", "void"}
        /\ inv[i].status # "write_off" => inv[i].writtenOff = 0
  <2> SUFFICES ASSUME NEW i \in Invoices, apps[i] > 0
               PROVE  /\ inv[i].customer = c
                      /\ apps[i] <= inv[i].paid
                      /\ inv[i].status \notin {"none", "draft", "void"}
                      /\ inv[i].status # "write_off" => inv[i].writtenOff = 0
    OBVIOUS
  <2>1. inv[i].customer = c BY <1>2 DEF IInv, LiveApps
  <2>2. apps[i] <= PaidByLive(i) /\ PaidByLive(i) \in Nat
    BY <1>2, PaidByLiveNat DEF IInv
  <2>3. inv[i].paid \in Nat /\ apps[i] \in Nat
    BY <1>3 DEF IInv, TypeOK, InvoiceRecord
  <2>4. apps[i] <= inv[i].paid /\ inv[i].paid # 0
    BY <2>2, <2>3 DEF IInv, LivePaid
  <2>5. inv[i].status \notin {"none", "draft", "void"}
    BY <2>4 DEF IInv, InvoiceInv
  <2> QED BY <2>1, <2>4, <2>5 DEF IInv, InvoiceInv
<1>7. \A i \in Invoices :
        /\ inv'[i].customer = inv[i].customer
        /\ inv'[i].paid = inv[i].paid - apps[i]
        /\ InvoiceInv(inv'[i])
        /\ Contribution(inv'[i]) = Contribution(inv[i]) + apps[i]
        /\ inv[i].status \notin {"none", "draft"} => inv'[i].status \notin {"none", "draft"}
  <2> SUFFICES ASSUME NEW i \in Invoices
      PROVE  /\ inv'[i].customer = inv[i].customer
             /\ inv'[i].paid = inv[i].paid - apps[i]
             /\ InvoiceInv(inv'[i])
             /\ Contribution(inv'[i]) = Contribution(inv[i]) + apps[i]
             /\ inv[i].status \notin {"none", "draft"} =>
                  inv'[i].status \notin {"none", "draft"}
    OBVIOUS
  <2>1. inv[i] \in InvoiceRecord /\ apps[i] \in Nat BY <1>3 DEF IInv, TypeOK
  <2>2. CASE apps[i] > 0
    <3>1. inv'[i] = Unpaid(inv[i], apps[i]) BY <1>2, <2>2
    <3> HIDE DEF apps
    <3> QED BY <1>6, <2>1, <2>2, <3>1, UnpaidFields
  <2>3. CASE ~ (apps[i] > 0)
    <3>1. inv'[i] = inv[i] /\ apps[i] = 0 BY <1>2, <2>1, <2>3
    <3>2. Contribution(inv[i]) \in Int /\ inv[i].paid \in Nat
      BY <2>1, ContributionInt DEF InvoiceRecord
    <3> QED BY <3>1, <3>2 DEF IInv
  <2> QED BY <2>2, <2>3
<1>8. BalanceLaw'
  <2>1. SumTo(back, NumInvoices) \in Int BY <1>1, <1>5, SumToInt
  <2>2. ReduceAR(c, SumTo(back, NumInvoices)) BY <1>2, <1>5
  <2>3. \A i \in Invoices :
          /\ Contribution(inv'[i]) = Contribution(inv[i]) - back[i]
          /\ inv'[i].customer = inv[i].customer
          /\ back[i] # 0 => inv'[i].customer = c
    <3> SUFFICES ASSUME NEW i \in Invoices
        PROVE  /\ Contribution(inv'[i]) = Contribution(inv[i]) - back[i]
               /\ inv'[i].customer = inv[i].customer
               /\ back[i] # 0 => inv'[i].customer = c
      OBVIOUS
    <3>1. back[i] = -apps[i] /\ apps[i] \in Nat BY <1>1, <1>3
    <3>2. Contribution(inv[i]) \in Int BY ContributionInt DEF IInv, TypeOK
    <3> HIDE DEF back, apps, c
    <3> QED BY <1>6, <1>7, <3>1, <3>2
  <2> HIDE DEF back, c
  <2>4. \A d \in Customers : currentBalance'[d] =
          currentBalance[d] - (IF d = c THEN SumTo(back, NumInvoices) ELSE 0)
    BY <2>1, <2>2, ReduceARAt DEF IInv
  <2>5. Leaves(c, back) BY <1>5, <2>3, <2>4 DEF Leaves
  <2> QED BY <2>5, LawStep DEF IInv, TypeOK
<1>9. \A i \in Invoices : LivePaid(i)'
  <2> SUFFICES ASSUME NEW i \in Invoices PROVE LivePaid(i)' OBVIOUS
  <2>1. PaidByLive(i) \in Nat /\ apps[i] \in Nat /\ inv[i].paid \in Nat
    BY <1>3, PaidByLiveNat DEF IInv, TypeOK, InvoiceRecord
  <2>2. PaidByLive(i)' = PaidByLive(i) - apps[i]
    <3>1. PaidByLive(i)' = PaidByLive(i)
            + ((IF pay'[p].state = "recorded" THEN pay'[p].apps[i] ELSE 0)
               - (IF pay[p].state = "recorded" THEN pay[p].apps[i] ELSE 0))
      BY <1>4, PaidByLiveStep DEF IInv
    <3> QED BY <1>2, <1>4, <2>1, <3>1
  <2> QED BY <1>7, <2>1, <2>2 DEF IInv, LivePaid
<1>10. \A q \in Payments : LiveApps(q)'
  <2> SUFFICES ASSUME NEW q \in Payments PROVE LiveApps(q)' OBVIOUS
  <2>1. CASE q = p BY <1>4, <2>1 DEF LiveApps
  <2>2. CASE q # p BY <1>4, <1>7, <2>2 DEF IInv, LiveApps
  <2> QED BY <2>1, <2>2
<1>11. \A m \in Memos : MemoInv(m)' BY <1>2, <1>7, MemosKept
<1> QED BY <1>7, <1>8, <1>9, <1>10, <1>11 DEF IInv

(* --- the theorem ------------------------------------------------------- *)

(* A call that touches no invoice, no memo, no balance, and of a payment   *)
(* only its journal entries.                                               *)
LEMMA AsideStep ==
  ASSUME IInv, TypeOK', UNCHANGED <<inv, memo, currentBalance>>, PaymentsKept
  PROVE  IInv'
<1>1. BalanceLaw' BY DEF IInv, BalanceLaw, OpenTotal, Owed
<1>2. \A i \in Invoices : PaidByLive(i)' = PaidByLive(i)
  BY DEF PaidByLive, PaymentsKept
<1>3. \A i \in Invoices : InvoiceInv(inv'[i]) /\ LivePaid(i)'
  BY <1>2 DEF IInv, LivePaid
<1>4. \A p \in Payments : LiveApps(p)' BY DEF IInv, LiveApps, PaymentsKept
<1>5. \A m \in Memos : MemoInv(m)' BY DEF IInv, MemoInv
<1> QED BY <1>1, <1>3, <1>4, <1>5 DEF IInv

(* Where the law holds the nightly reconciliation finds nothing to do.     *)
LEMMA NothingDrifts ==
  ASSUME IInv, NEW c \in Customers
  PROVE  ~ Sweep(c)
<1>1. OpenTotal(c) \in Int BY OpenTotalInt DEF IInv
<1>2. Drift(c) = 0 BY <1>1 DEF IInv, BalanceLaw, Drift
<1> QED BY <1>2 DEF Sweep, Drifts

LEMMA LawInit == Init => IInv
<1> SUFFICES ASSUME Init PROVE IInv OBVIOUS
<1>1. TypeOK BY TypeInit
<1>2. \A i \in Invoices : inv[i].status = "none" /\ inv[i].paid = 0
                          /\ inv[i].credited = 0 /\ inv[i].writtenOff = 0
  BY DEF Init, NoInvoice, NewInvoice
<1>3. \A p \in Payments : pay[p].state = "none" BY DEF Init, NoPayment
<1>4. \A m \in Memos : memo[m].state = "none" BY DEF Init, NoMemo
<1>5. BalanceLaw
  <2> SUFFICES ASSUME NEW c \in Customers PROVE currentBalance[c] = OpenTotal(c)
    BY DEF BalanceLaw
  <2> DEFINE f == [i \in Invoices |-> Owed(i, c)]
  <2>1. NumInvoices \in Nat /\ Invoices = 1..NumInvoices
    BY ReceivablesAssumption DEF Invoices
  <2>2. \A i \in Invoices : Owed(i, c) = 0 BY <1>2 DEF Owed, Receivable
  <2>3. f \in [1..NumInvoices -> Int] /\ \A i \in 1..NumInvoices : f[i] = 0
    BY <2>1, <2>2
  <2>4. OpenTotal(c) = SumTo(f, NumInvoices) BY DEF OpenTotal
  <2> HIDE DEF f
  <2>5. OpenTotal(c) = 0 BY <2>1, <2>3, <2>4, SumToZero
  <2> QED BY <2>5 DEF Init
<1>6. \A i \in Invoices : LivePaid(i)
  <2> SUFFICES ASSUME NEW i \in Invoices PROVE LivePaid(i) OBVIOUS
  <2> DEFINE f == [p \in Payments |-> IF pay[p].state = "recorded"
                                      THEN pay[p].apps[i] ELSE 0]
  <2>1. NumPayments \in Nat /\ Payments = 1..NumPayments
    BY ReceivablesAssumption DEF Payments
  <2>2. f \in [1..NumPayments -> Int] /\ \A p \in 1..NumPayments : f[p] = 0
    BY <1>3, <2>1
  <2>3. PaidByLive(i) = SumTo(f, NumPayments) BY DEF PaidByLive
  <2> HIDE DEF f
  <2>4. PaidByLive(i) = 0 BY <2>1, <2>2, <2>3, SumToZero
  <2> QED BY <1>2, <2>4 DEF LivePaid
<1>7. \A i \in Invoices : InvoiceInv(inv[i]) BY <1>2 DEF InvoiceInv
<1>8. \A p \in Payments : LiveApps(p) BY <1>3 DEF LiveApps
<1>9. \A m \in Memos : MemoInv(m) BY <1>4 DEF MemoInv
<1> QED BY <1>1, <1>5, <1>6, <1>7, <1>8, <1>9 DEF IInv

LEMMA PaymentsAside ==
  ASSUME IInv, TypeOK', NEW p \in Payments, UNCHANGED <<inv, memo, currentBalance>>,
         NEW e, NEW f, NEW b,
         \/ pay' = [pay EXCEPT ![p].entry = e]
         \/ pay' = [pay EXCEPT ![p].discountEntry = f]
         \/ pay' = [pay EXCEPT ![p] = [pay[p] EXCEPT !.stranded = b, !.discountEntry = f]]
  PROVE  IInv'
<1>1. PaymentsKept
  <2> SUFFICES ASSUME NEW q \in Payments
      PROVE  /\ pay'[q].state = pay[q].state /\ pay'[q].apps = pay[q].apps
             /\ pay'[q].customer = pay[q].customer
    BY DEF PaymentsKept
  <2>1. pay \in [Payments -> PaymentRecord] BY DEF IInv, TypeOK
  <2>2. CASE pay' = [pay EXCEPT ![p].entry = e]
    BY <2>1, <2>2 DEF PaymentRecord
  <2>3. CASE pay' = [pay EXCEPT ![p].discountEntry = f]
    BY <2>1, <2>3 DEF PaymentRecord
  <2>4. CASE pay' = [pay EXCEPT ![p] = [pay[p] EXCEPT !.stranded = b, !.discountEntry = f]]
    BY <2>1, <2>4 DEF PaymentRecord
  <2> QED BY <2>2, <2>3, <2>4
<1> QED BY <1>1, AsideStep

LEMMA LawStepNext ==
  ASSUME IInv, Next, Acts \cap LawBreakers = {}
  PROVE  IInv'
<1>1. TypeOK' BY TypeStep DEF IInv
<1>7. Money = Nat
  <2>1. "below_zero" \notin Acts BY DEF LawBreakers
  <2> QED BY <2>1, NatMoney
<1>2. CASE InvoiceStep
  BY <1>1, <1>7, <1>2, CreateInvoiceLaw, IssueInvoiceLaw, PatchInvoiceLaw, VoidInvoiceLaw,
     WriteOffInvoiceLaw, ReinstateInvoiceLaw, HonorDiscountLaw
  DEF InvoiceStep
<1>3. CASE MemoStep
  BY <1>1, <1>7, <1>3, CreateCreditMemoLaw, VoidCreditMemoLaw DEF MemoStep
<1>4. CASE PaymentStep
  <2>1. ASSUME NEW p \in Payments, NEW i \in Invoices, NEW a \in Amounts
        PROVE  ~ MatchCashReceipt(p, i, a)
    BY DEF MatchCashReceipt, LawBreakers
  <2> QED BY <1>1, <1>7, <1>4, <2>1, CreatePaymentLaw, ImportPaymentLaw, UnwindLaw
          DEF PaymentStep, VoidPayment, ReturnPayment
<1>5. CASE CustomerStep
  <2>1. ASSUME NEW c \in Customers, NEW kind, NEW a \in Amounts
        PROVE  ~ AdjustBalance(c, kind, a)
    BY DEF AdjustBalance, LawBreakers
  <2>2. ASSUME NEW c \in Customers, NEW a \in Amounts, DisburseCredit(c, a)
        PROVE  IInv'
    <3>1. UNCHANGED <<inv, pay, memo, currentBalance>> BY <2>2 DEF DisburseCredit
    <3>2. PaymentsKept BY <3>1 DEF PaymentsKept
    <3> QED BY <1>1, <3>1, <3>2, AsideStep
  <2> QED BY <1>1, <1>7, <1>5, <2>1, <2>2, ApplyCreditLaw, NothingDrifts DEF CustomerStep
<1>6. CASE LedgerStep
  <2>1. ASSUME NEW p \in Payments, ApplyDiscount(p) PROVE IInv'
    <3>1. UNCHANGED <<inv, memo, currentBalance>> BY <2>1 DEF ApplyDiscount
    <3>2. \E b : pay' = [pay EXCEPT ![p] = [pay[p] EXCEPT !.stranded = b,
                                                     !.discountEntry = "posted"]]
      BY <2>1 DEF ApplyDiscount
    <3> QED BY <1>1, <3>1, <3>2, PaymentsAside
  <2>2. ASSUME NEW p \in Payments, NEW f \in EntryStatus, BookPaymentEntry(p, f)
        PROVE  IInv'
    <3>1. UNCHANGED <<inv, memo, currentBalance>> BY <2>2 DEF BookPaymentEntry
    <3>2. \/ pay' = [pay EXCEPT ![p].entry = f]
          \/ pay' = [pay EXCEPT ![p].discountEntry = f]
      BY <2>2 DEF BookPaymentEntry
    <3> QED BY <1>1, <3>1, <3>2, PaymentsAside
  <2>3. ASSUME LockPeriod PROVE IInv'
    <3>1. UNCHANGED <<inv, pay, memo, currentBalance>> BY <2>3 DEF LockPeriod
    <3>2. PaymentsKept BY <3>1 DEF PaymentsKept
    <3> QED BY <1>1, <3>1, <3>2, AsideStep
  <2> QED BY <1>1, <1>7, <1>6, <2>1, <2>2, <2>3, BookInvoiceEntryLaw DEF LedgerStep
<1> QED BY <1>2, <1>3, <1>4, <1>5, <1>6 DEF Next

(* As long as none of the calls in LawBreakers is made, every customer's   *)
(* running balance is the sum of what their receivable invoices owe, after *)
(* any sequence of issuing, voiding, writing off, reinstating, crediting,  *)
(* paying, importing, unwinding and applying credit.                       *)
THEOREM BalanceLawHolds ==
  ASSUME Acts \cap LawBreakers = {}
  PROVE  Spec => []BalanceLaw
<1>1. Init => IInv BY LawInit
<1>2. IInv /\ [Next]_vars => IInv'
  <2>1. IInv /\ Next => IInv' BY LawStepNext
  <2>2. ASSUME IInv, UNCHANGED vars PROVE IInv'
    <3>1. TypeOK' /\ UNCHANGED <<inv, pay, memo, currentBalance>>
      BY <2>2 DEF IInv, TypeOK, vars
    <3>2. PaymentsKept BY <3>1 DEF PaymentsKept
    <3> QED BY <2>2, <3>1, <3>2, AsideStep
  <2> QED BY <2>1, <2>2
<1>3. IInv => BalanceLaw BY DEF IInv
<1> QED BY <1>1, <1>2, <1>3, PTL DEF Spec
=============================================================================
