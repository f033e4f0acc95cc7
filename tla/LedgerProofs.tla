----------------------------- MODULE LedgerProofs -----------------------------
(***************************************************************************)
(* What Receivables keeps of the journal behind its documents: no entry    *)
(* outlives its document, nothing is booked in a closed period, and a      *)
(* voided invoice is left alone.  All three follow from how one step may   *)
(* move the status and the entries of one invoice or of one payment.       *)
(***************************************************************************)
EXTENDS BalanceProofs

(* What a first posting may yield. *)
Postings == IF closed THEN {"none"} ELSE {"none", "draft"}

(* How one step may move an invoice from r to s: it leaves it, opens it,   *)
(* issues it, restates it beside its entry, voids it with its entry, or    *)
(* books its entry.                                                        *)
InvoiceMove(r, s) ==
  \/ s = r
  \/ r.status = "none" /\ s.status = "draft" /\ s.entry = "none" /\ ~closed
  \/ r.status = "draft" /\ s.status = "sent" /\ s.entry \in Postings
  \/ /\ s.entry = r.entry
     /\ \/ s.status = r.status
        \/ s.status \notin {"none", "draft", "void"}
        \/ s.status = "void" /\ (r.status = "draft" \/ "patch_issued" \in Acts)
  \/ s.status = "void" /\ s.entry = Undone(r.entry) /\ MayUndo(r.entry)
  \/ s.status = r.status /\ Books(r.entry, s.entry)

(* The same for a payment and its two entries. *)
PaymentMove(r, s) ==
  \/ /\ s.state = r.state /\ s.entry = r.entry
     /\ s.discountEntry = r.discountEntry /\ s.stranded = r.stranded
  \/ /\ r.state = "none" /\ s.state = "recorded" /\ s.entry \in Postings
     /\ s.discountEntry = "none" /\ s.stranded = FALSE
  \/ /\ r.state = "recorded" /\ s.state \in {"voided", "returned"}
     /\ s.entry = Undone(r.entry) /\ MayUndo(r.entry)
     /\ s.discountEntry = Undone(r.discountEntry) /\ MayUndo(r.discountEntry)
     /\ s.stranded = r.stranded
  \/ /\ ~closed /\ r.state # "none"
     /\ r.state # "recorded" => "discount_undone" \in Acts
     /\ r.discountEntry # "none" => "discount_twice" \in Acts
     /\ s.state = r.state /\ s.entry = r.entry /\ s.discountEntry = "posted"
     /\ r.discountEntry = "none" => s.stranded = r.stranded
  \/ /\ s.state = r.state /\ s.stranded = r.stranded
     /\ \/ Books(r.entry, s.entry) /\ s.discountEntry = r.discountEntry
        \/ Books(r.discountEntry, s.discountEntry) /\ s.entry = r.entry

Moves == /\ \A i \in Invoices : InvoiceMove(inv[i], inv'[i])
         /\ \A p \in Payments : PaymentMove(pay[p], pay'[p])

(* --- every step is made of such moves ---------------------------------- *)

LEMMA InvoicesStay ==
  ASSUME UNCHANGED inv
  PROVE  \A i \in Invoices : InvoiceMove(inv[i], inv'[i])
BY DEF InvoiceMove

LEMMA PaymentsStay ==
  ASSUME UNCHANGED pay
  PROVE  \A p \in Payments : PaymentMove(pay[p], pay'[p])
BY DEF PaymentMove

(* A step that replaces one invoice moves no other. *)
LEMMA InvoiceReplaced ==
  ASSUME TypeOK, NEW i, NEW r, inv' = [inv EXCEPT ![i] = r],
         i \in Invoices => InvoiceMove(inv[i], r)
  PROVE  \A j \in Invoices : InvoiceMove(inv[j], inv'[j])
<1> SUFFICES ASSUME NEW j \in Invoices PROVE InvoiceMove(inv[j], inv'[j])
  OBVIOUS
<1>1. inv \in [Invoices -> InvoiceRecord] BY DEF TypeOK
<1>2. CASE j = i
  <2>1. inv'[j] = r BY <1>1, <1>2
  <2> QED BY <1>2, <2>1
<1>3. CASE j # i
  <2>1. inv'[j] = inv[j] BY <1>1, <1>3
  <2> QED BY <2>1 DEF InvoiceMove
<1> QED BY <1>2, <1>3

(* The same for one payment. *)
LEMMA PaymentReplaced ==
  ASSUME TypeOK, NEW p \in Payments, NEW r, pay' = [pay EXCEPT ![p] = r],
         PaymentMove(pay[p], r)
  PROVE  \A q \in Payments : PaymentMove(pay[q], pay'[q])
<1> SUFFICES ASSUME NEW q \in Payments PROVE PaymentMove(pay[q], pay'[q])
  OBVIOUS
<1>1. pay \in [Payments -> PaymentRecord] BY DEF TypeOK
<1>2. CASE q = p
  <2>1. pay'[q] = r BY <1>1, <1>2
  <2> QED BY <1>2, <2>1
<1>3. CASE q # p
  <2>1. pay'[q] = pay[q] BY <1>1, <1>3
  <2> QED BY <2>1 DEF PaymentMove
<1> QED BY <1>2, <1>3

(* Re-deriving a status keeps the entry, and opens, drafts or voids        *)
(* nothing.                                                                *)
LEMMA RecomputeMoves ==
  ASSUME NEW r \in InvoiceRecord, NEW q \in InvoiceRecord, q.entry = r.entry,
         q.status = r.status \/ q.status \notin {"none", "draft", "void"}
  PROVE  InvoiceMove(r, Recompute(q))
<1> DEFINE s == Recompute(q)
<1>1. s.entry = q.entry BY DEF Recompute, InvoiceRecord
<1>2. s.status = q.status \/ s.status \in {"paid", "partial", "sent"}
  BY DEF Recompute, InvoiceRecord
<1> HIDE DEF s
<1>3. InvoiceMove(r, s) BY <1>1, <1>2 DEF InvoiceMove
<1> QED BY <1>3 DEF s

LEMMA PaidMoves ==
  ASSUME NEW r \in InvoiceRecord, NEW a \in Money
  PROVE  InvoiceMove(r, Paid(r, a))
<1> DEFINE s == Paid(r, a)
<1>1. s.entry = r.entry /\ (s.status \in {"paid", "partial"} \/ s.status = r.status)
  BY DEF Paid, InvoiceRecord
<1> HIDE DEF s
<1>2. InvoiceMove(r, s) BY <1>1 DEF InvoiceMove
<1> QED BY <1>2 DEF s

LEMMA UnpaidMoves ==
  ASSUME NEW r \in InvoiceRecord, NEW a \in Money
  PROVE  InvoiceMove(r, Unpaid(r, a))
<1> DEFINE v == MaxZero(r.paid - a)
           z == 0
           q == [r EXCEPT !.paid = v, !.discount = z]
<1>1. v \in Money
  <2>1. r.paid \in Int /\ a \in Int BY MoneyFacts DEF InvoiceRecord
  <2>2. v \in Nat BY <2>1 DEF MaxZero
  <2> QED BY <2>2, MoneyFacts
<1>2. z \in Int OBVIOUS
<1>3. Unpaid(r, a) = Recompute(q) BY DEF Unpaid
<1> HIDE DEF v, z
<1>4. q \in InvoiceRecord /\ q.entry = r.entry /\ q.status = r.status
  BY <1>1, <1>2 DEF InvoiceRecord
<1> HIDE DEF q
<1> QED BY <1>3, <1>4, RecomputeMoves

LEMMA InvoiceStepMoves ==
  ASSUME TypeOK, InvoiceStep
  PROVE  Moves
<1>1. PICK i \in Invoices :
    \/ \E c \in Customers, o \in Orders \cup {NoOrder}, t \in Figures :
         CreateInvoice(i, c, o, t)
    \/ IssueInvoice(i) \/ VoidInvoice(i)
    \/ \E s \in {"sent", "partial", "paid", "void"} : PatchInvoice(i, s)
    \/ WriteOffInvoice(i) \/ ReinstateInvoice(i) \/ HonorDiscount(i)
  BY DEF InvoiceStep
<1>2. inv \in [Invoices -> InvoiceRecord] /\ inv[i] \in InvoiceRecord
  BY DEF TypeOK
<1>3. UNCHANGED pay
  BY <1>1 DEF CreateInvoice, IssueInvoice, VoidInvoice, PatchInvoice, WriteOffInvoice,
              ReinstateInvoice, HonorDiscount
<1>4. \A j \in Invoices : InvoiceMove(inv[j], inv'[j])
  <2>1. ASSUME NEW c \in Customers, NEW o \in Orders \cup {NoOrder}, NEW t \in Figures,
               CreateInvoice(i, c, o, t)
        PROVE  \A j \in Invoices : InvoiceMove(inv[j], inv'[j])
    <3>1. InvoiceMove(inv[i], NewInvoice(c, o, t))
      BY <2>1 DEF CreateInvoice, NewInvoice, InvoiceMove
    <3> QED BY <2>1, <3>1, InvoiceReplaced DEF CreateInvoice
  <2>2. CASE IssueInvoice(i)
    <3>1. PICK e \in Postings :
            inv' = [inv EXCEPT ![i] = [inv[i] EXCEPT !.status = "sent", !.entry = e]]
      BY <2>2, ReceivablesAssumption DEF IssueInvoice, Postings
    <3> DEFINE r == [inv[i] EXCEPT !.status = "sent", !.entry = e]
    <3>2. r.status = "sent" /\ r.entry = e BY <1>2 DEF InvoiceRecord
    <3> HIDE DEF r
    <3>3. InvoiceMove(inv[i], r) BY <2>2, <3>2 DEF IssueInvoice, InvoiceMove
    <3>4. inv' = [inv EXCEPT ![i] = r] BY <3>1 DEF r
    <3> QED BY <3>3, <3>4, InvoiceReplaced
  <2>3. CASE VoidInvoice(i)
    <3> DEFINE r == [inv[i] EXCEPT !.status = "void", !.entry = Undone(@)]
    <3>1. r.status = "void" /\ r.entry = Undone(inv[i].entry) BY <1>2 DEF InvoiceRecord
    <3>2. inv' = [inv EXCEPT ![i] = r] /\ MayUndo(inv[i].entry) BY <2>3 DEF VoidInvoice
    <3> HIDE DEF r
    <3>3. InvoiceMove(inv[i], r) BY <3>1, <3>2 DEF InvoiceMove
    <3> QED BY <3>2, <3>3, InvoiceReplaced
  <2>4. ASSUME NEW s \in {"sent", "partial", "paid", "void"}, PatchInvoice(i, s)
        PROVE  \A j \in Invoices : InvoiceMove(inv[j], inv'[j])
    <3> DEFINE r == [inv[i] EXCEPT !.status = s]
    <3>1. r.status = s /\ r.entry = inv[i].entry BY <1>2 DEF InvoiceRecord
    <3>2. inv' = [inv EXCEPT ![i] = r] BY <2>4 DEF PatchInvoice
    <3>3. s = "void" => inv[i].status = "draft" \/ "patch_issued" \in Acts
      BY <2>4 DEF PatchInvoice
    <3> HIDE DEF r
    <3>4. InvoiceMove(inv[i], r) BY <3>1, <3>3 DEF InvoiceMove
    <3> QED BY <3>2, <3>4, InvoiceReplaced
  <2>5. CASE WriteOffInvoice(i)
    <3> DEFINE rest == Balance(inv[i])
               r == [inv[i] EXCEPT !.writtenOff = rest, !.status = "write_off"]
    <3>1. inv' = [inv EXCEPT ![i] = r] BY <2>5 DEF WriteOffInvoice
    <3> HIDE DEF rest
    <3>2. r.status = "write_off" /\ r.entry = inv[i].entry BY <1>2 DEF InvoiceRecord
    <3> HIDE DEF r
    <3>3. InvoiceMove(inv[i], r) BY <3>2 DEF InvoiceMove
    <3> QED BY <3>1, <3>3, InvoiceReplaced
  <2>6. CASE ReinstateInvoice(i)
    <3> DEFINE q == [inv[i] EXCEPT !.writtenOff = 0, !.status = "sent"]
    <3>1. inv' = [inv EXCEPT ![i] = Recompute(q)] BY <2>6 DEF ReinstateInvoice
    <3>2. q \in InvoiceRecord /\ q.entry = inv[i].entry /\ q.status = "sent"
      BY <1>2 DEF InvoiceRecord, InvoiceStatus
    <3> HIDE DEF q
    <3>3. InvoiceMove(inv[i], Recompute(q)) BY <1>2, <3>2, RecomputeMoves
    <3> QED BY <3>1, <3>3, InvoiceReplaced
  <2>7. CASE HonorDiscount(i)
    <3> DEFINE d == inv[i].total - inv[i].paid
               t == inv[i].total
               r == [inv[i] EXCEPT !.discount = d, !.paid = t, !.status = "paid"]
    <3>1. inv' = [inv EXCEPT ![i] = r] BY <2>7 DEF HonorDiscount
    <3> HIDE DEF d, t
    <3>2. r.status = "paid" /\ r.entry = inv[i].entry BY <1>2 DEF InvoiceRecord
    <3> HIDE DEF r
    <3>3. InvoiceMove(inv[i], r) BY <3>2 DEF InvoiceMove
    <3> QED BY <3>1, <3>3, InvoiceReplaced
  <2> QED BY <1>1, <2>1, <2>2, <2>3, <2>4, <2>5, <2>6, <2>7
<1> QED BY <1>3, <1>4, PaymentsStay DEF Moves

LEMMA MemoStepMoves ==
  ASSUME TypeOK, MemoStep
  PROVE  Moves
<1>1. UNCHANGED pay BY DEF MemoStep, CreateCreditMemo, VoidCreditMemo
<1>2. ASSUME NEW m \in Memos, NEW i \in Invoices, NEW a \in Amounts,
             CreateCreditMemo(m, i, a)
      PROVE  \A j \in Invoices : InvoiceMove(inv[j], inv'[j])
  <2> DEFINE q == [inv[i] EXCEPT !.credited = @ + a]
  <2>1. inv[i] \in InvoiceRecord /\ a \in Nat BY ReceivablesAssumption DEF TypeOK
  <2>2. inv' = [inv EXCEPT ![i] = Recompute(q)] BY <1>2 DEF CreateCreditMemo
  <2>3. q \in InvoiceRecord /\ q.entry = inv[i].entry /\ q.status = inv[i].status
    BY <2>1 DEF InvoiceRecord
  <2> HIDE DEF q
  <2>4. InvoiceMove(inv[i], Recompute(q)) BY <2>1, <2>3, RecomputeMoves
  <2> QED BY <2>2, <2>4, InvoiceReplaced
<1>3. ASSUME NEW m \in Memos, VoidCreditMemo(m)
      PROVE  \A j \in Invoices : InvoiceMove(inv[j], inv'[j])
  <2> DEFINE i == memo[m].invoice
             a == memo[m].amount
             q == [inv[i] EXCEPT !.credited = @ - a]
  <2>1. inv' = [inv EXCEPT ![i] = Recompute(q)] BY <1>3 DEF VoidCreditMemo
  <2>2. a \in Nat BY DEF TypeOK, MemoRecord
  <2> HIDE DEF i, a
  <2>3. ASSUME i \in Invoices PROVE InvoiceMove(inv[i], Recompute(q))
    <3>1. inv[i] \in InvoiceRecord BY <2>3 DEF TypeOK
    <3>2. q \in InvoiceRecord /\ q.entry = inv[i].entry /\ q.status = inv[i].status
      BY <2>2, <3>1 DEF InvoiceRecord
    <3> HIDE DEF q
    <3> QED BY <3>1, <3>2, RecomputeMoves
  <2> HIDE DEF q
  <2> QED BY <2>1, <2>3, InvoiceReplaced
<1>4. \A j \in Invoices : InvoiceMove(inv[j], inv'[j])
  BY <1>2, <1>3 DEF MemoStep
<1> QED BY <1>1, <1>4, PaymentsStay DEF Moves

(* A payment is recorded as r: it pays some invoices and leaves the rest.  *)
LEMMA RecordedMoves ==
  ASSUME TypeOK, NEW p \in Payments, NEW r, NEW apps \in [Invoices -> Money],
         pay' = [pay EXCEPT ![p] = r], pay[p].state = "none",
         r.state = "recorded", r.entry \in Postings, r.discountEntry = "none",
         r.stranded = FALSE,
         \A i \in Invoices : inv'[i] = Paid(inv[i], apps[i]) \/ inv'[i] = inv[i]
  PROVE  Moves
<1>1. PaymentMove(pay[p], r) BY DEF PaymentMove
<1>2. \A q \in Payments : PaymentMove(pay[q], pay'[q]) BY <1>1, PaymentReplaced
<1>3. ASSUME NEW i \in Invoices PROVE InvoiceMove(inv[i], inv'[i])
  <2>1. inv[i] \in InvoiceRecord /\ apps[i] \in Money BY DEF TypeOK
  <2>2. InvoiceMove(inv[i], Paid(inv[i], apps[i])) BY <2>1, PaidMoves
  <2> QED BY <2>2 DEF InvoiceMove
<1> QED BY <1>2, <1>3 DEF Moves

LEMMA UnwindMoves ==
  ASSUME TypeOK, NEW p \in Payments, NEW state \in {"voided", "returned"}, Unwind(p, state)
  PROVE  Moves
<1> DEFINE r == [pay[p] EXCEPT !.state = state, !.entry = Undone(@),
                               !.discountEntry = Undone(@)]
<1>1. pay' = [pay EXCEPT ![p] = r] BY DEF Unwind
<1>2. pay[p] \in PaymentRecord BY DEF TypeOK
<1>3. /\ r.state = state /\ r.entry = Undone(pay[p].entry)
      /\ r.discountEntry = Undone(pay[p].discountEntry) /\ r.stranded = pay[p].stranded
  BY <1>2 DEF PaymentRecord
<1> HIDE DEF r
<1>4. /\ pay[p].state = "recorded"
      /\ MayUndo(pay[p].entry) /\ MayUndo(pay[p].discountEntry)
  BY DEF Unwind, Undoable
<1>5. PaymentMove(pay[p], r) BY <1>3, <1>4 DEF PaymentMove
<1>6. \A q \in Payments : PaymentMove(pay[q], pay'[q]) BY <1>1, <1>5, PaymentReplaced
<1>7. ASSUME NEW i \in Invoices PROVE InvoiceMove(inv[i], inv'[i])
  <2>1. inv[i] \in InvoiceRecord /\ pay[p].apps[i] \in Money
    BY <1>2 DEF TypeOK, PaymentRecord
  <2>2. InvoiceMove(inv[i], Unpaid(inv[i], pay[p].apps[i])) BY <2>1, UnpaidMoves
  <2>3. inv'[i] = Unpaid(inv[i], pay[p].apps[i]) \/ inv'[i] = inv[i] BY DEF Unwind
  <2> QED BY <2>2, <2>3 DEF InvoiceMove
<1> QED BY <1>6, <1>7 DEF Moves

LEMMA MatchCashReceiptMoves ==
  ASSUME TypeOK, NEW p \in Payments, NEW i \in Invoices, NEW a \in Amounts,
         MatchCashReceipt(p, i, a)
  PROVE  Moves
<1>1. inv[i] \in InvoiceRecord /\ pay[p] \in PaymentRecord BY DEF TypeOK
<1> DEFINE s == IF inv[i].paid + a >= inv[i].total THEN "paid" ELSE inv[i].status
           v == inv[i].paid + a
           r == [inv[i] EXCEPT !.paid = v, !.status = s]
           w == [pay[p].apps EXCEPT ![i] = @ + a]
           q == [pay[p] EXCEPT !.apps = w]
<1>2. inv' = [inv EXCEPT ![i] = r] /\ pay' = [pay EXCEPT ![p] = q]
  BY DEF MatchCashReceipt
<1>3. s = inv[i].status \/ s = "paid" OBVIOUS
<1> HIDE DEF s, v, w
<1>4. r.entry = inv[i].entry /\ r.status = s BY <1>1 DEF InvoiceRecord
<1>5. /\ q.state = pay[p].state /\ q.entry = pay[p].entry
      /\ q.discountEntry = pay[p].discountEntry /\ q.stranded = pay[p].stranded
  BY <1>1 DEF PaymentRecord
<1> HIDE DEF r, q
<1>6. InvoiceMove(inv[i], r) BY <1>3, <1>4 DEF InvoiceMove
<1>7. PaymentMove(pay[p], q) BY <1>5 DEF PaymentMove
<1> QED BY <1>2, <1>6, <1>7, InvoiceReplaced, PaymentReplaced DEF Moves

LEMMA PaymentStepMoves ==
  ASSUME TypeOK, PaymentStep
  PROVE  Moves
<1>1. Amounts \cup {0} \subseteq Money
  <2>1. Amounts \cup {0} \subseteq Nat BY ReceivablesAssumption
  <2> QED BY <2>1, MoneyFacts
<1>2. ASSUME NEW p \in Payments, NEW c \in Customers, NEW t \in Figures,
             NEW apps \in [Invoices -> Figures], CreatePayment(p, c, t, apps)
      PROVE  Moves
  <2>1. PICK e \in Booking :
          pay' = [pay EXCEPT ![p] = [NoPayment EXCEPT
                    !.state = "recorded", !.customer = c, !.total = t,
                    !.apps = apps, !.entry = e]]
    BY <1>2 DEF CreatePayment
  <2> DEFINE r == [NoPayment EXCEPT !.state = "recorded", !.customer = c, !.total = t,
                                    !.apps = apps, !.entry = e]
  <2>2. e \in Postings BY <1>2, ReceivablesAssumption DEF CreatePayment, Postings
  <2>3. r.state = "recorded" /\ r.entry = e /\ r.discountEntry = "none" /\ r.stranded = FALSE
    BY DEF NoPayment
  <2>4. pay' = [pay EXCEPT ![p] = r] BY <2>1
  <2> HIDE DEF r
  <2>5. apps \in [Invoices -> Money] BY FiguresType
  <2>6. /\ \A i \in Invoices : inv'[i] = Paid(inv[i], apps[i]) \/ inv'[i] = inv[i]
        /\ pay[p].state = "none"
    BY <1>2 DEF CreatePayment
  <2> QED BY <2>2, <2>3, <2>4, <2>5, <2>6, RecordedMoves
<1>3. ASSUME NEW p \in Payments, NEW c \in Customers,
             NEW apps \in [Invoices -> Amounts \cup {0}], ImportPayment(p, c, apps)
      PROVE  Moves
  <2> DEFINE t == SumTo(apps, NumInvoices)
             r == [NoPayment EXCEPT !.state = "recorded", !.customer = c, !.total = t,
                                    !.apps = apps]
  <2>1. pay' = [pay EXCEPT ![p] = r] BY <1>3 DEF ImportPayment
  <2> HIDE DEF t
  <2>2. /\ r.state = "recorded" /\ r.entry = "none" /\ r.discountEntry = "none"
        /\ r.stranded = FALSE
    BY DEF NoPayment
  <2> HIDE DEF r
  <2>3. r.entry \in Postings BY <2>2 DEF Postings
  <2>4. apps \in [Invoices -> Money] BY <1>1
  <2>5. /\ \A i \in Invoices : inv'[i] = Paid(inv[i], apps[i]) \/ inv'[i] = inv[i]
        /\ pay[p].state = "none"
    BY <1>3 DEF ImportPayment
  <2> QED BY <2>1, <2>2, <2>3, <2>4, <2>5, RecordedMoves
<1> QED BY <1>2, <1>3, UnwindMoves, MatchCashReceiptMoves
        DEF PaymentStep, VoidPayment, ReturnPayment

LEMMA CustomerStepMoves ==
  ASSUME TypeOK, CustomerStep
  PROVE  Moves
<1>1. UNCHANGED pay
  BY DEF CustomerStep, DisburseCredit, ApplyCredit, AdjustBalance, Sweep
<1>2. ASSUME NEW c \in Customers, NEW i \in Invoices, NEW a \in Amounts, ApplyCredit(c, i, a)
      PROVE  \A j \in Invoices : InvoiceMove(inv[j], inv'[j])
  <2> DEFINE q == [inv[i] EXCEPT !.paid = @ + a]
  <2>1. inv[i] \in InvoiceRecord /\ a \in Nat BY ReceivablesAssumption DEF TypeOK
  <2>2. inv' = [inv EXCEPT ![i] = Recompute(q)] BY <1>2 DEF ApplyCredit
  <2>3. q \in InvoiceRecord /\ q.entry = inv[i].entry /\ q.status = inv[i].status
    BY <2>1, MoneyFacts DEF InvoiceRecord
  <2> HIDE DEF q
  <2>4. InvoiceMove(inv[i], Recompute(q)) BY <2>1, <2>3, RecomputeMoves
  <2> QED BY <2>2, <2>4, InvoiceReplaced
<1>3. ASSUME UNCHANGED inv PROVE \A j \in Invoices : InvoiceMove(inv[j], inv'[j])
  BY <1>3, InvoicesStay
<1>4. \A j \in Invoices : InvoiceMove(inv[j], inv'[j])
  BY <1>2, <1>3 DEF CustomerStep, DisburseCredit, AdjustBalance, Sweep
<1> QED BY <1>1, <1>4, PaymentsStay DEF Moves

LEMMA LedgerStepMoves ==
  ASSUME TypeOK, LedgerStep
  PROVE  Moves
<1>1. ASSUME NEW i \in Invoices, NEW f \in EntryStatus, BookInvoiceEntry(i, f)
      PROVE  Moves
  <2> DEFINE r == [inv[i] EXCEPT !.entry = f]
  <2>1. inv' = [inv EXCEPT ![i] = r] /\ UNCHANGED pay /\ Books(inv[i].entry, f)
    BY <1>1 DEF BookInvoiceEntry
  <2>2. r.status = inv[i].status /\ r.entry = f BY DEF TypeOK, InvoiceRecord
  <2> HIDE DEF r
  <2>3. InvoiceMove(inv[i], r) BY <2>1, <2>2 DEF InvoiceMove
  <2> QED BY <2>1, <2>3, InvoiceReplaced, PaymentsStay DEF Moves
<1>2. ASSUME NEW p \in Payments, ApplyDiscount(p)
      PROVE  Moves
  <2> DEFINE b == pay[p].stranded \/ pay[p].discountEntry = "posted"
             r == [pay[p] EXCEPT !.stranded = b, !.discountEntry = "posted"]
  <2>1. pay' = [pay EXCEPT ![p] = r] /\ UNCHANGED inv BY <1>2 DEF ApplyDiscount
  <2>2. pay[p].discountEntry = "none" => b = pay[p].stranded
    BY DEF TypeOK, PaymentRecord
  <2> HIDE DEF b
  <2>3. /\ r.state = pay[p].state /\ r.entry = pay[p].entry
        /\ r.discountEntry = "posted" /\ r.stranded = b
    BY DEF TypeOK, PaymentRecord
  <2> HIDE DEF r
  <2>4. PaymentMove(pay[p], r) BY <1>2, <2>2, <2>3 DEF ApplyDiscount, PaymentMove
  <2> QED BY <2>1, <2>4, InvoicesStay, PaymentReplaced DEF Moves
<1>3. ASSUME NEW p \in Payments, NEW f \in EntryStatus, BookPaymentEntry(p, f)
      PROVE  Moves
  <2>1. UNCHANGED inv BY <1>3 DEF BookPaymentEntry
  <2>2. pay[p] \in PaymentRecord BY DEF TypeOK
  <2>3. CASE Books(pay[p].entry, f) /\ pay' = [pay EXCEPT ![p].entry = f]
    <3> DEFINE r == [pay[p] EXCEPT !.entry = f]
    <3>1. pay' = [pay EXCEPT ![p] = r] BY <2>3
    <3>2. /\ r.state = pay[p].state /\ r.entry = f
          /\ r.discountEntry = pay[p].discountEntry /\ r.stranded = pay[p].stranded
      BY <2>2 DEF PaymentRecord
    <3> HIDE DEF r
    <3>3. PaymentMove(pay[p], r) BY <2>3, <3>2 DEF PaymentMove
    <3> QED BY <2>1, <3>1, <3>3, InvoicesStay, PaymentReplaced DEF Moves
  <2>4. CASE Books(pay[p].discountEntry, f) /\ pay' = [pay EXCEPT ![p].discountEntry = f]
    <3> DEFINE r == [pay[p] EXCEPT !.discountEntry = f]
    <3>1. pay' = [pay EXCEPT ![p] = r] BY <2>4
    <3>2. /\ r.state = pay[p].state /\ r.entry = pay[p].entry
          /\ r.discountEntry = f /\ r.stranded = pay[p].stranded
      BY <2>2 DEF PaymentRecord
    <3> HIDE DEF r
    <3>3. PaymentMove(pay[p], r) BY <2>4, <3>2 DEF PaymentMove
    <3> QED BY <2>1, <3>1, <3>3, InvoicesStay, PaymentReplaced DEF Moves
  <2> QED BY <1>3, <2>3, <2>4 DEF BookPaymentEntry
<1>4. CASE LockPeriod
  BY <1>4, InvoicesStay, PaymentsStay DEF LockPeriod, Moves
<1> QED BY <1>1, <1>2, <1>3, <1>4 DEF LedgerStep

LEMMA NextMoves ==
  ASSUME TypeOK, [Next]_vars
  PROVE  Moves
<1>1. CASE UNCHANGED vars
  BY <1>1, InvoicesStay, PaymentsStay DEF vars, Moves
<1> QED BY <1>1, InvoiceStepMoves, MemoStepMoves, PaymentStepMoves, CustomerStepMoves,
           LedgerStepMoves DEF Next

(* --- nothing is booked before its document ----------------------------- *)

UnbookedInvoice(r) == r.status \in {"none", "draft"} => r.entry = "none"
UnbookedPayment(q) == q.state = "none" => q.entry = "none" /\ q.discountEntry = "none"

Unbooked == /\ \A i \in Invoices : UnbookedInvoice(inv[i])
            /\ \A p \in Payments : UnbookedPayment(pay[p])

LEMMA UnbookedInit == Init => Unbooked
BY DEF Init, Unbooked, UnbookedInvoice, UnbookedPayment, NoInvoice, NewInvoice, NoPayment

LEMMA UnbookedStep ==
  ASSUME TypeOK, Unbooked, Moves
  PROVE  Unbooked'
<1>1. ASSUME NEW i \in Invoices PROVE UnbookedInvoice(inv'[i])
  <2>1. InvoiceMove(inv[i], inv'[i]) /\ UnbookedInvoice(inv[i]) BY DEF Moves, Unbooked
  <2> QED BY <2>1 DEF InvoiceMove, UnbookedInvoice, Books
<1>2. ASSUME NEW p \in Payments PROVE UnbookedPayment(pay'[p])
  <2>1. PaymentMove(pay[p], pay'[p]) /\ UnbookedPayment(pay[p]) BY DEF Moves, Unbooked
  <2> QED BY <2>1 DEF PaymentMove, UnbookedPayment, Books
<1> QED BY <1>1, <1>2 DEF Unbooked

LEMMA AlwaysUnbooked == Spec => [](TypeOK /\ Unbooked)
<1>1. TypeOK /\ Unbooked /\ [Next]_vars => (TypeOK /\ Unbooked)'
  <2>1. TypeOK /\ UNCHANGED vars => TypeOK' BY DEF TypeOK, vars
  <2> QED BY <2>1, TypeStep, NextMoves, UnbookedStep
<1> QED BY TypeInit, UnbookedInit, <1>1, PTL DEF Spec

(* Whatever calls arrive, the questionable ones included, no entry is      *)
(* created, posted or reversed while today's period is locked: every door  *)
(* of the journal asks the lock (create_entry, post_entry, reverse_entry), *)
(* and what fails open books nothing.                                      *)
THEOREM ClosedPeriodHolds == Spec => ClosedPeriodFrozen
<1> DEFINE Frozen ==
      closed => /\ \A i \in Invoices : Untouched(inv[i].entry, inv'[i].entry)
                /\ \A p \in Payments :
                     /\ Untouched(pay[p].entry, pay'[p].entry)
                     /\ Untouched(pay[p].discountEntry, pay'[p].discountEntry)
<1>1. ASSUME TypeOK, Unbooked, [Next]_vars, closed PROVE Frozen
  <2>1. Moves BY <1>1, NextMoves
  <2>2. ASSUME NEW i \in Invoices PROVE Untouched(inv[i].entry, inv'[i].entry)
    <3>1. InvoiceMove(inv[i], inv'[i]) /\ UnbookedInvoice(inv[i])
      BY <1>1, <2>1 DEF Moves, Unbooked
    <3> QED BY <1>1, <3>1
            DEF InvoiceMove, UnbookedInvoice, Untouched, Books, Postings, Undone, MayUndo
  <2>3. ASSUME NEW p \in Payments
        PROVE  /\ Untouched(pay[p].entry, pay'[p].entry)
               /\ Untouched(pay[p].discountEntry, pay'[p].discountEntry)
    <3>1. PaymentMove(pay[p], pay'[p]) /\ UnbookedPayment(pay[p])
      BY <1>1, <2>1 DEF Moves, Unbooked
    <3> QED BY <1>1, <3>1
            DEF PaymentMove, UnbookedPayment, Untouched, Books, Postings, Undone, MayUndo
  <2> QED BY <2>2, <2>3
<1>2. TypeOK /\ Unbooked /\ [Next]_vars => [Frozen]_vars BY <1>1
<1> QED BY <1>2, AlwaysUnbooked, PTL DEF Spec, ClosedPeriodFrozen

(* --- no entry outlives its document ------------------------------------ *)

VoidUnbooked == \A i \in Invoices :
  inv[i].status = "void" => inv[i].entry \notin {"draft", "posted"}

UndoneUnbooked == \A p \in Payments :
  /\ pay[p].state \in {"voided", "returned"} =>
       {pay[p].entry, pay[p].discountEntry} \cap {"draft", "posted"} = {}
  /\ pay[p].stranded = FALSE

LEMMA VoidUnbookedStep ==
  ASSUME Unbooked, VoidUnbooked, Moves, "patch_issued" \notin Acts
  PROVE  VoidUnbooked'
<1> SUFFICES ASSUME NEW i \in Invoices, inv'[i].status = "void"
             PROVE  inv'[i].entry \notin {"draft", "posted"}
  BY DEF VoidUnbooked
<1>1. InvoiceMove(inv[i], inv'[i]) /\ UnbookedInvoice(inv[i]) BY DEF Moves, Unbooked
<1>2. inv[i].status = "void" => inv[i].entry \notin {"draft", "posted"} BY DEF VoidUnbooked
<1> QED BY <1>1, <1>2 DEF InvoiceMove, UnbookedInvoice, Books, Undone

LEMMA UndoneUnbookedStep ==
  ASSUME Unbooked, UndoneUnbooked, Moves, Acts \cap {"discount_undone", "discount_twice"} = {}
  PROVE  UndoneUnbooked'
<1> SUFFICES ASSUME NEW p \in Payments
             PROVE  /\ pay'[p].state \in {"voided", "returned"} =>
                         /\ pay'[p].entry \notin {"draft", "posted"}
                         /\ pay'[p].discountEntry \notin {"draft", "posted"}
                    /\ pay'[p].stranded = FALSE
  BY DEF UndoneUnbooked
<1>1. PaymentMove(pay[p], pay'[p]) /\ UnbookedPayment(pay[p]) BY DEF Moves, Unbooked
<1>2. /\ pay[p].state \in {"voided", "returned"} =>
           /\ pay[p].entry \notin {"draft", "posted"}
           /\ pay[p].discountEntry \notin {"draft", "posted"}
      /\ pay[p].stranded = FALSE
  BY DEF UndoneUnbooked
<1> QED BY <1>1, <1>2 DEF PaymentMove, UnbookedPayment, Books, Undone

(* Unless an issued invoice is patched to void, or a discount is booked on *)
(* an undone payment or twice on one, whatever is voided or returned has   *)
(* every one of its entries voided or reversed with it, in any order of    *)
(* postings, reversals, locks and unlocks before.                          *)
THEOREM LedgerFollowsHolds ==
  ASSUME Acts \cap {"patch_issued", "discount_undone", "discount_twice"} = {}
  PROVE  Spec => []LedgerFollows
<1>1. Init => VoidUnbooked /\ UndoneUnbooked
  BY DEF Init, VoidUnbooked, UndoneUnbooked, NoInvoice, NewInvoice, NoPayment
<1>2. TypeOK /\ Unbooked /\ VoidUnbooked /\ UndoneUnbooked /\ [Next]_vars
        => (VoidUnbooked /\ UndoneUnbooked)'
  BY NextMoves, VoidUnbookedStep, UndoneUnbookedStep
<1>3. VoidUnbooked /\ UndoneUnbooked => LedgerFollows
  BY DEF VoidUnbooked, UndoneUnbooked, LedgerFollows
<1> QED BY <1>1, <1>2, <1>3, AlwaysUnbooked, PTL DEF Spec

(* --- a voided invoice is left alone ------------------------------------ *)

LEMMA VoidedStays ==
  ASSUME IInv, VoidUnbooked, Acts \cap LawBreakers = {}, Next,
         NEW i \in Invoices, inv[i].status = "void"
  PROVE  inv'[i] = inv[i]
<1>0. inv \in [Invoices -> InvoiceRecord] BY DEF IInv, TypeOK
<1>6. Money = Nat
  <2>1. "below_zero" \notin Acts BY DEF LawBreakers
  <2> QED BY <2>1, NatMoney
<1>1. CASE InvoiceStep
  BY <1>0, <1>1 DEF InvoiceStep, CreateInvoice, IssueInvoice, VoidInvoice, Voidable,
     PatchInvoice, WriteOffInvoice, ReinstateInvoice, HonorDiscount, LawBreakers
<1>2. CASE MemoStep
  <2>1. ASSUME NEW m \in Memos, NEW j \in Invoices, NEW a \in Amounts,
               CreateCreditMemo(m, j, a)
        PROVE  inv'[i] = inv[i]
    BY <1>0, <2>1 DEF CreateCreditMemo
  <2>2. ASSUME NEW m \in Memos, VoidCreditMemo(m)
        PROVE  inv'[i] = inv[i]
    <3>1. memo[m].invoice # i BY <2>2 DEF VoidCreditMemo, LawBreakers
    <3> QED BY <1>0, <2>2, <3>1 DEF VoidCreditMemo
  <2> QED BY <1>2, <2>1, <2>2 DEF MemoStep
<1>3. CASE PaymentStep
  <2>1. ASSUME NEW p \in Payments, NEW c \in Customers, NEW t \in Figures,
               NEW apps \in [Invoices -> Figures], CreatePayment(p, c, t, apps)
        PROVE  inv'[i] = inv[i]
    BY <2>1 DEF CreatePayment, Applicable
  <2>2. ASSUME NEW p \in Payments, NEW c \in Customers,
               NEW apps \in [Invoices -> Amounts \cup {0}], ImportPayment(p, c, apps)
        PROVE  inv'[i] = inv[i]
    BY <2>2 DEF ImportPayment, Applicable
  <2>3. ASSUME NEW p \in Payments, NEW s \in {"voided", "returned"}, Unwind(p, s)
        PROVE  inv'[i] = inv[i]
    <3>1. pay[p].apps[i] <= PaidByLive(i) /\ PaidByLive(i) \in Nat
      BY <1>6, <2>3, PaidByLiveNat DEF IInv, Unwind, Undoable
    <3>2. inv[i].paid = 0 /\ inv[i].paid >= PaidByLive(i)
      BY DEF IInv, InvoiceInv, LivePaid
    <3>3. pay[p].apps[i] \in Nat BY <1>6 DEF IInv, TypeOK, PaymentRecord
    <3>4. pay[p].apps[i] = 0 BY <3>1, <3>2, <3>3
    <3> QED BY <2>3, <3>4 DEF Unwind
  <2>4. ASSUME NEW p \in Payments, NEW j \in Invoices, NEW a \in Amounts
        PROVE  ~ MatchCashReceipt(p, j, a)
    BY DEF MatchCashReceipt, LawBreakers
  <2> QED BY <1>3, <2>1, <2>2, <2>3, <2>4 DEF PaymentStep, VoidPayment, ReturnPayment
<1>4. CASE CustomerStep
  BY <1>0, <1>4 DEF CustomerStep, DisburseCredit, ApplyCredit, AdjustBalance, Sweep
<1>5. CASE LedgerStep
  <2>1. ASSUME NEW j \in Invoices, NEW f \in EntryStatus, BookInvoiceEntry(j, f)
        PROVE  inv'[i] = inv[i]
    <3>1. j # i BY <2>1 DEF BookInvoiceEntry, Books, VoidUnbooked
    <3> QED BY <1>0, <2>1, <3>1 DEF BookInvoiceEntry
  <2> QED BY <1>5, <2>1 DEF LedgerStep, ApplyDiscount, BookPaymentEntry, LockPeriod
<1> QED BY <1>1, <1>2, <1>3, <1>4, <1>5 DEF Next

(* As long as none of the calls in LawBreakers is made, a voided invoice   *)
(* is never written to again: the unwinding of a payment never meets one,  *)
(* because money keeps an invoice from being voided until every payment    *)
(* behind it has been undone, and its entry is no longer one to book.      *)
THEOREM VoidedStaysUntouched ==
  ASSUME Acts \cap LawBreakers = {}
  PROVE  Spec => VoidedInvoiceUntouched
<1> DEFINE Kept == \A i \in Invoices : inv[i].status = "void" => inv'[i] = inv[i]
<1>1. Init => IInv /\ VoidUnbooked
  BY LawInit DEF Init, VoidUnbooked, NoInvoice, NewInvoice
<1>2. IInv /\ Unbooked /\ VoidUnbooked /\ [Next]_vars => (IInv /\ VoidUnbooked)'
  <2>1. "patch_issued" \notin Acts BY DEF LawBreakers
  <2>2. ASSUME IInv, Unbooked, VoidUnbooked, Next PROVE (IInv /\ VoidUnbooked)'
    <3>1. TypeOK BY <2>2 DEF IInv
    <3> QED BY <2>1, <2>2, <3>1, LawStepNext, NextMoves, VoidUnbookedStep
  <2>3. ASSUME IInv, VoidUnbooked, UNCHANGED vars PROVE (IInv /\ VoidUnbooked)'
    <3>1. TypeOK' /\ UNCHANGED <<inv, pay, memo, currentBalance>>
      BY <2>3 DEF IInv, TypeOK, vars
    <3>2. PaymentsKept BY <3>1 DEF PaymentsKept
    <3>3. VoidUnbooked' BY <2>3, <3>1 DEF VoidUnbooked
    <3> QED BY <2>3, <3>1, <3>2, <3>3, AsideStep
  <2> QED BY <2>2, <2>3
<1>3. IInv /\ VoidUnbooked /\ [Next]_vars => [Kept]_vars BY VoidedStays
<1> QED BY <1>1, <1>2, <1>3, AlwaysUnbooked, PTL DEF Spec, VoidedInvoiceUntouched
=============================================================================
