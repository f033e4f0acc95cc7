-------------------------- MODULE CustomerAccounts --------------------------
(***************************************************************************)
(* What the subledger promises of a customer's account, without invoices,  *)
(* payments and memos: what the customer owes, the credit held for them    *)
(* and the money taken from them.  Every call is one event of one account. *)
(* Neither debt nor credit is ever negative, money settles debt or becomes *)
(* credit (up to a cent), and credit goes into debt or back out as money.  *)
(***************************************************************************)
EXTENDS Integers

CONSTANT Customers

VARIABLES owed, credit, cash

accounts == <<owed, credit, cash>>

Init == /\ owed   = [c \in Customers |-> 0]
        /\ credit = [c \in Customers |-> 0]
        /\ cash   = [c \in Customers |-> 0]

(* The events, by what they add to debt, credit and money: an invoice, a   *)
(* memo or a write-off, either way; money received; money given back; held *)
(* credit that pays an invoice; held credit paid out.                      *)
Billed(o, k, m)    == k = 0 /\ m = 0
Received(o, k, m)  == o <= 0 /\ k >= 0 /\ (m = k - o \/ (k = 0 /\ m = 1 - o))
TakenBack(o, k, m) == Received(-o, -k, -m)
CreditUsed(o, k, m) == k <= 0 /\ o = k /\ m = 0
Refunded(o, k, m)  == k <= 0 /\ o = 0 /\ m = k

Event(c) ==
  LET o == owed'[c] - owed[c]
      k == credit'[c] - credit[c]
      m == cash'[c] - cash[c]
  IN  \/ Billed(o, k, m) \/ Received(o, k, m) \/ TakenBack(o, k, m)
      \/ CreditUsed(o, k, m) \/ Refunded(o, k, m)

Others(c) == \A d \in Customers \ {c} :
               owed'[d] = owed[d] /\ credit'[d] = credit[d] /\ cash'[d] = cash[d]

Next == /\ owed' \in [Customers -> Nat] /\ credit' \in [Customers -> Nat]
        /\ cash' \in [Customers -> Int]
        /\ \E c \in Customers : Others(c) /\ Event(c)

Spec == Init /\ [][Next]_accounts
=============================================================================
