---------------------------- MODULE MCReceivables ----------------------------
(* Instances of Receivables for TLC. *)
EXTENDS Receivables, TLC

CONSTANTS c1, c2, o1

OneCustomer  == {c1}
TwoCustomers == {c1, c2}
NoOrders     == {}
OneOrder     == {o1}
CustomerSymmetry == Permutations(TwoCustomers)
=============================================================================
