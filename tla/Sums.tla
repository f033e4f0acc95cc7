-------------------------------- MODULE Sums --------------------------------
(***************************************************************************)
(* The sum of a function over 1..n.  The ledger's aggregates (the open     *)
(* total of a customer, the applications of all payments to an invoice,    *)
(* the posted memos of an invoice) are sums of this shape.  A recursive    *)
(* function rather than a RECURSIVE operator, so that SumsProofs can prove *)
(* the facts the ledger's theorems need.                                   *)
(***************************************************************************)
EXTENDS Integers

SumTo(f, n) ==
  LET partial[k \in 0..n] == IF k = 0 THEN 0 ELSE partial[k - 1] + f[k]
  IN  partial[n]

=============================================================================
