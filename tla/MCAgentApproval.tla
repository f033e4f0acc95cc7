---------------------------- MODULE MCAgentApproval ----------------------------
(* A month of two days and the first of them: a job may be asked for less  *)
(* than the screens close, which gives overlaps and half-closed months.    *)
EXTENDS AgentApproval

MonthsDef   == {[from |-> 1, to |-> 2]}
JobSpansDef == {[from |-> 1, to |-> 1], [from |-> 1, to |-> 2]}
=============================================================================
