--------------------------- MODULE MCBudgetLedger ---------------------------
(* A small instance of the budget ledger for TLC. *)
EXTENDS BudgetLedger, TLC

Symmetry == Permutations(Runs) \cup Permutations(Procs)
=============================================================================
