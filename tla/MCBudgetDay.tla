------------------------------ MODULE MCBudgetDay ------------------------------
(***************************************************************************)
(* The daily budget alone, over a midnight, for TLC.                       *)
(***************************************************************************)
EXTENDS BudgetTracker

\* A dated model name, to be found by its prefix.
DatedModel == <<"sonnet", "4", "6", "2026">>
================================================================================
