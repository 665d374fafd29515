------------------------------- MODULE Totals -------------------------------
(* The sum of a function's values, for balances kept per account. *)
EXTENDS Integers, Functions

Total(f) == FoldFunction(LAMBDA x, y : x + y, 0, f)
=============================================================================
