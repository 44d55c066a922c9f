----------------------------- MODULE MCBudgets -----------------------------
(***************************************************************************)
(* Budgets at a width of three values, so that both types overflow within  *)
(* a few charges.                                                          *)
(***************************************************************************)
EXTENDS Quantale

SmallCeiling == [epsilon |-> 1, delta |-> 2]
=============================================================================
