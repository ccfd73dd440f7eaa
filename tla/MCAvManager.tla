---------------------------- MODULE MCAvManager ----------------------------
(* AvManager for TLC: modems are interchangeable in the runs that only check  *)
(* invariants.                                                                *)
EXTENDS AvManager, TLC

Symmetry == Permutations(Modems)
=============================================================================
