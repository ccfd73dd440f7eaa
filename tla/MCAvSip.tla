------------------------------ MODULE MCAvSip ------------------------------
(* AvSip for TLC: calls are interchangeable in the runs that only check       *)
(* invariants.                                                                *)
EXTENDS AvSip, TLC

Symmetry == Permutations(Calls)
=============================================================================
