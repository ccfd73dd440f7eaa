----------------------------- MODULE MCAvVoice -----------------------------
(* Instances of AvVoice for TLC. *)
EXTENDS AvVoice, TLC

\* Calls are alike in the runs that only check invariants.
Symmetry == Permutations(Calls)
=============================================================================
