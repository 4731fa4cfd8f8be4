---------------------------- MODULE MCConversion ----------------------------
(* Conversion for TLC: CPUs are interchangeable, and addresses are.         *)
EXTENDS Conversion, TLC

Symmetry == Permutations(Cpus) \cup Permutations(Skbs)

=============================================================================
