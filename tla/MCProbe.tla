------------------------------ MODULE MCProbe ------------------------------
(* Probe for TLC: CPUs, queues and packets are interchangeable.             *)
EXTENDS Probe, TLC

Symmetry == Permutations(Cpus) \cup Permutations(Qdiscs) \cup Permutations(Skbs)

=============================================================================
