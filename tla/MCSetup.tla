------------------------------- MODULE MCSetup -------------------------------
(* Instances of Setup for TLC. *)
EXTENDS Setup, TLC

Symmetry == Permutations(Rule) \cup Permutations(Child) \cup Permutations(Config)
=============================================================================
