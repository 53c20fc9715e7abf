-------------------------- MODULE MCLiveProtection --------------------------
(* Instances of LiveProtection for TLC. *)
EXTENDS LiveProtection, TLC

(* Rules, coordinators, children and configs are interchangeable. *)
Symmetry == Permutations(Rule) \cup Permutations(Watcher) \cup Permutations(Child) \cup Permutations(Config)
=============================================================================
