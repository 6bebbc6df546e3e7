---------------------------- MODULE MCConfigSet ----------------------------
(* Instances of ConfigSet for TLC. *)
EXTENDS ConfigSet, TLC

Symmetry == Permutations(Procs)
=============================================================================
