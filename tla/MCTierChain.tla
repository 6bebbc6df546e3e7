----------------------------- MODULE MCTierChain -----------------------------
(* Instances of TierChain for TLC: all parameters are given in the cfg files. *)
EXTENDS TierChain, TLC

\* Nothing tells one label from another.
Symmetry == Permutations(Labels)
=============================================================================
