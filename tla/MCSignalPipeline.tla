-------------------------- MODULE MCSignalPipeline --------------------------
(* SignalPipeline for TLC.  No symmetry: the temporal properties would not allow it. *)
EXTENDS SignalPipeline
=============================================================================
