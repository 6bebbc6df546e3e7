---------------------------- MODULE MCWasmTimeout ----------------------------
(* Instances of WasmTimeout for TLC: all parameters are given in the cfg files. *)
EXTENDS WasmTimeout
=============================================================================
