---- MODULE MCPiiSignal ----
(* Instances of PiiSignal.  Every text of up to MaxText bytes, chunks of   *)
(* MaxSize bytes; a signal with no deny list, and one that reports one of  *)
(* the two entity types.                                                   *)
EXTENDS PiiSignal

MCDenyLists == {{}, {"phone"}}
============================
