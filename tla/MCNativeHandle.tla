---- MODULE MCNativeHandle ----
(* Three goroutines that share a handle. *)
EXTENDS NativeHandle

CONSTANTS t1, t2, t3

MCThreads == {t1, t2, t3}
============================
