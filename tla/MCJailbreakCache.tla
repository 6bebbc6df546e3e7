-------------------------- MODULE MCJailbreakCache --------------------------
(* Instances of JailbreakCache for TLC. *)
EXTENDS JailbreakCache

CONSTANTS t1, t2, t3

\* Two texts of three collide.
Colliding == [t \in {t1, t2, t3} |-> IF t = t3 THEN 2 ELSE 1]
=============================================================================
