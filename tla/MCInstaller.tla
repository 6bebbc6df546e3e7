---- MODULE MCInstaller ----
(* Instances of Installer. *)
EXTENDS Installer

CONSTANTS r1, v1, v2

OneRun == {r1}
OneVersion == {v1}
TwoVersions == {v1, v2}
Flat == {}
============================
