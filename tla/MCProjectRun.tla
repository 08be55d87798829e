---------------------------- MODULE MCProjectRun ----------------------------
(* Small instances of ProjectRun for TLC.                                     *)
EXTENDS ProjectRun
=============================================================================
