----------------------------- MODULE MCJobQueue -----------------------------
(* A small instance of JobQueue for TLC.  There is no symmetry, since the run *)
(* checks progress.                                                           *)
EXTENDS JobQueue
=============================================================================
