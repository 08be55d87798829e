------------------------------ MODULE MCAccess ------------------------------
(* Two people and a second registration of the first one's address, one project, two      *)
(* processes and two request threads.                                                      *)
EXTENDS Access, TLC

CONSTANTS u1, u2

MailOf == [u \in Users |-> IF u = u2 THEN "b" ELSE "a"]
Symmetry == Permutations(Tokens) \cup Permutations(Links) \cup Permutations(Procs)
            \cup Permutations(Reqs)
=============================================================================
