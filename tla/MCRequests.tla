----------------------------- MODULE MCRequests -----------------------------
(* Two keys in a store for two, two bodies, two callers in a table for one.   *)
EXTENDS Requests, TLC

Symmetry == Permutations(Keys) \cup Permutations(Bodies) \cup Permutations(Clients)
            \cup Permutations(Reqs)
=============================================================================
