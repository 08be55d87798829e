------------------------------ MODULE MCNaming ------------------------------
(* A small estate for Naming: the names web, Web and web-2, and two UUIDs     *)
(* whose short tails are equal and are the number of web-2; one has no longer *)
(* tail, so that the search goes on with numbers.                             *)
EXTENDS Naming

CONSTANTS web, u1, u2, MaxRows

MCNames == {<<<<"", web>>>>, <<<<"^", web>>>>, <<<<"", web>>, <<"-", 2>>>>}

MCTails == [u \in Uuids |-> IF u = u1 THEN <<2, 12>> ELSE <<2>>]

MCRows == [name : Names, uuid : Uuids \cup {NoUuid}, disk : 1..2]
            \cup {[name |-> Blank, uuid |-> NoUuid, disk |-> 1]}

MCEstates == UNION {[1..n -> MCRows] : n \in 0..MaxRows}
=============================================================================
