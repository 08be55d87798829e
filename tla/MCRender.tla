------------------------------ MODULE MCRender ------------------------------
(* Three machines, two of which are spelled alike (web-1 and web.1), in every tier and       *)
(* environment.                                                                              *)
EXTENDS Render

CONSTANTS dash, dot, other

VmOrder == <<dash, dot, other>>
Machines(i) == [vm : {VmOrder[i]}, tier : {"web", "database", "other"}, env : {"prod", "dev"},
                image : {IF i = 3 THEN "windows" ELSE "ubuntu"}, disks : {i - 1}, external : {i = 2}]
SmallEstates ==
    {<<a>> : a \in Machines(1)} \cup {<<a, b>> : a \in Machines(1), b \in Machines(2)}
    \cup {<<a, b, c>> : a \in Machines(1), b \in Machines(2), c \in Machines(3)}

SubnetTier == [t \in {"web", "database", "other"} |-> IF t = "web" THEN "public" ELSE "private"]
FourSubnets == <<[name |-> "public_0", tier |-> "public"], [name |-> "private_0", tier |-> "private"],
                 [name |-> "public_1", tier |-> "public"], [name |-> "private_1", tier |-> "private"]>>
TierPorts == [web |-> <<80, 443>>, database |-> <<5432>>, other |-> <<>>]

Label == [v \in {dash, dot, other} |->
            IF v = dash THEN <<"web", "1">> ELSE IF v = dot THEN <<"web", "1", "2">> ELSE <<"web1">>]
Safe == [v \in {dash, dot, other} |-> IF v = other THEN <<"web1">> ELSE <<"web", "1">>]
Cid == [v \in {dash, dot, other} |-> <<"Web1">>]
Camel == [l \in {Label[v] : v \in {dash, dot, other}} |->
            IF l = Label[dot] THEN <<"Web12">> ELSE <<"Web1">>]
=============================================================================
