--------------------------- MODULE MCConfigEditing ---------------------------
(* ConfigEditing with interchangeable roles and servers, for a gateway that *)
(* starts with two servers in a namespace one role may enter and a token    *)
(* of the other role.                                                       *)
EXTENDS ConfigEditing, TLC

CONSTANTS s1, s2, dflt, n1, r1, r2, t1, p1

Populated(r) ==
    [servers |-> [s \in ServerIds |-> {n1}],
     namespaces |-> [n \in Namespaces |-> IF n = n1 THEN {r} ELSE Roles],
     roles |-> [x \in Roles |-> IF x = r THEN Namespaces ELSE {dflt}],
     packs |-> {}, required |-> {}, mode |-> "hybrid",
     tokens |-> [t \in Tokens |-> Roles \ {r}]]

Files == {Populated(r) : r \in Roles}

Alike == Permutations({r1, r2}) \cup Permutations({s1, s2})
=============================================================================
