-------------------------- MODULE MCTableDiscovery --------------------------
(* Small instances of TableDiscovery.                                       *)
EXTENDS TableDiscovery

CONSTANTS s1, s2, r1, r2, k1, k2, k3, a1, a2

(* A table without a class filter.  Two servers have a root each of the same *)
(* application, r1 and r2, of which either may be first; k1 is a child of    *)
(* r1, and k2 of k1.  Column 1 is in the root, column 2 in k2; the root also *)
(* has a variable of column 2's name.                                        *)
PlainServers == {s1, s2}
PlainObjects == {r1, r2, k1, k2}
PlainRoots == [s \in PlainServers |-> IF s = s1 THEN {r1} ELSE {r2}]
PlainKids == [o \in PlainObjects |->
    CASE o = r1 -> <<k1>> [] o = k1 -> <<k2>> [] OTHER -> <<>>]
PlainApp == [o \in PlainObjects |-> a1]
PlainTarget == [o \in PlainObjects |-> <<o, k2>>]
PlainVariables == {<<r1, 1>>, <<r2, 1>>, <<k2, 2>>, <<r1, 2>>}
PlainSyncs == [o \in PlainObjects |-> IF o = r1 THEN 2 ELSE 1]

(* A class-filtered table: k1 and k2 are of the class, k2 beneath k1.  The   *)
(* first column is an attribute of the row's object, the second a variable   *)
(* of a child, which k2 does not have.                                       *)
ClassObjects == {r1, r2, k1, k2, k3}
ClassRoots == [s \in {s1} |-> {r1, r2}]
ClassKids == [o \in ClassObjects |->
    CASE o = r1 -> <<k3, k1>> [] o = k1 -> <<k2>> [] OTHER -> <<>>]
ClassApp == [o \in ClassObjects |-> a1]
ClassTarget == [o \in ClassObjects |-> <<o, IF o = k1 THEN k2 ELSE NoObject>>]
ClassVariables == {<<k2, 2>>, <<k1, 2>>}
ClassSyncs == [o \in ClassObjects |-> IF o = k1 THEN 2 ELSE 1]
=============================================================================
