--------------------------- MODULE MCTableService ---------------------------
(* Tables served while they are discovered: the two-server instance of       *)
(* MCTableDiscovery, and a class-filtered one whose two rows come from a     *)
(* walk that nests.  One Sync event per object.                              *)
EXTENDS TableService, MCTableDiscovery

OneSync == [o \in Objects |-> 1]

NestedObjects == {r1, k1, k2}
NestedRoots == [s \in {s1} |-> {r1}]
NestedKids == [o \in NestedObjects |->
    CASE o = r1 -> <<k1>> [] o = k1 -> <<k2>> [] OTHER -> <<>>]
NestedApp == [o \in NestedObjects |-> a1]
NestedTarget == [o \in NestedObjects |-> <<o, IF o = k1 THEN k2 ELSE NoObject>>]
NestedVariables == {<<k2, 2>>}
=============================================================================
