------------------------------ MODULE ValueTree ------------------------------
(***************************************************************************)
(* What a DictionaryValue or ListValue promises its owner (values.hh): a    *)
(* plain tree of data that the calls replace as a whole.  There are no      *)
(* objects, pointers or ownership here.                                     *)
(***************************************************************************)
EXTENDS Integers, Sequences, TLC, SequencesExt

CONSTANTS Scalars,  \* trees of one leaf
          Paths     \* sequences of keys

VARIABLES tree,     \* the dictionary or list
          spare     \* one more tree its owner holds, or NoTree
treeVars == <<tree, spare>>

NoTree == [none |-> TRUE]
EmptyDict == [dict |-> <<>>]
EmptyList == [list |-> <<>>]
IsDict(t) == "dict" \in DOMAIN t
IsList(t) == "list" \in DOMAIN t
NullLeaf == [scalar |-> <<"null", 0>>]

RECURSIVE TreeAt(_, _), Put(_, _, _), Drop(_, _), Merge(_, _), Prune(_)

\* The tree under a path, NoTree where it leads nowhere.
TreeAt(t, path) ==
    IF path = <<>> THEN t
    ELSE IF IsDict(t) /\ Head(path) \in DOMAIN t.dict
         THEN TreeAt(t.dict[Head(path)], Tail(path)) ELSE NoTree

Without(f, key) == [k \in DOMAIN f \ {key} |-> f[k]]

\* Dictionaries appear along the path in the place of whatever was there.
Put(t, path, v) ==
    IF path = <<>> THEN v
    ELSE [dict |-> (Head(path) :> Put(TreeAt(t, <<Head(path)>>), Tail(path), v))
                   @@ (IF IsDict(t) THEN t.dict ELSE <<>>)]

Drop(t, path) ==
    IF TreeAt(t, path) = NoTree THEN t
    ELSE IF Len(path) = 1 THEN [dict |-> Without(t.dict, Head(path))]
    ELSE [dict |-> [t.dict EXCEPT ![Head(path)] = Drop(@, Tail(path))]]

\* "In case of key collisions, the passed in dictionary takes precedence".
Merge(t, other) ==
    IF IsDict(t) /\ IsDict(other)
    THEN [dict |-> [k \in DOMAIN t.dict \union DOMAIN other.dict |->
            IF k \notin DOMAIN other.dict THEN t.dict[k]
            ELSE IF k \notin DOMAIN t.dict THEN other.dict[k]
            ELSE Merge(t.dict[k], other.dict[k])]]
    ELSE other

\* Without empty dictionaries and lists: NoTree when nothing is left.
Prune(t) ==
    IF IsDict(t)
    THEN LET left == {k \in DOMAIN t.dict : Prune(t.dict[k]) # NoTree}
         IN  IF left = {} THEN NoTree ELSE [dict |-> [k \in left |-> Prune(t.dict[k])]]
    ELSE IF IsList(t)
    THEN LET left == SelectSeq([i \in DOMAIN t.list |-> Prune(t.list[i])], LAMBDA c : c # NoTree)
         IN  IF left = <<>> THEN NoTree ELSE [list |-> left]
    ELSE t

TreeInit == tree \in {EmptyDict, EmptyList} /\ spare = NoTree

\* A value the owner hands over: a new one, or the spare one.
Given(v) ==
    \/ v \in Scalars \union {EmptyDict, EmptyList} /\ UNCHANGED spare
    \/ v = spare /\ v # NoTree /\ spare' = NoTree

PutNext == \E v \in Scalars \union {EmptyDict, EmptyList, spare}, p \in Paths :
    IsDict(tree) /\ Given(v) /\ tree' = Put(tree, p, v)

DropNext == \E p \in Paths :
    /\ IsDict(tree) /\ tree' = Drop(tree, p)
    /\ (UNCHANGED spare) \/ (spare = NoTree /\ spare' = TreeAt(tree, p))

MergeNext == IsDict(tree) /\ IsDict(spare) /\ tree' = Merge(tree, spare) /\ UNCHANGED spare

CopyNext ==
    /\ spare = NoTree /\ UNCHANGED tree
    /\ \/ spare' = tree
       \/ IsDict(tree) /\ spare' = (IF Prune(tree) = NoTree THEN EmptyDict ELSE Prune(tree))

SwapNext ==
    /\ (IsDict(tree) /\ IsDict(spare)) \/ (IsList(tree) /\ IsList(spare))
    /\ tree' = spare /\ spare' = tree

Padded(s, n) == s \o [i \in 1..(n - Len(s)) |-> NullLeaf]
Has(s, v) == \E i \in DOMAIN s : s[i] = v

ListNext == \E v \in Scalars \union {EmptyDict, EmptyList, spare} :
    /\ IsList(tree)
    /\ \/ Given(v) /\ \E i \in 1..(Len(tree.list) + 2) :
            tree' = [list |-> [Padded(tree.list, i) EXCEPT ![i] = v]]
       \/ Given(v) /\ \E i \in 1..(Len(tree.list) + 1) : tree' = [list |-> InsertAt(tree.list, i, v)]
       \/ Given(v) /\ tree' = (IF Has(tree.list, v) THEN tree ELSE [list |-> Append(tree.list, v)])

ListDropNext ==
    /\ IsList(tree)
    /\ \E i \in DOMAIN tree.list :
         /\ tree' = [list |-> RemoveAt(tree.list, i)]
         /\ (UNCHANGED spare) \/ (spare = NoTree /\ spare' = tree.list[i])

\* The first of the values equal to v.
ListForgetNext == \E v \in Scalars \union {spare} :
    /\ IsList(tree) /\ Has(tree.list, v)
    /\ tree' = [list |-> RemoveFirst(tree.list, v)]
    /\ UNCHANGED spare

ClearNext ==
    \/ spare' = NoTree /\ UNCHANGED tree
    \/ tree' = (IF IsDict(tree) THEN EmptyDict ELSE EmptyList) /\ UNCHANGED spare

TreeNext == PutNext \/ DropNext \/ MergeNext \/ CopyNext \/ SwapNext
            \/ ListNext \/ ListDropNext \/ ListForgetNext \/ ClearNext
TreeSpec == TreeInit /\ [][TreeNext]_treeVars
=============================================================================
