-------------------------------- MODULE Values --------------------------------
(***************************************************************************)
(* DictionaryValue and ListValue of src/src/chromium/values.cc as objects   *)
(* on a heap.  Containers own their children: storing a value takes its     *)
(* ownership, replacing or removing one deletes it or hands it back.  The   *)
(* owner keeps one container, "root", and at most one more value, "spare".  *)
(* ValueTree says what the calls amount to.                                 *)
(***************************************************************************)
EXTENDS Integers, Sequences, FiniteSets, TLC, SequencesExt, FiniteSetsExt

CONSTANTS Leaves,    \* null, boolean, integer, ... values: <<type, value>>
          KeyPaths,  \* paths, as sequences of keys
          MaxNodes,  \* bound on the values allocated at a time
          MaxCalls   \* bound on the calls

ASSUME ValuesAssumption == MaxNodes \in Nat \ {0} /\ MaxCalls \in Nat

VARIABLES heap, root, extra,  \* the allocated values; the root; the spare or NULL
          made                \* calls so far
valueVars == <<heap, root, extra, made>>

NULL == 0
Pool == 1..(3 * MaxNodes + 2)

DictNode == [dict |-> <<>>]
ListNode == [list |-> <<>>]
LeafNode(l) == [scalar |-> l]
IsDictionary(h, id) == "dict" \in DOMAIN h[id]
IsListValue(h, id) == "list" \in DOMAIN h[id]
Children(h, id) ==
    IF IsDictionary(h, id) THEN {h[id].dict[k] : k \in DOMAIN h[id].dict}
    ELSE IF IsListValue(h, id) THEN ToSet(h[id].list) ELSE {}

\* new: what the allocator returns may have been freed before.
New(h) == Min(Pool \ DOMAIN h)
Alloc(h, node) == [heap |-> (New(h) :> node) @@ h, id |-> New(h)]

RECURSIVE Reach(_, _), DeepCopy(_, _), CopyWithoutEmptyChildren(_, _), ValueEquals(_, _, _),
          Get(_, _, _), Set(_, _, _, _), MergeDictionary(_, _, _)

Reach(h, id) == {id} \union UNION {Reach(h, c) : c \in Children(h, id)}

\* delete: the destructors of the containers delete what they own.
Delete(h, id) == [n \in DOMAIN h \ Reach(h, id) |-> h[n]]

ClearValue(h, id) ==
    LET freed == UNION {Reach(h, c) : c \in Children(h, id)}
        node == IF IsDictionary(h, id) THEN DictNode ELSE ListNode
    IN  [n \in DOMAIN h \ freed |-> IF n = id THEN node ELSE h[n]]

----------------------------------------------------------------------------
(* Dictionaries.                                                            *)

GetWithoutPathExpansion(h, d, key) ==
    IF key \in DOMAIN h[d].dict THEN h[d].dict[key] ELSE NULL

\* Fault: the old value leaks.
SetAndLeak(h, d, key, v) == [h EXCEPT ![d].dict = (key :> v) @@ @]

\* The value that was there is deleted before the new one takes its place.
SetWithoutPathExpansion(h, d, key, v) ==
    LET old == GetWithoutPathExpansion(h, d, key)
        rest == IF old = NULL THEN h ELSE Delete(h, old)
    IN  [rest EXCEPT ![d].dict = (key :> v) @@ @]

GetDictionary(h, d, key) ==
    LET child == GetWithoutPathExpansion(h, d, key)
    IN  IF child # NULL /\ IsDictionary(h, child) THEN child ELSE NULL

Get(h, d, path) ==
    IF Len(path) = 1 THEN GetWithoutPathExpansion(h, d, Head(path))
    ELSE IF GetDictionary(h, d, Head(path)) = NULL THEN NULL
    ELSE Get(h, GetDictionary(h, d, Head(path)), Tail(path))

Set(h, d, path, v) ==
    IF Len(path) = 1 THEN SetWithoutPathExpansion(h, d, Head(path), v)
    ELSE LET child == GetDictionary(h, d, Head(path))
             new == Alloc(h, DictNode)
         IN  IF child # NULL THEN Set(h, child, Tail(path), v)
             ELSE Set(SetWithoutPathExpansion(new.heap, d, Head(path), new.id),
                      new.id, Tail(path), v)

\* The dictionary that holds the last key of a path, NULL without one.
Holder(h, d, path) ==
    IF Len(path) = 1 THEN d
    ELSE LET holder == Get(h, d, Front(path))
         IN  IF holder # NULL /\ IsDictionary(h, holder) THEN holder ELSE NULL

RemoveWithoutPathExpansion(h, d, key) ==
    [h EXCEPT ![d].dict = [k \in DOMAIN @ \ {key} |-> @[k]]]

----------------------------------------------------------------------------
(* Copies and comparison.                                                   *)

\* Copy the values one after another and hand each copy to the container.
DeepCopy(h, id) ==
    LET CopyKey(k, c) ==
          LET child == DeepCopy(c.heap, h[id].dict[k])
          IN  [heap |-> SetWithoutPathExpansion(child.heap, c.id, k, child.id), id |-> c.id]
        CopyItem(c, item) ==
          LET child == DeepCopy(c.heap, item)
          IN  [heap |-> [child.heap EXCEPT ![c.id].list = Append(@, child.id)], id |-> c.id]
    IN  IF IsDictionary(h, id) THEN FoldSet(CopyKey, Alloc(h, DictNode), DOMAIN h[id].dict)
        ELSE IF IsListValue(h, id) THEN FoldLeft(CopyItem, Alloc(h, ListNode), h[id].list)
        ELSE Alloc(h, h[id])

CopyWithoutEmptyChildren(h, id) ==
    LET CopyKey(k, c) ==
          LET child == CopyWithoutEmptyChildren(c.heap, h[id].dict[k])
          IN  [heap |-> IF child.id = NULL THEN child.heap
                        ELSE SetWithoutPathExpansion(child.heap, c.id, k, child.id), id |-> c.id]
        CopyItem(c, item) ==
          LET child == CopyWithoutEmptyChildren(c.heap, item)
          IN  [heap |-> IF child.id = NULL THEN child.heap
                        ELSE [child.heap EXCEPT ![c.id].list = Append(@, child.id)], id |-> c.id]
        copy == IF IsDictionary(h, id) THEN FoldSet(CopyKey, Alloc(h, DictNode), DOMAIN h[id].dict)
                ELSE FoldLeft(CopyItem, Alloc(h, ListNode), h[id].list)
    IN  IF ~IsDictionary(h, id) /\ ~IsListValue(h, id) THEN DeepCopy(h, id)
        ELSE IF Children(copy.heap, copy.id) # {} THEN copy
        ELSE [heap |-> Delete(copy.heap, copy.id), id |-> NULL]

DeepCopyWithoutEmptyChildren(h, d) ==
    LET copy == CopyWithoutEmptyChildren(h, d)
    IN  IF copy.id = NULL THEN Alloc(copy.heap, DictNode) ELSE copy

\* Two dictionaries both walked in the order of their keys.
ValueEquals(h, a, b) ==
    IF IsDictionary(h, a)
    THEN /\ IsDictionary(h, b) /\ DOMAIN h[a].dict = DOMAIN h[b].dict
         /\ \A k \in DOMAIN h[a].dict : ValueEquals(h, h[a].dict[k], h[b].dict[k])
    ELSE IF IsListValue(h, a)
    THEN /\ IsListValue(h, b) /\ Len(h[a].list) = Len(h[b].list)
         /\ \A i \in DOMAIN h[a].list : ValueEquals(h, h[a].list[i], h[b].list[i])
    ELSE h[a] = h[b]

\* Dictionaries on both sides are merged, anything else is copied over.
MergeDictionary(h, d, other) ==
    LET MergeKey(k, g) ==
          LET value == h[other].dict[k]
              copy == DeepCopy(g, value)
          IN  IF IsDictionary(h, value) /\ GetDictionary(g, d, k) # NULL
              THEN MergeDictionary(g, GetDictionary(g, d, k), value)
              ELSE SetWithoutPathExpansion(copy.heap, d, k, copy.id)
    IN  FoldSet(MergeKey, h, DOMAIN h[other].dict)

\* GetInteger(), GetDouble(), ...: an integer is a double too.
ReadsAs(leaf, type) == leaf[1] = type \/ (leaf[1] = "integer" /\ type = "double")
TypedAs(node, type) ==
    IF "dict" \in DOMAIN node THEN type = "dictionary"
    ELSE IF "list" \in DOMAIN node THEN type = "list" ELSE ReadsAs(node.scalar, type)
Typed(h, found, type) == IF found # NULL /\ TypedAs(h[found], type) THEN found ELSE NULL

GetTyped(h, d, path, type) == Typed(h, Get(h, d, path), type)
GetTypedWithoutPathExpansion(h, d, key, type) == Typed(h, GetWithoutPathExpansion(h, d, key), type)

\* ListValue::Get() and the typed getters of a list.
GetItem(h, l, index) == IF index \in DOMAIN h[l].list THEN h[l].list[index] ELSE NULL
GetTypedItem(h, l, index, type) == Typed(h, GetItem(h, l, index), type)

----------------------------------------------------------------------------
(* The owner's calls.                                                       *)

Roomy == Cardinality(DOMAIN heap') <= MaxNodes

\* A value to hand over: new, or the spare one, which is then the container's.
InValue(given) ==
    \/ /\ \E node \in {LeafNode(l) : l \in Leaves} \union {DictNode, ListNode} :
            given = Alloc(heap, node)
       /\ UNCHANGED extra
    \/ /\ extra # NULL /\ given = [heap |-> heap, id |-> extra]
       /\ extra' = NULL

Givens == {Alloc(heap, node) : node \in {LeafNode(l) : l \in Leaves} \union {DictNode, ListNode}}
          \union {[heap |-> heap, id |-> extra]}

ValuesInit ==
    /\ root = 1 /\ extra = NULL /\ made = 0
    /\ heap \in {(1 :> DictNode), (1 :> ListNode)}

SetPath ==
    /\ IsDictionary(heap, root)
    /\ \E given \in Givens, path \in KeyPaths :
         InValue(given) /\ heap' = Set(given.heap, root, path, given.id)
    /\ Roomy /\ UNCHANGED root

\* With an out_value the removed value is the owner's, otherwise it is deleted.
RemovePath ==
    /\ IsDictionary(heap, root)
    /\ \E path \in KeyPaths :
         LET holder == Holder(heap, root, path)
             entry == GetWithoutPathExpansion(heap, holder, Last(path))
             erased == RemoveWithoutPathExpansion(heap, holder, Last(path))
         IN  /\ holder # NULL /\ entry # NULL
             /\ \/ extra = NULL /\ extra' = entry /\ heap' = erased
                \/ heap' = Delete(erased, entry) /\ UNCHANGED extra
    /\ UNCHANGED root

\* The merged dictionary stays with its owner.
MergeSpare ==
    /\ IsDictionary(heap, root) /\ extra # NULL /\ IsDictionary(heap, extra)
    /\ heap' = MergeDictionary(heap, root, extra)
    /\ Roomy /\ UNCHANGED <<root, extra>>

CopyRoot ==
    /\ extra = NULL
    /\ \E copy \in {DeepCopy(heap, root)} \union
                   (IF IsDictionary(heap, root) THEN {DeepCopyWithoutEmptyChildren(heap, root)} ELSE {}) :
         heap' = copy.heap /\ extra' = copy.id
    /\ Roomy /\ UNCHANGED root

\* Swap(): the contents change places, the objects do not.
Swap ==
    /\ extra # NULL /\ DOMAIN heap[root] = DOMAIN heap[extra]
    /\ IsDictionary(heap, root) \/ IsListValue(heap, root)
    /\ heap' = [heap EXCEPT ![root] = heap[extra], ![extra] = heap[root]]
    /\ UNCHANGED <<root, extra>>

\* Fault: pads one too far.
ListSetBehind(h, l, index, v) ==
    LET Pad(g, i) == LET null == Alloc(g, LeafNode(<<"null", 0>>))
                     IN  [null.heap EXCEPT ![l].list = Append(@, null.id)]
        padded == FoldLeft(Pad, h, [i \in 1..(index - Len(h[l].list)) |-> i])
    IN  IF index > Len(h[l].list) THEN [padded EXCEPT ![l].list = Append(@, v)]
        ELSE [Delete(h, h[l].list[index]) EXCEPT ![l].list[index] = v]

\* ListValue::Set() pads with null values up to the index.
ListSet(h, l, index, v) ==
    LET Pad(g) == LET null == Alloc(g, LeafNode(<<"null", 0>>))
                  IN  [null.heap EXCEPT ![l].list = Append(@, null.id)]
        padded == IF index > Len(h[l].list) + 1 THEN Pad(h) ELSE h
    IN  IF index > Len(h[l].list) THEN [padded EXCEPT ![l].list = Append(@, v)]
        ELSE [Delete(h, h[l].list[index]) EXCEPT ![l].list[index] = v]

AppendIfNotPresent(h, l, v) ==
    IF \E i \in DOMAIN h[l].list : ValueEquals(h, h[l].list[i], v)
    THEN Delete(h, v) ELSE [h EXCEPT ![l].list = Append(@, v)]

\* Set(), Insert() and AppendIfNotPresent(); Append() is the last Insert().
StoreInList ==
    /\ IsListValue(heap, root)
    /\ \E given \in Givens :
         /\ InValue(given)
         /\ \/ \E i \in 1..(Len(heap[root].list) + 2) :
                 heap' = ListSet(given.heap, root, i, given.id)
            \/ \E i \in 1..(Len(heap[root].list) + 1) :
                 heap' = [given.heap EXCEPT ![root].list = InsertAt(@, i, given.id)]
            \/ heap' = AppendIfNotPresent(given.heap, root, given.id)
    /\ Roomy /\ UNCHANGED root

RemoveFromList ==
    /\ IsListValue(heap, root)
    /\ \E i \in DOMAIN heap[root].list :
         LET erased == [heap EXCEPT ![root].list = RemoveAt(@, i)]
         IN  \/ extra = NULL /\ extra' = heap[root].list[i] /\ heap' = erased
             \/ heap' = Delete(erased, heap[root].list[i]) /\ UNCHANGED extra
    /\ UNCHANGED root

\* Remove(const Value&): the first equal value, compared with the spare one.
RemoveEqual ==
    /\ IsListValue(heap, root) /\ extra # NULL
    /\ LET equal == {i \in DOMAIN heap[root].list : ValueEquals(heap, heap[root].list[i], extra)}
       IN  /\ equal # {}
           /\ heap' = Delete([heap EXCEPT ![root].list = RemoveAt(@, Min(equal))],
                             heap[root].list[Min(equal)])
    /\ UNCHANGED <<root, extra>>

ClearRoot == heap' = ClearValue(heap, root) /\ UNCHANGED <<root, extra>>
DeleteSpare == extra # NULL /\ heap' = Delete(heap, extra) /\ extra' = NULL /\ UNCHANGED root

ValuesNext ==
    /\ made < MaxCalls /\ made' = made + 1
    /\ \/ SetPath \/ RemovePath \/ MergeSpare \/ CopyRoot \/ Swap \/ StoreInList
       \/ RemoveFromList \/ RemoveEqual \/ ClearRoot \/ DeleteSpare
ValuesSpec == ValuesInit /\ [][ValuesNext]_valueVars

----------------------------------------------------------------------------

Roots == {root} \union ({extra} \ {NULL})
Owners(c) ==
    Cardinality({r \in Roots : r = c})
    + MapThenSumSet(LAMBDA id :
        IF IsDictionary(heap, id) THEN Cardinality({k \in DOMAIN heap[id].dict : heap[id].dict[k] = c})
        ELSE IF IsListValue(heap, id) THEN Cardinality({i \in DOMAIN heap[id].list : heap[id].list[i] = c})
        ELSE 0, DOMAIN heap)

\* Every allocated value has one owner, and no freed value has any.
OwnedOnce == \A c \in Pool : Owners(c) = IF c \in DOMAIN heap THEN 1 ELSE 0

RECURSIVE TreeOf(_)
TreeOf(id) ==
    IF id = NULL THEN [none |-> TRUE]
    ELSE IF IsDictionary(heap, id)
    THEN [dict |-> [k \in DOMAIN heap[id].dict |-> TreeOf(heap[id].dict[k])]]
    ELSE IF IsListValue(heap, id) THEN [list |-> [i \in DOMAIN heap[id].list |-> TreeOf(heap[id].list[i])]]
    ELSE heap[id]

Tree == INSTANCE ValueTree WITH
    Scalars <- {LeafNode(l) : l \in Leaves}, Paths <- KeyPaths,
    tree <- TreeOf(root), spare <- TreeOf(extra)

\* The calls change the data as values.hh says: paths grow dictionaries over
\* whatever was in their way, a merge prefers the passed in dictionary, a copy
\* is equal and independent, an unsuccessful removal changes nothing.
ImplementsTree == Tree!TreeSpec

TypeNames == {l[1] : l \in Leaves} \union {"dictionary", "list"}
Answers(found, there, type) ==
    found # NULL <=> there # Tree!NoTree /\ TypedAs(there, type)

\* Each typed getter answers exactly when its path, its key or its index leads
\* to a value of its type.
GettersAgree ==
    \A type \in TypeNames :
      /\ IsDictionary(heap, root) => \A path \in KeyPaths :
           /\ Answers(GetTyped(heap, root, path, type), Tree!TreeAt(TreeOf(root), path), type)
           /\ Answers(GetTypedWithoutPathExpansion(heap, root, Head(path), type),
                      Tree!TreeAt(TreeOf(root), <<Head(path)>>), type)
      /\ IsListValue(heap, root) => \A i \in 1..(Len(heap[root].list) + 1) :
           Answers(GetTypedItem(heap, root, i, type),
                   IF i > Len(heap[root].list) THEN Tree!NoTree ELSE TreeOf(root).list[i], type)

\* Whatever sequence of calls stores, replaces, merges, hands out and deletes
\* values, each is owned by one container or by the caller (values.hh:235: "takes
\* ownership of the value"), so nothing leaks and nothing is freed twice, and
\* what the getters find by path, key or index is what was stored there.
ValuesSound == OwnedOnce /\ GettersAgree
=============================================================================
