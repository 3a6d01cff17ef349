------------------------------ MODULE Masstree ------------------------------
(***************************************************************************)
(* The trie of B+ trees of masstree/: findBorder, get and write            *)
(* (masstree.h), insert and split (bptree.h).  A key is a sequence of      *)
(* slices; a border node holds a slice's value, the value of the one slice *)
(* that follows it (its suffix), or the root of the next layer.            *)
(*                                                                         *)
(* Nothing here is concurrent yet: Version is a plain struct, and only the *)
(* tests call insert, one call after the other.  One call is one step.     *)
(* What a reader compares twice (v_insert, v_split) cannot have changed in *)
(* between and is left out; the flags of Version are kept.                 *)
(***************************************************************************)
EXTENDS Integers, Sequences, SequencesExt

CONSTANTS
    Order,   \* Node::ORDER
    Keys,
    Offered  \* bound: the values offered for each key

Full == 8         \* bytes of a slice that another may follow
Layer == 255      \* BorderNode::key_len_layer

\* Slice 0 is left out: in key_suffixes it is the same as no suffix.
KeySlices == [slice : Nat \ {0}, size : 1 .. Full]

ASSUME MasstreeAssumption ==
    /\ Order \in Nat /\ Order >= 3
    /\ Keys \subseteq Seq(KeySlices) \ {<<>>}
    /\ \A k \in Keys : \A i \in 1 .. (Len(k) - 1) : k[i].size = Full
    /\ Offered \in [Keys -> SUBSET (Nat \ {0})]

VARIABLES
    tree,   \* root, and the nodes in the order they were allocated
    last    \* auxiliary: the value each key was last given, 0 if none

vars == <<tree, last>>

Null == 0

Init ==
    /\ tree = [root |-> Null, nodes |-> <<>>]
    /\ last = [k \in Keys |-> 0]

\* The place a loop over s stops at: the first element Test holds of, or one
\* past the end.
First(s, Test(_)) ==
    Min({i \in 1 .. (Len(s) + 1) : i = Len(s) + 1 \/ Test(s[i])})

Cut(length) == (length + 1) \div 2

\* The suffixes are an array of their own, beside the slots; 0 is no suffix.
NoSuffixes == [i \in 1 .. (Order - 1) |-> 0]
SetSuffix(suffixes, i, s) == IF s = 0 THEN suffixes ELSE [suffixes EXCEPT ![i] = s]

NewBorder(flags, slots, suffixes) ==
    [border |-> TRUE, flags |-> flags, slots |-> slots, suffixes |-> suffixes,
     parent |-> Null, next |-> Null, prev |-> Null]
NewInterior(flags, slices, child, parent) ==
    [border |-> FALSE, flags |-> flags, slices |-> slices, child |-> child,
     parent |-> parent]

\* lock() and unlock(); inserting and splitting are set under the lock.
Flag(T, n, flags) == [T EXCEPT !.nodes[n].flags = @ \cup flags]
Unlock_keepsSplitting(T, n) ==  \* mutant: "copy_v.splitting = false" left out
    [T EXCEPT !.nodes[n].flags = @ \ {"locked", "inserting"}]
Unlock(T, n) ==
    [T EXCEPT !.nodes[n].flags = @ \ {"locked", "inserting", "splitting"}]

-----------------------------------------------------------------------------
(* Lookup.                                                                 *)

FindChild(c, slice) == c.child[First(c.slices, LAMBDA s : slice < s)]

\* Up to the root of the layer, then down to the border node.
RECURSIVE Climb(_, _)
Climb(T, n) ==
    IF "root" \in T.nodes[n].flags THEN n ELSE Climb(T, T.nodes[n].parent)

RECURSIVE Descend(_, _, _)
Descend(T, n, slice) ==
    IF T.nodes[n].border THEN n
    ELSE Descend(T, FindChild(T.nodes[n], slice), slice)

FindBorder(T, n, slice) == Descend(T, Climb(T, n), slice)

\* The slot of key[i ..]: the first one with its length when it is one slice,
\* the first one with a suffix or a layer when it is more.
SlotOf(c, key, i) ==
    First(c.slots, LAMBDA s :
        /\ s.slice = key[i].slice
        /\ s.len \in IF i = Len(key) THEN {key[i].size} ELSE {Full, Layer})

\* The node and the slot the value of key[i ..] is in, <<>> if it has none.
RECURSIVE Locate(_, _, _, _)
Locate(T, root, key, i) ==
    LET n == FindBorder(T, root, key[i].slice)
        c == T.nodes[n]
        slot == SlotOf(c, key, i)
    IN  IF slot > Len(c.slots) THEN <<>>
        ELSE IF i = Len(key) THEN <<n, slot>>
        ELSE IF c.slots[slot].len = Layer THEN Locate(T, c.slots[slot].lv, key, i + 1)
        ELSE IF c.suffixes[slot] = key[i + 1].slice THEN <<n, slot>>
        ELSE <<>>

Get(T, key) ==
    LET found == Locate(T, T.root, key, 1)
    IN  IF found = <<>> THEN Null ELSE T.nodes[found[1]].slots[found[2]].lv

-----------------------------------------------------------------------------
(* Insertion.                                                              *)

\* The slot for key[i ..] with its suffix, and the nodes with the new layers
\* the key needs: one for each slice that two others follow.
RECURSIVE Filled(_, _, _, _)
Filled(ns, key, i, value) ==
    LET slot(len, lv) == [slice |-> key[i].slice, len |-> len, lv |-> lv]
        below == Filled(ns, key, i + 1, value)
        layer == NewBorder({"root"}, <<below.slot>>,
                           SetSuffix(NoSuffixes, 1, below.suffix))
    IN  IF i + 1 < Len(key)
        THEN [nodes |-> Append(below.nodes, layer), suffix |-> 0,
              slot |-> slot(Layer, Len(below.nodes) + 1)]
        ELSE [nodes |-> ns, slot |-> slot(key[i].size, value),
              suffix |-> IF i < Len(key) THEN key[i + 1].slice ELSE 0]

StartNewTree(T, key, value) ==
    LET new == Filled(T.nodes, key, 1, value)
        border == NewBorder({"root"}, <<new.slot>>, SetSuffix(NoSuffixes, 1, new.suffix))
    IN  [root |-> Len(new.nodes) + 1, nodes |-> Append(new.nodes, border)]

HasSpace_offByOne(c) == Len(c.slots) <= Order - 1  \* mutant
HasSpace(c) == Len(c.slots) < Order - 1

InsertionPoint(slices, slice) == First(slices, LAMBDA s : s >= slice)
SlicesOf(c) == [i \in DOMAIN c.slots |-> c.slots[i].slice]

\* The slots from the insertion point on move up; the suffixes stay.
InsertIntoBorder(T, n, key, value) ==
    LET new == Filled(T.nodes, key, 1, value)
        i == InsertionPoint(SlicesOf(T.nodes[n]), key[1].slice)
    IN  [T EXCEPT !.nodes =
            [new.nodes EXCEPT ![n].slots = InsertAt(@, i, new.slot),
                              ![n].suffixes = SetSuffix(@, i, new.suffix)]]

\* A full border node keeps the first half of its slots, with their suffixes;
\* the other half goes to a new node with the same flags.
SplitBorder_drops(T, n, key, value) ==  \* mutant: the last slot is not copied
    LET new == Filled(T.nodes, key, 1, value)
        c == T.nodes[n]
        i == InsertionPoint(SlicesOf(c), key[1].slice)
        slots == InsertAt(c.slots, i, new.slot)
        half == Cut(Order - 1)
        n1 == Len(new.nodes) + 1
        right == [NewBorder(c.flags, SubSeq(slots, half + 1, Order - 1), NoSuffixes)
                     EXCEPT !.parent = c.parent, !.next = c.next, !.prev = n]
    IN  [T EXCEPT !.nodes =
            Append([new.nodes EXCEPT ![n].slots = SubSeq(slots, 1, half), ![n].next = n1],
                   right)]
SplitBorder(T, n, key, value) ==
    LET new == Filled(T.nodes, key, 1, value)
        c == T.nodes[n]
        i == InsertionPoint(SlicesOf(c), key[1].slice)
        slots == InsertAt(c.slots, i, new.slot)
        suffixes == InsertAt(c.suffixes, i, new.suffix)
        half == Cut(Order - 1)
        from(first, count) ==
            [j \in 1 .. (Order - 1) |-> IF j <= count THEN suffixes[first + j - 1] ELSE 0]
        n1 == Len(new.nodes) + 1
        right == [NewBorder(c.flags, SubSeq(slots, half + 1, Order), from(half + 1, Order - half))
                     EXCEPT !.parent = c.parent, !.next = c.next, !.prev = n]
    IN  [T EXCEPT !.nodes =
            Append([new.nodes EXCEPT ![n].slots = SubSeq(slots, 1, half),
                                     ![n].suffixes = from(1, half),
                                     ![n].next = n1],
                   right)]

Adopt_none(ns, p, children) == ns  \* mutant: "p1->child[i]->parent = p1" left out
Adopt(ns, p, children) ==
    FoldSet(LAMBDA m, adopted : [adopted EXCEPT ![m].parent = p], ns, children)

\* A full interior node likewise; the slice in the middle is dropped.
SplitInterior(T, p, slice, n1) ==
    LET c == T.nodes[p]
        i == InsertionPoint(c.slices, slice)
        slices == InsertAt(c.slices, i, slice)
        child == InsertAt(c.child, i + 1, n1)
        half == Cut(Order)
        moved == SubSeq(child, half + 1, Order + 1)
        p1 == Len(T.nodes) + 1
        grown == Append([T.nodes EXCEPT ![p].slices = SubSeq(slices, 1, half - 1),
                                        ![p].child = SubSeq(child, 1, half)],
                        NewInterior(c.flags, SubSeq(slices, half + 1, Order), moved, c.parent))
    IN  [T EXCEPT !.nodes = Adopt(grown, p1, ToSet(moved))]

CreateRootWithChildren(T, left, slice, right) ==
    LET p == Len(T.nodes) + 1
        grown == Append(T.nodes, NewInterior({"root"}, <<slice>>, <<left, right>>, Null))
    IN  [root |-> p, nodes |-> Adopt(grown, p, {left, right})]

InsertIntoParent_before(T, p, n1, slice) ==  \* mutant: n1 goes before n
    LET i == InsertionPoint(T.nodes[p].slices, slice)
    IN  [T EXCEPT !.nodes[p].slices = InsertAt(@, i, slice),
                  !.nodes[p].child = InsertAt(@, i, n1)]
InsertIntoParent(T, p, n1, slice) ==
    LET i == InsertionPoint(T.nodes[p].slices, slice)
    IN  [T EXCEPT !.nodes[p].slices = InsertAt(@, i, slice),
                  !.nodes[p].child = InsertAt(@, i + 1, n1)]

\* n was split into n and n1, both locked: the slice of the inserted key goes
\* up beside n1, through as many full parents as there are.
RECURSIVE Ascend(_, _, _, _)
Ascend(T, n, n1, slice) ==
    LET p == T.nodes[n].parent IN
    IF p = Null
    THEN Unlock(Unlock(CreateRootWithChildren(T, n, slice, n1), n), n1)
    ELSE IF Len(T.nodes[p].slices) # Order - 1
    THEN LET held == Flag(T, p, {"locked", "inserting"})
         IN  Unlock(Unlock(Unlock(InsertIntoParent(held, p, n1, slice), n), n1), p)
    ELSE LET held == Flag(T, p, {"locked", "splitting"})
             split == SplitInterior(Unlock(held, n), p, slice, n1)
         IN  Ascend(Unlock(split, n1), p, Len(split.nodes), slice)

\* A border node that is split is no root any more.
Split(T, n, key, value) ==
    LET held == [Flag(T, n, {"locked", "splitting"}) EXCEPT !.nodes[n].flags = @ \ {"root"}]
        halved == SplitBorder(held, n, key, value)
    IN  Ascend(halved, n, Len(halved.nodes), key[1].slice)

\* insert(): write() first, for a key that is found.
InsertNew(T, key, value) ==
    LET n == FindBorder(T, T.root, key[1].slice)
    IN  IF HasSpace(T.nodes[n]) THEN InsertIntoBorder(T, n, key, value)
        ELSE Split(T, n, key, value)

Insert(key, value) ==
    /\ tree' = IF tree.root = Null THEN StartNewTree(tree, key, value)
               ELSE LET found == Locate(tree, tree.root, key, 1)
                    IN  IF found = <<>> THEN InsertNew(tree, key, value)
                        ELSE [tree EXCEPT !.nodes[found[1]].slots[found[2]].lv = value]
    /\ last' = [last EXCEPT ![key] = value]

Next == \E key \in Keys : \E value \in Offered[key] : Insert(key, value)

Spec == Init /\ [][Next]_vars

-----------------------------------------------------------------------------
(* Correctness                                                             *)

nodes == tree.nodes
Borders == {n \in DOMAIN nodes : nodes[n].border}
Interiors == DOMAIN nodes \ Borders
Layers == {nodes[n].slots[i].lv : <<n, i>> \in
              {ni \in Borders \X (1 .. (Order - 1)) :
                  ni[2] <= Len(nodes[ni[1]].slots) /\ nodes[ni[1]].slots[ni[2]].len = Layer}}

\* No node outgrows its arrays, and findChild never returns null: an interior
\* node has a child on each side of every slice.
TypeOK ==
    /\ tree.root \in DOMAIN nodes \cup {Null}
    /\ \A n \in Borders :
          /\ Len(nodes[n].slots) \in 1 .. (Order - 1)
          /\ nodes[n].suffixes \in [1 .. (Order - 1) -> Nat]
          /\ {nodes[n].next, nodes[n].prev} \subseteq Borders \cup {Null}
    /\ \A n \in Interiors :
          /\ Len(nodes[n].slices) \in 1 .. (Order - 1)
          /\ Len(nodes[n].child) = Len(nodes[n].slices) + 1
          /\ ToSet(nodes[n].child) \subseteq DOMAIN nodes
    /\ \A n \in DOMAIN nodes : nodes[n].parent \in Interiors \cup {Null}

\* Every node is the root, the root of a layer, or the child of exactly the
\* node it calls its parent, however far the splits went up.
ChildrenKnowTheirParents ==
    \A n \in DOMAIN nodes :
        /\ nodes[n].parent = Null <=> n \in Layers \cup {tree.root}
        /\ {p \in Interiors : n \in ToSet(nodes[p].child)} = {nodes[n].parent} \ {Null}

RECURSIVE Leaves(_)
Leaves(n) ==
    IF nodes[n].border THEN <<n>>
    ELSE FlattenSeq([i \in DOMAIN nodes[n].child |-> Leaves(nodes[n].child[i])])

RECURSIVE Chain(_)
Chain(n) == IF n = Null THEN <<>> ELSE <<n>> \o Chain(nodes[n].next)

\* The list of border nodes that get() follows starts at the leftmost leaf and
\* goes through every leaf of the tree once.  (Not from left to right: a split
\* may repeat a separator, and insert_into_parent finds its place by slice.)
LeavesLinked ==
    tree.root # Null =>
        LET leaves == Leaves(tree.root)
            chain == Chain(Head(leaves))
        IN  IsInjective(chain) /\ ToSet(chain) = ToSet(leaves)

\* An insertion ends with every node it locked unlocked and stable, and where
\* a lookup starts is marked as a root: no later lookup spins in
\* stableVersion or climbs out of a layer.
LookupsEnd ==
    /\ \A n \in DOMAIN nodes : nodes[n].flags \subseteq {"root"}
    /\ \A n \in Layers \cup ({tree.root} \ {Null}) : "root" \in nodes[n].flags

RECURSIVE Below(_)
Below(n) ==
    LET c == nodes[n]
        lvs == {c.slots[i].lv : i \in {j \in DOMAIN c.slots : c.slots[j].len # Layer}}
        layers == {c.slots[i].lv : i \in {j \in DOMAIN c.slots : c.slots[j].len = Layer}}
    IN  IF c.border THEN lvs \cup UNION {Below(m) : m \in layers}
        ELSE UNION {Below(m) : m \in ToSet(c.child)}

\* The last value given to a key is somewhere in the tree, whatever was split
\* since: a split drops no slot and no layer.
NothingDropped ==
    \A k \in Keys : last[k] # 0 => last[k] \in Below(tree.root)

\* MasstreeTest.split (test/masstree/a.cpp): keys 1 to 24 inserted in this
\* order, get of 17 returns the value of 17.
SplitTest ==
    \A k \in Keys : k[1].slice = 17 /\ (\A j \in Keys : last[j] # 0) =>
        Get(tree, k) = last[k]
=============================================================================
