------------------------------- MODULE BPTree -------------------------------
(***************************************************************************)
(* The B+ tree of bptree/main.c, of which KVSilo::PrimaryTree              *)
(* (kvsilo/primary_tree.cpp) is the port without deletion, of order 4.     *)
(*                                                                         *)
(* Nodes live on a heap and point to each other: down to children, up to   *)
(* the parent, and from a leaf to the next one.  make_node takes a free    *)
(* address, free() gives it back.  One command of main() is one step, with *)
(* all the splits, merges and redistributions it leads to.                 *)
(***************************************************************************)
EXTENDS Integers, Sequences, SequencesExt

CONSTANTS
    Orders,  \* the orders main() takes: MIN_ORDER .. MAX_ORDER
    Keys,    \* not 0, which stands for NULL
    Offered  \* bound: the values offered for each key

ASSUME BPTreeAssumption ==
    /\ Orders \subseteq 3 .. 20
    /\ Keys \subseteq Nat \ {0}
    /\ Offered \in [Keys -> SUBSET Int]

Values == UNION {Offered[k] : k \in Keys}

VARIABLES
    order,   \* fixed when the program starts
    tree,    \* root, the nodes and the records on the heap
    command  \* auxiliary: the command of the last step, with its arguments

vars == <<order, tree, command>>

Null == 0

EmptyHeap == [p \in {} |-> p]
EmptyTree == [root |-> Null, nodes |-> EmptyHeap, records |-> EmptyHeap]

Init ==
    /\ order \in Orders
    /\ tree = EmptyTree
    /\ command = <<>>

\* The place a loop over s stops at: the first element Test holds of, or one
\* past the end.
First(s, Test(_)) ==
    Min({i \in 1 .. (Len(s) + 1) : i = Len(s) + 1 \/ Test(s[i])})

Place(s, e) == First(s, LAMBDA x : x = e)

FreeAddress(heap) == Min((1 .. (Cardinality(DOMAIN heap) + 1)) \ DOMAIN heap)

\* A heap with v at p.
Given(heap, p, v) == [q \in DOMAIN heap \cup {p} |-> IF q = p THEN v ELSE heap[q]]

WithNode(T, n, c) == [T EXCEPT !.nodes = Given(@, n, c)]
\* A node with other entries and another next leaf.
Refilled(c, keys, ptrs, next) ==
    [leaf |-> c.leaf, keys |-> keys, ptrs |-> ptrs, parent |-> c.parent, next |-> next]

WithEntries(T, n, keys, ptrs) == [T EXCEPT !.nodes[n] = Refilled(@, keys, ptrs, @.next)]
Free(heap, p) == [q \in DOMAIN heap \ {p} |-> heap[q]]

\* child->parent = n
Adopt_none(T, n, children) == T  \* mutant: the moved children keep their parent
Adopt(T, n, children) ==
    [T EXCEPT !.nodes = [m \in DOMAIN @ |->
        IF m \in children THEN [@[m] EXCEPT !.parent = n] ELSE @[m]]]

-----------------------------------------------------------------------------
(* Lookup.                                                                 *)

\* The child to follow: past every separator that is at most the key.
ChildIndex_strict(c, key) == First(c.keys, LAMBDA k : key <= k)  \* mutant: "key > keys[i]"
ChildIndex(c, key) == First(c.keys, LAMBDA k : key < k)

\* The leaf the search for a key ends in, from each node; Null in an empty tree.
LeafBelow(T, key) ==
    LET below[n \in DOMAIN T.nodes] ==
            LET c == T.nodes[n]
            IN  IF c.leaf THEN n ELSE below[c.ptrs[ChildIndex(c, key)]]
    IN  below

FindLeaf(T, key) == IF T.root = Null THEN Null ELSE LeafBelow(T, key)[T.root]

\* The record of a key.
RecordIn(T, key) ==
    [n \in DOMAIN T.nodes |->
        LET c == T.nodes[n]
            i == Place(c.keys, key)
        IN  IF i > Len(c.keys) THEN Null ELSE c.ptrs[i]]

Find(T, key) == IF T.root = Null THEN Null ELSE RecordIn(T, key)[FindLeaf(T, key)]

\* Where the inner loop of find_range leaves a leaf.
PastEnd_exclusive(c, keyEnd) == First(c.keys, LAMBDA k : k >= keyEnd)  \* mutant
PastEnd(c, keyEnd) == First(c.keys, LAMBDA k : k > keyEnd)

\* The first key of a leaf that is not below key: where find_range starts and
\* where insert puts a key.
InsertionPoint(c, key) == First(c.keys, LAMBDA k : k >= key)

\* What the leaves from n on have to say, one after the other.
Along(T, say) ==
    LET from[n \in DOMAIN T.nodes \cup {Null}] ==
            IF n = Null THEN <<>> ELSE say[n] \o from[T.nodes[n].next]
    IN  from

\* The keys of the range.  A leaf without a key to start at ends the search.
FindRange(T, keyStart, keyEnd) ==
    IF T.root = Null THEN <<>>
    ELSE LET c == T.nodes[FindLeaf(T, keyStart)]
             i == InsertionPoint(c, keyStart)
             upTo == [m \in DOMAIN T.nodes |->
                 SubSeq(T.nodes[m].keys, 1, PastEnd(T.nodes[m], keyEnd) - 1)]
         IN  IF i > Len(c.keys) THEN <<>>
             ELSE SubSeq(c.keys, i, PastEnd(c, keyEnd) - 1) \o Along(T, upTo)[c.next]

-----------------------------------------------------------------------------
(* Printing.                                                               *)

LeftmostLeaf(T) ==
    LET first[n \in DOMAIN T.nodes] ==
            IF T.nodes[n].leaf THEN n ELSE first[T.nodes[n].ptrs[1]]
    IN  first

\* print_leaves: the leaves from the leftmost one on.
PrintLeaves(T) ==
    IF T.root = Null THEN <<>>
    ELSE Along(T, [n \in DOMAIN T.nodes |-> <<n>>])[LeftmostLeaf(T)[T.root]]

PathToRoot(T) ==
    LET length[n \in DOMAIN T.nodes] ==
            IF n = T.root THEN 0 ELSE 1 + length[T.nodes[n].parent]
    IN  length

\* What a printed node puts into the queue.
Enqueued_short(c) == IF c.leaf THEN <<>> ELSE Front(c.ptrs)  \* mutant: "i < num_keys"
Enqueued(c) == IF c.leaf THEN <<>> ELSE c.ptrs

\* print_tree: the nodes of each line.  A first child on another level than
\* the node printed last starts a line.
PrintNext(T, s) ==
    LET n == Head(s.queue)
        c == T.nodes[n]
        rank == IF c.parent # Null /\ n = T.nodes[c.parent].ptrs[1]
                THEN PathToRoot(T)[n] ELSE s.rank
        started == IF rank # s.rank THEN Append(s.lines, <<>>) ELSE s.lines
    IN  IF s.queue = <<>> THEN s
        ELSE [queue |-> Tail(s.queue) \o Enqueued(c), rank |-> rank,
              lines |-> [started EXCEPT ![Len(started)] = Append(@, n)]]

\* Bound: as many turns as there are nodes, and one that would show if the
\* queue had more.
PrintTree(T) ==
    LET after[i \in 0 .. (Cardinality(DOMAIN T.nodes) + 1)] ==
            IF i = 0 THEN [queue |-> <<T.root>>, rank |-> 0, lines |-> <<<<>>>>]
            ELSE PrintNext(T, after[i - 1])
    IN  IF T.root = Null THEN <<>> ELSE after[Cardinality(DOMAIN T.nodes) + 1].lines

-----------------------------------------------------------------------------
(* Insertion.                                                              *)

Cut(length) == (length + 1) \div 2

HasRoom_offByOne(c) == Len(c.keys) <= order - 1  \* mutant
HasRoom(c) == Len(c.keys) < order - 1

StartNewTree(T, key, ptr) ==
    LET n == FreeAddress(T.nodes)
    IN  [WithNode(T, n, [leaf |-> TRUE, keys |-> <<key>>, ptrs |-> <<ptr>>,
                         parent |-> Null, next |-> Null])
            EXCEPT !.root = n]

InsertIntoNewRoot(T, left, key, right) ==
    LET n == FreeAddress(T.nodes)
        grown == WithNode(T, n, [leaf |-> FALSE, keys |-> <<key>>, ptrs |-> <<left, right>>,
                                 parent |-> Null, next |-> Null])
    IN  [Adopt(grown, n, {left, right}) EXCEPT !.root = n]

InsertIntoNode(T, n, i, key, right) ==
    WithEntries(T, n, InsertAt(T.nodes[n].keys, i, key), InsertAt(T.nodes[n].ptrs, i + 1, right))

\* The arguments of a call of insert_into_parent(): left was split, key and
\* right are yet to go into its parent.  Without right nothing is left to do.
Call(T, left, key, right) == [tree |-> T, left |-> left, key |-> key, right |-> right]
Inserted(T) == Call(T, Null, Null, Null)

\* The old node keeps the first half, the key in the middle goes up.
SplitNode(T, n, i, key, right) ==
    LET keys == InsertAt(T.nodes[n].keys, i, key)
        ptrs == InsertAt(T.nodes[n].ptrs, i + 1, right)
        split == Cut(order)
        new == FreeAddress(T.nodes)
        moved == SubSeq(ptrs, split + 1, order + 1)
        shrunk == WithEntries(T, n, SubSeq(keys, 1, split - 1), SubSeq(ptrs, 1, split))
        grown == WithNode(shrunk, new, [leaf |-> FALSE, keys |-> SubSeq(keys, split + 1, order),
                                        ptrs |-> moved, parent |-> T.nodes[n].parent,
                                        next |-> Null])
    IN  Call(Adopt(grown, new, ToSet(moved)), n, keys[split], new)

InsertOneUp(s) ==
    LET parent == s.tree.nodes[s.left].parent
        i == Place(s.tree.nodes[parent].ptrs, s.left)
    IN  IF s.right = Null THEN s
        ELSE IF parent = Null
        THEN Inserted(InsertIntoNewRoot(s.tree, s.left, s.key, s.right))
        ELSE IF HasRoom(s.tree.nodes[parent])
        THEN Inserted(InsertIntoNode(s.tree, parent, i, s.key, s.right))
        ELSE SplitNode(s.tree, parent, i, s.key, s.right)

\* Each call is made on the level above the last one: there are no more calls
\* than nodes.
InsertIntoParent(T, left, key, right) ==
    LET after[i \in 0 .. Cardinality(DOMAIN T.nodes)] ==
            IF i = 0 THEN Call(T, left, key, right) ELSE InsertOneUp(after[i - 1])
    IN  after[Cardinality(DOMAIN T.nodes)].tree

InsertIntoLeaf(T, n, key, ptr) ==
    LET i == InsertionPoint(T.nodes[n], key)
    IN  WithEntries(T, n, InsertAt(T.nodes[n].keys, i, key), InsertAt(T.nodes[n].ptrs, i, ptr))

\* The new leaf goes to the right; its first key goes up.
SplitLeaf(T, n, key, ptr) ==
    LET c == T.nodes[n]
        i == InsertionPoint(c, key)
        keys == InsertAt(c.keys, i, key)
        ptrs == InsertAt(c.ptrs, i, ptr)
        split == Cut(order - 1)
        new == FreeAddress(T.nodes)
        first == Refilled(c, SubSeq(keys, 1, split), SubSeq(ptrs, 1, split), new)
        second == Refilled(c, SubSeq(keys, split + 1, order), SubSeq(ptrs, split + 1, order), c.next)
        grown == WithNode(WithNode(T, n, first), new, second)
    IN  InsertIntoParent(grown, n, keys[split + 1], new)

\* A record is named by the key it was made for.
MakeRecord(T, key, value) == [T EXCEPT !.records = Given(@, key, value)]

InsertRecord(T, key) ==
    IF T.root = Null THEN StartNewTree(T, key, key)
    ELSE LET n == FindLeaf(T, key)
         IN  IF HasRoom(T.nodes[n]) THEN InsertIntoLeaf(T, n, key, key)
             ELSE SplitLeaf(T, n, key, key)

-----------------------------------------------------------------------------
(* Deletion.                                                               *)

MinKeys_uniform(c) == Cut(order) - 1  \* mutant: leaves are treated like inner nodes
MinKeys(c) == IF c.leaf THEN Cut(order - 1) ELSE Cut(order) - 1

RemoveEntry(T, n, key, ptr) ==
    LET c == T.nodes[n]
    IN  WithEntries(T, n, RemoveAt(c.keys, Place(c.keys, key)),
                          RemoveAt(c.ptrs, Place(c.ptrs, ptr)))

\* An empty root is freed: its only child, if it has one, is the new root.
AdjustRoot_keeps(T) ==  \* mutant: free(root) left out
    LET c == T.nodes[T.root] IN
    IF c.keys # <<>> THEN T
    ELSE IF c.leaf THEN [T EXCEPT !.root = Null]
    ELSE [Adopt(T, Null, {c.ptrs[1]}) EXCEPT !.root = c.ptrs[1]]
AdjustRoot(T) ==
    LET c == T.nodes[T.root]
        freed == [T EXCEPT !.nodes = Free(@, T.root)]
    IN  IF c.keys # <<>> THEN T
        ELSE IF c.leaf THEN [freed EXCEPT !.root = Null]
        ELSE [Adopt(freed, Null, {c.ptrs[1]}) EXCEPT !.root = c.ptrs[1]]

\* Moves one entry from the neighbor over; kPrime, the separator at p, changes.
Redistribute(T, n, neighbor, leftmost, p, kPrime) ==
    LET c == T.nodes[n]
        d == T.nodes[neighbor]
        taken == IF leftmost THEN Head(d.ptrs) ELSE Last(d.ptrs)
        key == IF ~ c.leaf THEN kPrime ELSE IF leftmost THEN Head(d.keys) ELSE Last(d.keys)
        separator == IF ~ leftmost THEN Last(d.keys)
                     ELSE IF c.leaf THEN d.keys[2] ELSE d.keys[1]
        filled == IF leftmost
                  THEN WithEntries(T, n, Append(c.keys, key), Append(c.ptrs, taken))
                  ELSE WithEntries(T, n, <<key>> \o c.keys, <<taken>> \o c.ptrs)
        moved == IF leftmost
                 THEN WithEntries(filled, neighbor, Tail(d.keys), Tail(d.ptrs))
                 ELSE WithEntries(filled, neighbor, Front(d.keys), Front(d.ptrs))
        parent == T.nodes[c.parent]
        bounded == WithEntries(moved, c.parent, ReplaceAt(parent.keys, p, separator), parent.ptrs)
    IN  IF c.leaf THEN bounded ELSE Adopt(bounded, n, {taken})

\* The arguments of a call of delete_entry().  Without n nothing is left to do.
Deletion(T, n, key, ptr) == [tree |-> T, n |-> n, key |-> key, ptr |-> ptr]
Deleted(T) == Deletion(T, Null, Null, Null)

\* Appends right to left and frees it, which is yet to be removed from the
\* parent.  The code frees it when that is done: nothing looks at it before.
Coalesce(T, left, right, kPrime) ==
    LET c == T.nodes[left]
        d == T.nodes[right]
        keys == c.keys \o (IF d.leaf THEN <<>> ELSE <<kPrime>>) \o d.keys
        appended == WithNode(T, left, Refilled(c, keys, c.ptrs \o d.ptrs, d.next))
        merged == IF d.leaf THEN appended ELSE Adopt(appended, left, ToSet(d.ptrs))
    IN  Deletion([merged EXCEPT !.nodes = Free(@, right)], d.parent, kPrime, right)

DeleteOneUp(s) ==
    LET n == s.n
        removed == RemoveEntry(s.tree, n, s.key, s.ptr)
        c == removed.nodes[n]
        parent == removed.nodes[c.parent]
        i == Place(parent.ptrs, n)
        leftmost == i = 1
        p == IF leftmost THEN 1 ELSE i - 1
        neighbor == IF leftmost THEN parent.ptrs[2] ELSE parent.ptrs[p]
        capacity == IF c.leaf THEN order ELSE order - 1
    IN  IF n = Null THEN s
        ELSE IF n = removed.root THEN Deleted(AdjustRoot(removed))
        ELSE IF Len(c.keys) >= MinKeys(c) THEN Deleted(removed)
        ELSE IF Len(removed.nodes[neighbor].keys) + Len(c.keys) >= capacity
        THEN Deleted(Redistribute(removed, n, neighbor, leftmost, p, parent.keys[p]))
        ELSE IF leftmost THEN Coalesce(removed, n, neighbor, parent.keys[p])
        ELSE Coalesce(removed, neighbor, n, parent.keys[p])

\* As for insert_into_parent(), there are no more calls than nodes.
DeleteEntry(T, n, key, ptr) ==
    LET after[i \in 0 .. Cardinality(DOMAIN T.nodes)] ==
            IF i = 0 THEN Deletion(T, n, key, ptr) ELSE DeleteOneUp(after[i - 1])
    IN  after[Cardinality(DOMAIN T.nodes)].tree

-----------------------------------------------------------------------------
(* The commands.                                                           *)

\* insert(): an existing key has its record overwritten.
Insert(key, value) ==
    /\ tree' = IF Find(tree, key) # Null
               THEN [tree EXCEPT !.records[Find(tree, key)] = value]
               ELSE InsertRecord(MakeRecord(tree, key, value), key)
    /\ command' = <<"insert", key, value>>
    /\ UNCHANGED order

\* delete(): nothing happens without the key.
Delete(key) ==
    /\ LET r == Find(tree, key)
       IN  tree' = IF r = Null THEN tree
                   ELSE [DeleteEntry(tree, FindLeaf(tree, key), key, r)
                            EXCEPT !.records = Free(@, r)]
    /\ command' = <<"delete", key>>
    /\ UNCHANGED order

\* The nodes below each node, itself included.
Subtrees(T) ==
    LET below[n \in DOMAIN T.nodes] ==
            {n} \cup (IF T.nodes[n].leaf THEN {}
                      ELSE UNION {below[m] : m \in ToSet(T.nodes[n].ptrs)})
    IN  below

\* destroy_tree() frees the nodes and records it reaches.
Destroyed(T) ==
    LET reached == Subtrees(T)[T.root]
        named == UNION {ToSet(T.nodes[n].ptrs) : n \in {m \in reached : T.nodes[m].leaf}}
    IN  [root |-> Null,
         nodes |-> [n \in DOMAIN T.nodes \ reached |-> T.nodes[n]],
         records |-> [p \in DOMAIN T.records \ named |-> T.records[p]]]

Destroy ==
    /\ tree.root # Null
    /\ tree' = Destroyed(tree)
    /\ command' = <<"destroy">>
    /\ UNCHANGED order

Next ==
    \/ \E key \in Keys : \E value \in Offered[key] : Insert(key, value)
    \/ \E key \in Keys : Delete(key)
    \/ Destroy

Spec == Init /\ [][Next]_vars

-----------------------------------------------------------------------------
(* Correctness                                                             *)

\* The map the tree stands for: what find() returns for every key.
Contents ==
    [k \in {j \in Keys : Find(tree, j) # Null} |-> tree.records[Find(tree, k)]]

Map == INSTANCE KeyMap WITH contents <- Contents

nodes == tree.nodes
Leaves == {n \in DOMAIN nodes : nodes[n].leaf}
Inner == DOMAIN nodes \ Leaves

Nodes ==
    [leaf : BOOLEAN, keys : Seq(Keys), ptrs : Seq(Nat), parent : Nat, next : Nat]

\* Nodes are well formed: as many keys as the arrays of make_node hold, a
\* pointer for each key of a leaf and one more in an inner node.
TypeOK ==
    /\ order \in Orders
    /\ command \in Map!Commands
    /\ tree.root \in DOMAIN nodes \cup {Null}
    /\ tree.nodes \in [DOMAIN nodes -> Nodes]
    /\ tree.records \in [DOMAIN tree.records -> Values]
    /\ DOMAIN tree.records \subseteq Keys
    /\ \A n \in DOMAIN nodes :
          /\ Len(nodes[n].keys) <= order - 1
          /\ Len(nodes[n].ptrs) = Len(nodes[n].keys) + (IF nodes[n].leaf THEN 0 ELSE 1)
          /\ nodes[n].parent \in Inner \cup {Null}
          /\ nodes[n].next \in Leaves \cup {Null}

Subtree(n) == Subtrees(tree)[n]

KeysBelow(n) == UNION {ToSet(nodes[m].keys) : m \in Subtree(n) \cap Leaves}

\* The separators of an inner node bound the keys below the children on their
\* sides, whatever splits, merges and moved entries they went through.
Separated ==
    \A n \in Inner : \A i \in DOMAIN nodes[n].keys :
        /\ \A k \in KeysBelow(nodes[n].ptrs[i]) : k < nodes[n].keys[i]
        /\ \A k \in KeysBelow(nodes[n].ptrs[i + 1]) : k >= nodes[n].keys[i]

Ascending(s) == \A i \in 1 .. (Len(s) - 1) : s[i] < s[i + 1]
Lists(s, S) == Ascending(s) /\ ToSet(s) = S

\* "Every node has at most order - 1 keys and at least (roughly speaking) half
\* that number", the root apart, and every leaf is as deep as the others.
Balanced ==
    /\ \A n \in Leaves \ {tree.root} : 2 * Len(nodes[n].keys) >= order - 1
    /\ \A n \in Inner \ {tree.root} : 2 * Len(nodes[n].ptrs) >= order
    /\ LET depth == PathToRoot(tree) IN \A m, n \in Leaves : depth[m] = depth[n]

\* After any sequence of commands the tree is a B+ tree: ordered, separated
\* and balanced.
WellFormed ==
    /\ \A n \in DOMAIN nodes : Ascending(nodes[n].keys)
    /\ Separated
    /\ Balanced

\* Every child points back to its parent, also after it moved to another one,
\* and the chain of leaves goes through all keys in ascending order.
Linked ==
    /\ \A n \in Inner : \A m \in ToSet(nodes[n].ptrs) : nodes[m].parent = n
    /\ tree.root # Null =>
          /\ nodes[tree.root].parent = Null
          /\ Lists(Along(tree, [n \in DOMAIN nodes |-> nodes[n].keys])[LeftmostLeaf(tree)[tree.root]],
                   KeysBelow(tree.root))

\* The heap holds the nodes of the tree and a record for each key, each named
\* in one leaf: free() is called for what leaves the tree and nothing else.
NothingLeaked ==
    /\ DOMAIN nodes = IF tree.root = Null THEN {} ELSE Subtree(tree.root)
    /\ \A n \in Leaves : nodes[n].ptrs = nodes[n].keys
    /\ DOMAIN tree.records = UNION {ToSet(nodes[n].ptrs) : n \in Leaves}

\* print_tree() prints each node once and each level on a line of its own,
\* the last line in the order of print_leaves(): the queue, the parent
\* pointers and the chain of leaves describe one tree.
LevelsPrinted ==
    LET lines == PrintTree(tree) IN
    /\ ToSet(FlattenSeq(lines)) = DOMAIN nodes
    /\ Len(FlattenSeq(lines)) = Cardinality(DOMAIN nodes)
    /\ \A d \in DOMAIN lines : \A n \in ToSet(lines[d]) : PathToRoot(tree)[n] = d - 1
    /\ lines # <<>> => Last(lines) = PrintLeaves(tree)

\* Looked at through find(), an insert() puts its key and value, a delete()
\* removes its key, destroy_tree() clears the map, and none changes anything
\* else, whatever splits and merges it takes.
ImplementsMap == Map!Spec

Stored == DOMAIN Contents

\* find_range: "Finds keys and their pointers, if present, in the range
\* specified by key_start and key_end, inclusive."
RangesInclusive ==
    \A i, j \in Keys : i <= j => Lists(FindRange(tree, i, j), Stored \cap i .. j)
=============================================================================
