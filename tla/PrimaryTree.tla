---------------------------- MODULE PrimaryTree ----------------------------
(***************************************************************************)
(* KVSilo::PrimaryTree: the tree of bptree/main.c, ported function by      *)
(* function without deletion, of order 4 and filled by its constructor.    *)
(* The functions are those of BPTree under the names of the port.          *)
(*                                                                         *)
(* Where main.c keeps the root in main(), the port has a member that       *)
(* insert() reads and returns a new value of: the caller stores it.        *)
(***************************************************************************)
EXTENDS BPTree

CONSTANT Preloaded  \* the keys the constructor inserts are 1 .. Preloaded

ASSUME PrimaryTreeAssumption ==
    /\ 4 \in Orders
    /\ Preloaded \in Nat
    /\ 1 .. Preloaded \subseteq {k \in Keys : k \in Offered[k]}

portOrder == 4

find(key) == Find(tree, key)

findRange(keyStart, keyEnd) == FindRange(tree, keyStart, keyEnd)

insertIntoLeaf(T, leaf, key) == InsertIntoLeaf(T, leaf, key, key)

\* The leaf is full: it is split, and the nodes above it as far as they are.
insertAfterSplitting(T, leaf, key) == SplitLeaf(T, leaf, key, key)

\* The value of a record that exists is stored in it without lock or TID.
insert(T, key, value) ==
    LET leaf == FindLeaf(T, key)
        made == MakeRecord(T, key, value)
    IN  IF Find(T, key) # Null THEN [T EXCEPT !.records[key] = value]
        ELSE IF T.root = Null THEN StartNewTree(made, key, key)
        ELSE IF HasRoom(T.nodes[leaf]) THEN insertIntoLeaf(made, leaf, key)
        ELSE insertAfterSplitting(made, leaf, key)

PortInit == order = portOrder /\ tree = EmptyTree /\ command = <<>>

\* The constructor's "root = insert(i, i)".
constructed == Cardinality(DOMAIN tree.records)
Preload ==
    /\ constructed < Preloaded
    /\ tree' = insert(tree, constructed + 1, constructed + 1)
    /\ command' = <<"insert", constructed + 1, constructed + 1>>
    /\ UNCHANGED order

Store(key, value) ==
    /\ constructed >= Preloaded
    /\ tree' = insert(tree, key, value)
    /\ command' = <<"insert", key, value>>
    /\ UNCHANGED order

\* read() and write() assert that the key has a record.
write(key, value) ==
    /\ constructed >= Preloaded
    /\ find(key) # Null
    /\ tree' = [tree EXCEPT !.records[find(key)] = value]
    /\ command' = <<"write", key, value>>
    /\ UNCHANGED order

PortNext ==
    \/ Preload
    \/ \E key \in Keys : \E value \in Offered[key] : Store(key, value) \/ write(key, value)

PortSpec == PortInit /\ [][PortNext]_vars

-----------------------------------------------------------------------------
(* Correctness                                                             *)

\* A range that starts at a stored key is returned whole and in order, across
\* as many leaves as it spans, and no range of ordered bounds has more entries
\* than the arrays findAndPrintRange() makes for it: key_end - key_start + 1.
RangesFromKeys ==
    LET stored == Stored IN
    \A i, j \in Keys : i <= j =>
        LET found == findRange(i, j) IN
        /\ Len(found) <= j - i + 1
        /\ i \in stored => Lists(found, stored \cap i .. j)
=============================================================================
