------------------------------ MODULE MCBPTree ------------------------------
(***************************************************************************)
(* Small trees: main.c's, and the port in kvsilo/.  With seven keys a tree *)
(* of order 3 splits, merges and redistributes inner nodes on both sides;  *)
(* one of order 4 needs ten and moves entries between leaves too.  The     *)
(* port starts with eight, which fill its root, and gets four more.        *)
(***************************************************************************)
EXTENDS PrimaryTree

VARIABLE program  \* "bptree" or "kvsilo"

BothInit ==
    \/ program = "bptree" /\ Init
    \/ program = "kvsilo" /\ PortInit

BothNext ==
    /\ UNCHANGED program
    /\ \/ program = "bptree" /\ Next
       \/ program = "kvsilo" /\ PortNext

BothSpec == BothInit /\ [][BothNext]_<<program, vars>>

SomeKeys == 1 .. 12

\* Bound: the keys of a tree of main.c, by its order.
FewKeys ==
    program = "bptree" =>
        DOMAIN tree.records \subseteq (IF order = 3 THEN 1 .. 7 ELSE 1 .. 10)

\* Bound: each key has a value of its own, one may be given another.
OneKeyChanges == [k \in SomeKeys |-> IF k = 5 THEN {5, 6} ELSE {k}]

\* States that differ only in the addresses of the nodes are one: nodes are
\* numbered in the order a walk from the root meets them.  The others count,
\* and a state with a malformed node is never taken for one without.  The last
\* command changes nothing that follows: every step is checked against its own.
RECURSIVE Walk(_)
Walk(n) ==
    <<n>> \o (IF nodes[n].leaf THEN <<>> ELSE FlattenSeq([i \in DOMAIN nodes[n].ptrs |->
                                                        Walk(nodes[n].ptrs[i])]))

TreeView ==
    LET walk == IF tree.root = Null THEN <<>> ELSE Walk(tree.root)
        number(n) == IF n = Null THEN 0 ELSE First(walk, LAMBDA m : m = n)
        seen(c) == [c EXCEPT !.ptrs = IF c.leaf THEN @ ELSE [i \in DOMAIN @ |-> number(@[i])],
                             !.parent = number(@), !.next = number(@)]
    IN  <<program, order, TypeOK, [i \in DOMAIN walk |-> seen(nodes[walk[i]])], tree.records,
          Cardinality(DOMAIN nodes)>>
=============================================================================
