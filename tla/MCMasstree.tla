----------------------------- MODULE MCMasstree -----------------------------
(***************************************************************************)
(* Small instances of Masstree: keys of one to three slices in nodes of    *)
(* order 3, where ten keys split interior nodes whose children are         *)
(* interior nodes; and the 24 keys of MasstreeTest.split in nodes of       *)
(* order 16.                                                               *)
(***************************************************************************)
EXTENDS Masstree

S(n) == [slice |-> n, size |-> 1]
F(n) == [slice |-> n, size |-> Full]

\* Keys with different first slices: one, two or three slices.
MixedKeys ==
    {<<S(n)>> : n \in {1, 3, 4, 6, 7, 8, 10}} \cup
    {<<F(2), S(1)>>, <<F(5), F(1), S(1)>>, <<F(9)>>}

\* Bound: each key has one value, its own; one key has two.
OwnValue == [k \in Keys |-> {k[1].slice} \cup (IF k[1].slice = 3 THEN {11} ELSE {})]

Slots == {ni \in Borders \X (1 .. (Order - 1)) : ni[2] <= Len(nodes[ni[1]].slots)}

\* Bound: the keys of one slice are first inserted in ascending order, the
\* others at any time, and there are no more slots than keys (a key that is no
\* longer found is inserted again).
FewOrders ==
    /\ Cardinality(Slots) <= Cardinality(Keys)
    /\ \A j, k \in Keys :
          Len(j) = 1 /\ Len(k) = 1 /\ j[1].slice < k[1].slice /\ last[k] # 0 => last[j] # 0

\* Bound: i is inserted with the value i.
OnlyValue == [k \in Keys |-> {k[1].slice}]

TestKeys == {<<S(n)>> : n \in 1 .. 24}

\* Bound: the keys are inserted in ascending order.
InTestOrder ==
    \A j, k \in Keys : j[1].slice < k[1].slice /\ last[k] # 0 => last[j] # 0
=============================================================================
