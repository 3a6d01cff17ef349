------------------------------ MODULE MCKVSilo ------------------------------
(***************************************************************************)
(* Small instances of KVSilo.  The queries are picked from a few shapes:   *)
(* read-modify-write of one record, reads and writes of two records in     *)
(* both orders, and the transfer of kvsilo/main.cpp.                       *)
(***************************************************************************)
EXTENDS KVSilo, TLC

R(k) == [op |-> "read", key |-> k]
W(k) == [op |-> "write", key |-> k]

\* Lost update, write skew, and writes of both records in opposite orders.
MixedPrograms ==
    {<<R(1), W(1)>>, <<R(1), W(2)>>, <<R(2), W(1)>>, <<W(2), W(1)>>}

\* The two transfers of kvsilo/main.cpp, between records 5 and 6 there.
Transfers ==
    {<<R(1), W(1), R(2), W(2)>>, <<R(2), W(2), R(1), W(1)>>}

\* A query that writes the same record twice.
Rewrites == {<<W(1), W(1)>>}

TxnSymmetry == Permutations(Txns)
=============================================================================
