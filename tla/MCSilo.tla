------------------------------- MODULE MCSilo -------------------------------
(***************************************************************************)
(* Small instances of Silo.  RATIO is 50, so a step is a read or a write   *)
(* with the same probability, of any key: repeated accesses included.      *)
(***************************************************************************)
EXTENDS Silo

R(k) == [op |-> "read", key |-> k]
W(k) == [op |-> "write", key |-> k]

\* Read-modify-write of one record, write skew both ways (with a key read
\* twice), opposite lock orders, a key written and then read, a key written
\* twice, no write at all.
MixedSteps ==
    {<<R(1)>>, <<R(1), W(1)>>, <<R(1), W(2)>>, <<R(2), W(1), R(2)>>,
     <<W(2), W(1), R(2)>>, <<W(1), W(2), W(1)>>}

LeaderTwice == [w \in Workers |-> IF w = Leader THEN 2 ELSE 1]
=============================================================================
