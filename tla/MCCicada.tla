------------------------------ MODULE MCCicada ------------------------------
(***************************************************************************)
(* Two threads, the THREAD_NUM of cicada/consts.h, on a table of six       *)
(* tuples.  The leader runs a transaction more than the other thread.      *)
(***************************************************************************)
EXTENDS Cicada

R(k) == [op |-> "read", key |-> k]
W(k) == [op |-> "write", key |-> k]

\* A read-modify-write with a blind write, and a transaction that reads only,
\* both tuples that the other writes.
TwoPrograms == {<<R(1), W(0), W(1)>>, <<R(1), R(0)>>}

LeaderTwice == [t \in Threads |-> IF t = 0 THEN 2 ELSE 1]

SomeCores == {0, 4}
=============================================================================
