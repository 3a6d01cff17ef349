----------------------------- MODULE MCKVSystem -----------------------------
(***************************************************************************)
(* A small database: two workers and two clients whose queries meet in one *)
(* record.  MCKVSilo has the queries over more records.                    *)
(***************************************************************************)
EXTENDS KVSystem

CONSTANTS
    c1, c2,
    MaxIncrements  \* bound: how often the leader advances E

VARIABLE increments

R(k) == [op |-> "read", key |-> k]
W(k) == [op |-> "write", key |-> k]

\* The query that races with itself: a read-modify-write.
OneAccount == {<<R(1), W(1)>>}

OneEach == [c \in Clients |-> 1]

\* From any E, as many increments as the bound allows.
BoundedInit == SystemInit /\ increments = 0

BoundedNext ==
    /\ SystemNext
    /\ increments' = increments + (IF leader = "sleep" /\ E' # E THEN 1 ELSE 0)
    /\ increments' <= MaxIncrements

BoundedSystem == BoundedInit /\ [][BoundedNext]_<<allVars, increments>> /\ Fairness
=============================================================================
