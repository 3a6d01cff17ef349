---------------------------- MODULE MCKVDatabase ----------------------------
(***************************************************************************)
(* Small instances of KVDatabase: as many workers and clients as can be in *)
(* each other's way, and a client with more than one query.                *)
(***************************************************************************)
EXTENDS KVDatabase

CONSTANTS c1, c2

TwoAndOne == [c \in Clients |-> IF c = c1 THEN 2 ELSE 1]
=============================================================================
