-------------------------- MODULE Serializability ---------------------------
(***************************************************************************)
(* Conflict serializability of a set of committed transactions.  It is     *)
(* what the two Silo implementations are for; the operators are shared by  *)
(* the modules that model them.                                            *)
(*                                                                         *)
(* A history H is a set of records                                         *)
(*   id      the transaction                                               *)
(*   tid     the TID word it installed in the records it wrote             *)
(*   reads   the set of [key, from]: the keys it read, and the writer of   *)
(*           the value it got (NoTxn for the initial value)                *)
(*   writes  the set of keys it wrote                                      *)
(*                                                                         *)
(* The versions of a key are ordered by the TID words of their writers.    *)
(***************************************************************************)
EXTENDS TidWords, FiniteSets

CONSTANT NoTxn

VersionOf(H, writer) ==
    IF writer = NoTxn THEN ZeroWord
                      ELSE (CHOOSE h \in H : h.id = writer).tid

\* Pairs <<a, b>>: b got the value a wrote.
ReadFromEdges(H) ==
    {ab \in H \X H : \E r \in ab[2].reads : r.from = ab[1].id}

\* Pairs <<a, b>>: a's version of some key precedes b's.
OverwriteEdges(H) ==
    {ab \in H \X H : /\ ab[1].writes \cap ab[2].writes # {}
                     /\ WordLess(ab[1].tid, ab[2].tid)}

\* Pairs <<a, b>>: a read a version of some key that precedes the one b wrote.
AntiDependencyEdges(H) ==
    {ab \in H \X H :
        /\ ab[1] # ab[2]
        /\ \E r \in ab[1].reads :
              /\ r.key \in ab[2].writes
              /\ WordLess(VersionOf(H, r.from), ab[2].tid)}

ConflictEdges(H) ==
    ReadFromEdges(H) \cup OverwriteEdges(H) \cup AntiDependencyEdges(H)

\* Some serial order of the transactions agrees with every edge.
SerialOrderExists(H, edges) ==
    \E position \in [H -> 1 .. Cardinality(H)] :
        \A edge \in edges : position[edge[1]] < position[edge[2]]

ConflictSerializable(H) == SerialOrderExists(H, ConflictEdges(H))
=============================================================================
