------------------------- MODULE SerializableStore --------------------------
(***************************************************************************)
(* What a serializable store promises, without locks, read sets or epochs: *)
(* transactions commit one at a time, each commit leaves a serializable    *)
(* history, and the version of a record is replaced only by a later one,   *)
(* of a transaction that has committed.  The protocol modules are shown to *)
(* implement it.                                                           *)
(***************************************************************************)
EXTENDS Serializability

CONSTANT Keys

VARIABLES
    history,    \* the committed transactions
    installed   \* the TID of the current version of each record

vars == <<history, installed>>

Init ==
    /\ history = {}
    /\ installed \in [Keys -> Words]

\* A transaction commits once, having read values of committed transactions.
Commit(h) ==
    /\ \A g \in history : g.id # h.id
    /\ \A r \in h.reads :
          r.from = NoTxn \/ \E g \in history : g.id = r.from /\ r.key \in g.writes
    /\ history' = history \cup {h}
    /\ ConflictSerializable(history')
    /\ UNCHANGED installed

Install(h, k) ==
    /\ k \in h.writes
    /\ WordLess(installed[k], h.tid)
    /\ installed' = [installed EXCEPT ![k] = h.tid]
    /\ UNCHANGED history

Next ==
    \/ \E h \in history' \ history : Commit(h)
    \/ \E h \in history : \E k \in Keys : Install(h, k)

Spec == Init /\ [][Next]_vars
=============================================================================
