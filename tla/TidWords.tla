------------------------------ MODULE TidWords ------------------------------
(***************************************************************************)
(* The 64-bit TID word both Silo implementations keep in every record      *)
(* (kvsilo/record.h, silo/tuple.h).  Its bit fields, from the least        *)
(* significant: lock:1, latest:1, absent:1, tid:29, epoch:32.  Words are   *)
(* compared by their whole body, that is by epoch, then tid, then lock.    *)
(*                                                                         *)
(* In every word a record holds latest is set and absent is clear, from    *)
(* the record's creation on (a new TID sets latest again): both are left   *)
(* out.  The two counters keep their width: TidMod stands for 2^29 and     *)
(* EpochMod for 2^32.                                                      *)
(***************************************************************************)
EXTENDS Integers

CONSTANTS
    TidMod,    \* number of values of the tid field
    EpochMod   \* number of values of the epoch field

ASSUME WidthAssumption ==
    /\ TidMod \in Nat \ {0}
    /\ EpochMod \in Nat \ {0}

Epochs == 0 .. (EpochMod - 1)

Words == [epoch : Epochs, tid : 0 .. (TidMod - 1), lock : 0 .. 1]

\* The word of a fresh record, and of a default-constructed TidWord.
ZeroWord == [epoch |-> 0, tid |-> 0, lock |-> 0]

\* operator<: the order of the 64-bit bodies.
WordLess(a, b) ==
    \/ a.epoch < b.epoch
    \/ a.epoch = b.epoch /\ a.tid < b.tid
    \/ a.epoch = b.epoch /\ a.tid = b.tid /\ a.lock < b.lock

\* std::max on words.
WordMax(a, b) == IF WordLess(a, b) THEN b ELSE a

\* "word.tid++" on a 29-bit field: the carry is lost, the epoch is untouched.
NextTid(w) == [w EXCEPT !.tid = (@ + 1) % TidMod]

Locked(w) == [w EXCEPT !.lock = 1]
Unlocked(w) == [w EXCEPT !.lock = 0]
=============================================================================
