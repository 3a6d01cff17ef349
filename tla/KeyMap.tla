------------------------------- MODULE KeyMap -------------------------------
(***************************************************************************)
(* What an index promises: a map from keys to values, whatever shape it    *)
(* has inside, and of each command exactly the change it is named for.     *)
(***************************************************************************)
CONSTANTS Keys, Values

VARIABLES
    contents,
    command   \* the last command, with its arguments

vars == <<contents, command>>

None == <<>>

Commands ==
    {None, <<"destroy">>} \cup ({"delete"} \X Keys) \cup ({"insert", "write"} \X Keys \X Values)

Empty == [k \in {} |-> k]
Put(m, k, v) == [j \in DOMAIN m \cup {k} |-> IF j = k THEN v ELSE m[j]]
Without(m, k) == [j \in DOMAIN m \ {k} |-> m[j]]

Init == contents = Empty /\ command = None

Insert(k, v) ==
    /\ command' = <<"insert", k, v>>
    /\ contents' = Put(contents, k, v)

\* Only for a key that is there.
Write(k, v) ==
    /\ k \in DOMAIN contents
    /\ command' = <<"write", k, v>>
    /\ contents' = Put(contents, k, v)

Delete(k) ==
    /\ command' = <<"delete", k>>
    /\ contents' = Without(contents, k)

Destroy ==
    /\ command' = <<"destroy">>
    /\ contents' = Empty

Next ==
    \/ \E k \in Keys, v \in Values : Insert(k, v) \/ Write(k, v)
    \/ \E k \in Keys : Delete(k)
    \/ Destroy

Spec == Init /\ [][Next]_vars
=============================================================================
