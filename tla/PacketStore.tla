---------------------------- MODULE PacketStore ----------------------------
(***************************************************************************)
(* What a store of in-flight packets promises: every packet it holds has   *)
(* an index of its own, stays as it is until it is changed or removed      *)
(* under that index, and the store takes packets until every index has     *)
(* been given out once.                                                    *)
(***************************************************************************)
CONSTANTS
    Indexes,        \* the indexes the store may give out
    Values,         \* the packets
    None            \* no packet and no index

VARIABLES
    issued,         \* the indexes given out so far
    items,          \* the packets held, by index
    asked,          \* the last call, with the index it was given
    answer          \* what it returned

vars == <<issued, items, asked, answer>>

Init ==
    /\ issued = {}
    /\ items = [i \in {} |-> None]
    /\ asked = <<"new", None>>
    /\ answer = None

Held == DOMAIN items

\* Hold v under an index no other packet has.
Put(v) ==
    \E i \in Indexes \ Held :
        /\ issued' = issued \cup {i}
        /\ items' = [j \in Held \cup {i} |-> IF j = i THEN v ELSE items[j]]
        /\ asked' = <<"insert", None>>
        /\ answer' = i

\* The caller gives up after it was given an index.
Abandon ==
    \E i \in Indexes \ Held :
        /\ issued' = issued \cup {i}
        /\ asked' = <<"insert", None>>
        /\ answer' = None
        /\ UNCHANGED items

\* Every index has been given out.
Refuse ==
    /\ issued = Indexes
    /\ asked' = <<"insert", None>>
    /\ answer' = None
    /\ UNCHANGED <<issued, items>>

Take(i) ==
    /\ i \in Held
    /\ items' = [j \in Held \ {i} |-> items[j]]
    /\ asked' = <<"remove", i>>
    /\ answer' = items[i]
    /\ UNCHANGED issued

\* There is nothing to take.
Miss(i) ==
    /\ i \notin Held
    /\ asked' = <<"remove", i>>
    /\ answer' = None
    /\ UNCHANGED <<issued, items>>

Change(i, v) ==
    /\ i \in Held
    /\ items' = [items EXCEPT ![i] = v]
    /\ asked' = <<"get", i>>
    /\ answer' = v
    /\ UNCHANGED issued

Look(i) ==
    /\ asked' = <<"get", i>>
    /\ answer' = IF i \in Held THEN items[i] ELSE None
    /\ UNCHANGED <<issued, items>>

Next ==
    \/ \E v \in Values : Put(v)
    \/ Abandon
    \/ Refuse
    \/ \E i \in Indexes : Take(i) \/ Miss(i) \/ Look(i)
    \/ \E i \in Indexes, v \in Values : Change(i, v)

Spec == Init /\ [][Next]_vars
=============================================================================
