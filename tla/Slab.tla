-------------------------------- MODULE Slab --------------------------------
(***************************************************************************)
(* Slab: the store for the packets with QoS 1 or 2 (slab.rs), a vector of  *)
(* entries that are occupied, or free and chained by next_free.            *)
(* Index i of the code is element i + 1 of store.                          *)
(***************************************************************************)
EXTENDS Integers, Sequences

CONSTANTS
    max_items,      \* u16
    Values          \* the values T the slab stores

ASSUME SlabAssumption ==
    /\ max_items \in Nat /\ max_items <= 65535
    /\ Values \cap Int = {}

\* Option<_>; no index and no value.
None == -1

Indexes == 0..(max_items - 1)

VARIABLES
    next_free,      \* next_free: Option<u16>
    store,          \* store: Vec<Entry<T>>
    call,           \* the last call, with the index it was given
    out             \* what it returned

vars == <<next_free, store, call, out>>

\* enum Entry: an entry has a value or it is free, and then has a next_free.
Free(n) == [value |-> None, next_free |-> n]

Occupied(v) == [value |-> v, next_free |-> None]

IsFree(e) == e.value = None

\* Slab::new
Init ==
    /\ next_free = None
    /\ store = << >>
    /\ call = <<"new", None>>
    /\ out = None

----------------------------------------------------------------------------
(* reserve_next: the next free index, or a new entry at the end.           *)

ReservedIndex ==
    IF next_free # None THEN next_free
    ELSE IF Len(store) < max_items THEN Len(store)
    ELSE None

ReservedStore ==
    IF next_free # None \/ Len(store) >= max_items THEN store
    ELSE Append(store, Free(None))

----------------------------------------------------------------------------
\* insert, and try_insert with a closure that succeeds: Entry::store puts the
\* value in the reserved entry and gives the next free index back.
Insert(v) ==
    /\ ReservedIndex # None
    /\ store' = [ReservedStore EXCEPT ![ReservedIndex + 1] = Occupied(v)]
    /\ next_free' = ReservedStore[ReservedIndex + 1].next_free
    /\ call' = <<"insert", None>>
    /\ out' = ReservedIndex

\* insert and try_insert, no index to reserve.
InsertFull ==
    /\ ReservedIndex = None
    /\ call' = <<"insert", None>>
    /\ out' = None
    /\ UNCHANGED <<next_free, store>>

\* try_insert, the closure fails: the entry stays reserved and free.
TryInsertFails ==
    /\ ReservedIndex # None
    /\ store' = ReservedStore
    /\ call' = <<"insert", None>>
    /\ out' = None
    /\ UNCHANGED next_free

\* Mutant of Remove: the end of the free list is max_items instead of None.
RemoveSentinel(i) ==
    /\ i < Len(store)
    /\ store' = [store EXCEPT ![i + 1] = IF IsFree(@) THEN @ ELSE Free(next_free)]
    /\ call' = <<"remove", i>>
    /\ out' = store[i + 1].value
    /\ next_free' = max_items

\* Mutant of Remove: the index is chained without a look at what was there.
RemoveTwice(i) ==
    /\ i < Len(store)
    /\ store' = [store EXCEPT ![i + 1] = Free(next_free)]
    /\ call' = <<"remove", i>>
    /\ out' = store[i + 1].value
    /\ next_free' = i

\* Mutant of Remove: the value is returned and stays.
RemoveKeeps(i) ==
    /\ i < Len(store)
    /\ call' = <<"remove", i>>
    /\ out' = store[i + 1].value
    /\ UNCHANGED <<next_free, store>>

\* remove: the entry is free and chained in front of next_free; a free entry
\* is put back as it was.
Remove(i) ==
    /\ i < Len(store)
    /\ store' = [store EXCEPT ![i + 1] = IF IsFree(@) THEN @ ELSE Free(next_free)]
    /\ call' = <<"remove", i>>
    /\ out' = store[i + 1].value
    /\ UNCHANGED next_free

\* get, and get_mut with a caller that changes nothing.
Get(i) ==
    /\ i < Len(store)
    /\ call' = <<"get", i>>
    /\ out' = store[i + 1].value
    /\ UNCHANGED <<next_free, store>>

\* get_mut, the caller stores v through the reference.
GetMut(i, v) ==
    /\ i < Len(store)
    /\ ~IsFree(store[i + 1])
    /\ store' = [store EXCEPT ![i + 1] = Occupied(v)]
    /\ call' = <<"get", i>>
    /\ out' = v
    /\ UNCHANGED next_free

\* remove, get and get_mut of an index behind the last entry.
NotThere(i) ==
    /\ i >= Len(store)
    /\ call' \in {"remove", "get"} \X {i}
    /\ out' = None
    /\ UNCHANGED <<next_free, store>>

Next ==
    \/ \E v \in Values : Insert(v)
    \/ InsertFull
    \/ TryInsertFails
    \/ \E i \in Indexes : Remove(i) \/ Get(i) \/ NotThere(i)
    \/ \E i \in Indexes, v \in Values : GetMut(i, v)

Spec == Init /\ [][Next]_vars

----------------------------------------------------------------------------
(* Properties.                                                             *)

Entries == [value : Values \cup {None}, next_free : Indexes \cup {None}]

Calls == {"new", "insert", "remove", "get"} \X (Indexes \cup {None})

TypeOK ==
    /\ next_free \in Indexes \cup {None}
    /\ store \in Seq(Entries)
    /\ call \in Calls
    /\ out \in Values \cup Indexes \cup {None}

(* The index insert is about to use is a free entry or a new one, so the   *)
(* debug_assert of Entry::store holds and no stored packet is overwritten; *)
(* and the vector never grows past max_items.                              *)
StoreIsSafe ==
    /\ Len(store) <= max_items
    /\ ReservedIndex # None =>
        /\ ReservedIndex < Len(ReservedStore)
        /\ IsFree(ReservedStore[ReservedIndex + 1])

----------------------------------------------------------------------------
(* The abstract store this implements.                                     *)

IndexSet == 0..(Len(store) - 1)

Contents ==
    [i \in {j \in IndexSet : ~IsFree(store[j + 1])} |-> store[i + 1].value]

Abstract ==
    INSTANCE PacketStore
        WITH issued <- IndexSet, items <- Contents, asked <- call, answer <- out,
             None <- None

(* Under any sequence of calls the slab behaves as the abstract store: no  *)
(* two packets share an index, get and remove return the packet stored     *)
(* under the index they are given, remove gives it up and a second remove  *)
(* finds nothing, and none is refused while an index was never used.       *)
ImplementsPacketStore == Abstract!Spec

----------------------------------------------------------------------------
(* What the code's comments say, and what does not hold.                   *)

\* An entry that was never used, or is free.
HasSpace(i) == i >= Len(store) \/ IsFree(store[i + 1])

(* "Insert a new value in the first free element if there is still space   *)
(* in the slab", after a remove: an element that was taken out of a slab   *)
(* that was full makes room for the next one.                              *)
RemoveMakesRoom ==
    /\ call[1] = "remove" /\ out # None
    /\ \A i \in Indexes \ {call[2]} : ~HasSpace(i)
    => ReservedIndex # None
=============================================================================
