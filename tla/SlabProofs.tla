----------------------------- MODULE SlabProofs -----------------------------
(***************************************************************************)
(* The slab implements the abstract packet store, for every max_items and  *)
(* every set of values.  Both facts rest on one observation: remove does   *)
(* not set next_free, so no free entry is ever chained and every insert    *)
(* takes a new entry at the end of the vector.                             *)
(***************************************************************************)
EXTENDS Slab, TLAPS

Unchained ==
    /\ next_free = None
    /\ Len(store) <= max_items
    /\ \A i \in 1..Len(store) : store[i].next_free = None

IndInv == TypeOK /\ Unchained

\* The values are not integers, so an occupied entry is never a free one.
LEMMA NoneIsNoValue == \A v \in Values : v # None
  BY SlabAssumption DEF None

\* A new slab has no entry at all.
LEMMA InitIndInv == Init => IndInv
  BY SlabAssumption DEF Init, IndInv, TypeOK, Unchained, None, Calls

\* While nothing is chained, reserve_next pushes or refuses.
LEMMA Reserve ==
    ASSUME IndInv
    PROVE  /\ ReservedIndex # None => Len(store) < max_items
           /\ Len(store) < max_items =>
                ReservedIndex = Len(store) /\ ReservedStore = Append(store, Free(None))
  BY SlabAssumption DEF IndInv, Unchained, TypeOK, ReservedIndex, ReservedStore, None

\* Entries are what the constructors make, and Entries holds.
LEMMA EntryFacts ==
    /\ Free(None) \in Entries
    /\ \A v \in Values : Occupied(v) \in Entries
  BY DEF Free, Occupied, Entries

\* What insert makes of the vector: one more occupied entry at its end.
LEMMA InsertPushes ==
    ASSUME IndInv, NEW v \in Values, Insert(v)
    PROVE  /\ Len(store) < max_items
           /\ store' = Append(store, Occupied(v))
           /\ next_free' = None
           /\ out' = Len(store)
  <1>1. Len(store) < max_items /\ ReservedIndex = Len(store)
            /\ ReservedStore = Append(store, Free(None))
    BY Reserve DEF Insert
  <1>2. store \in Seq(Entries) /\ Len(store) \in Nat
    BY DEF IndInv, TypeOK
  <1>3. [Append(store, Free(None)) EXCEPT ![Len(store) + 1] = Occupied(v)]
            = Append(store, Occupied(v))
    <2>1. \A e \in Entries : /\ Append(store, e) \in Seq(Entries)
                             /\ Len(Append(store, e)) = Len(store) + 1
                             /\ Append(store, e)[Len(store) + 1] = e
                             /\ \A i \in 1..Len(store) : Append(store, e)[i] = store[i]
      BY <1>2
    <2>2. Free(None) \in Entries /\ Occupied(v) \in Entries
      BY EntryFacts
    <2> DEFINE A == Append(store, Free(None))
               B == Append(store, Occupied(v))
               C == [A EXCEPT ![Len(store) + 1] = Occupied(v)]
    <2>3. /\ A \in Seq(Entries) /\ Len(A) = Len(store) + 1
          /\ B \in Seq(Entries) /\ Len(B) = Len(store) + 1
          /\ A[Len(store) + 1] = Free(None) /\ B[Len(store) + 1] = Occupied(v)
          /\ \A i \in 1..Len(store) : A[i] = B[i]
      BY <2>1, <2>2
    <2> HIDE DEF A, B
    <2>4. C \in Seq(Entries) /\ Len(C) = Len(store) + 1
      BY <2>2, <2>3, <1>2
    <2>5. \A i \in 1..(Len(store) + 1) : C[i] = B[i]
      BY <2>3, <1>2
    <2>6. C = B
      BY <2>3, <2>4, <2>5, <1>2
    <2> QED
      BY <2>6 DEF A, B
  <1>4. Append(store, Free(None))[Len(store) + 1].next_free = None
    BY <1>2, EntryFacts DEF Free
  <1> QED
    BY <1>1, <1>3, <1>4 DEF Insert

\* try_insert with a failing closure leaves one more free entry at the end.
LEMMA FailurePushes ==
    ASSUME IndInv, TryInsertFails
    PROVE  /\ Len(store) < max_items
           /\ store' = Append(store, Free(None))
           /\ next_free' = None
  BY Reserve DEF TryInsertFails, IndInv, Unchained

\* Every step names a call.
LEMMA CallTyped == TypeOK /\ [Next]_vars => call' \in Calls
  <1> USE DEF Calls
  <1>1. ASSUME NEW v \in Values, Insert(v) PROVE call' \in Calls
    BY <1>1 DEF Insert
  <1>2. ASSUME InsertFull \/ TryInsertFails PROVE call' \in Calls
    BY <1>2 DEF InsertFull, TryInsertFails
  <1>3. ASSUME NEW i \in Indexes, Remove(i) \/ Get(i) \/ NotThere(i) PROVE call' \in Calls
    BY <1>3 DEF Remove, Get, NotThere
  <1>4. ASSUME NEW i \in Indexes, NEW v \in Values, GetMut(i, v) PROVE call' \in Calls
    BY <1>4 DEF GetMut
  <1>5. ASSUME TypeOK, UNCHANGED vars PROVE call' \in Calls
    BY <1>5 DEF TypeOK, vars
  <1> QED
    BY <1>1, <1>2, <1>3, <1>4, <1>5 DEF Next

\* Every call keeps the entries unchained.
LEMMA NextIndInv == IndInv /\ [Next]_vars => IndInv'
  <1> SUFFICES ASSUME IndInv, [Next]_vars PROVE IndInv'
    OBVIOUS
  <1> USE DEF IndInv
  <1>c. call' \in Calls
    BY CallTyped
  <1>0. store \in Seq(Entries) /\ Len(store) \in Nat /\ max_items \in Nat
    BY SlabAssumption DEF TypeOK
  <1>push. ASSUME NEW e \in Entries, e.next_free = None, store' = Append(store, e),
                  next_free' = None, Len(store) < max_items,
                  out' \in Values \cup Indexes \cup {None}
           PROVE  IndInv'
    <2>1. store' \in Seq(Entries) /\ Len(store') = Len(store) + 1
      BY <1>push, <1>0
    <2>2. \A i \in 1..Len(store') : store'[i].next_free = None
      BY <1>push, <1>0 DEF Unchained
    <2> QED
      BY <1>c, <1>push, <1>0, <2>1, <2>2 DEF TypeOK, Unchained
  <1>1. ASSUME NEW v \in Values, Insert(v) PROVE IndInv'
    <2>1. Len(store) \in Indexes
      BY <1>0, <1>1, InsertPushes DEF Indexes
    <2> QED
      BY <1>1, <1>push, <2>1, InsertPushes, EntryFacts DEF Occupied
  <1>2. CASE InsertFull
    BY <1>c, <1>2 DEF InsertFull, TypeOK, Unchained
  <1>3. CASE TryInsertFails
    <2>1. out' = None
      BY <1>3 DEF TryInsertFails
    <2> QED
      BY <1>3, <1>push, <2>1, FailurePushes, EntryFacts DEF Free
  <1>4. ASSUME NEW i \in Indexes, Remove(i) PROVE IndInv'
    <2>1. i + 1 \in 1..Len(store) /\ store[i + 1] \in Entries
      BY <1>0, <1>4 DEF Remove, Indexes
    <2>2. store[i + 1].value \in Values \cup {None}
      BY <2>1 DEF Entries
    <2>3. PICK e \in Entries : e.next_free = None /\ store' = [store EXCEPT ![i + 1] = e]
      BY <1>4, <2>1, EntryFacts DEF Remove, Unchained, Free
    <2>4. store' \in Seq(Entries) /\ Len(store') = Len(store)
      BY <1>0, <2>1, <2>3
    <2>5. \A j \in 1..Len(store') : store'[j].next_free = None
      BY <1>0, <2>1, <2>3 DEF Unchained
    <2> QED
      BY <1>c, <1>0, <1>4, <2>2, <2>4, <2>5 DEF Remove, TypeOK, Unchained
  <1>5. ASSUME NEW i \in Indexes, Get(i) PROVE IndInv'
    <2>1. store[i + 1] \in Entries
      BY <1>0, <1>5 DEF Get, Indexes
    <2> QED
      BY <1>c, <1>5, <2>1 DEF Get, TypeOK, Unchained, Entries
  <1>6. ASSUME NEW i \in Indexes, NotThere(i) PROVE IndInv'
    BY <1>c, <1>6 DEF NotThere, TypeOK, Unchained
  <1>7. ASSUME NEW i \in Indexes, NEW v \in Values, GetMut(i, v) PROVE IndInv'
    <2>1. i + 1 \in 1..Len(store) /\ store[i + 1] \in Entries
      BY <1>0, <1>7 DEF GetMut, Indexes
    <2>2. PICK e \in Entries : e.next_free = None /\ store' = [store EXCEPT ![i + 1] = e]
      BY <1>7, <2>1, EntryFacts DEF GetMut, Occupied
    <2>3. store' \in Seq(Entries) /\ Len(store') = Len(store)
      BY <1>0, <2>1, <2>2
    <2>4. \A j \in 1..Len(store') : store'[j].next_free = None
      BY <1>0, <2>1, <2>2 DEF Unchained
    <2> QED
      BY <1>c, <1>0, <1>7, <2>3, <2>4 DEF GetMut, TypeOK, Unchained
  <1>8. CASE UNCHANGED vars
    BY <1>c, <1>8 DEF vars, TypeOK, Unchained
  <1> QED
    BY <1>1, <1>2, <1>3, <1>4, <1>5, <1>6, <1>7, <1>8 DEF Next

(* Every reachable state has the types the code declares.                  *)
THEOREM SlabTypeCorrect == Spec => []TypeOK
  <1>1. IndInv => TypeOK
    BY DEF IndInv
  <1> QED
    BY <1>1, InitIndInv, NextIndInv, PTL DEF Spec

(* insert never overwrites a stored packet and the vector never grows past *)
(* max_items.                                                              *)
THEOREM SlabStoreIsSafe == Spec => []StoreIsSafe
  <1>1. IndInv => StoreIsSafe
    <2> SUFFICES ASSUME IndInv PROVE StoreIsSafe
      OBVIOUS
    <2>1. ASSUME ReservedIndex # None
          PROVE  ReservedIndex < Len(ReservedStore) /\ IsFree(ReservedStore[ReservedIndex + 1])
      <3>1. ReservedIndex = Len(store) /\ ReservedStore = Append(store, Free(None))
        BY <2>1, Reserve
      <3> QED
        BY <3>1, EntryFacts DEF IndInv, TypeOK, IsFree, Free
    <2> QED
      BY <2>1 DEF IndInv, Unchained, StoreIsSafe
  <1> QED
    BY <1>1, InitIndInv, NextIndInv, PTL DEF Spec

----------------------------------------------------------------------------
(* Refinement.                                                             *)

\* The indexes of the entries that hold a value.
Busy == {i \in IndexSet : ~IsFree(store[i + 1])}

\* Contents is a function on the busy indexes.
LEMMA ContentsDomain == /\ DOMAIN Contents = Busy
                        /\ \A i \in Busy : Contents[i] = store[i + 1].value
                        /\ Contents = [i \in Busy |-> store[i + 1].value]
  BY DEF Contents, Busy

\* What one more entry at the end does to the busy indexes and the contents.
LEMMA PushedContents ==
    ASSUME IndInv, NEW e \in Entries, store' = Append(store, e)
    PROVE  /\ IndexSet' = IndexSet \cup {Len(store)}
           /\ Len(store) \notin IndexSet
           /\ IsFree(e) => Contents' = Contents
           /\ ~IsFree(e) =>
                Contents' = [j \in Busy \cup {Len(store)} |->
                                IF j = Len(store) THEN e.value ELSE Contents[j]]
  <1>1. store \in Seq(Entries) /\ Len(store) \in Nat
    BY DEF IndInv, TypeOK
  <1>2. /\ Len(store') = Len(store) + 1
        /\ store'[Len(store) + 1] = e
        /\ \A i \in IndexSet : store'[i + 1] = store[i + 1]
    BY <1>1 DEF IndexSet
  <1>3. IndexSet' = IndexSet \cup {Len(store)} /\ Len(store) \notin IndexSet
    BY <1>1, <1>2 DEF IndexSet
  <1>4. Busy' = IF IsFree(e) THEN Busy ELSE Busy \cup {Len(store)}
    BY <1>2, <1>3 DEF Busy, IsFree
  <1>5. Contents' = [i \in Busy' |-> store'[i + 1].value]
    BY DEF Contents, Busy
  <1>6. \A i \in Busy : store'[i + 1].value = Contents[i] /\ i # Len(store)
    BY <1>2, <1>3, ContentsDomain DEF Busy
  <1>7. ASSUME IsFree(e) PROVE Contents' = Contents
    BY <1>4, <1>5, <1>6, <1>7, ContentsDomain
  <1>8. ASSUME ~IsFree(e)
        PROVE  Contents' = [j \in Busy \cup {Len(store)} |->
                                IF j = Len(store) THEN e.value ELSE Contents[j]]
    BY <1>2, <1>4, <1>5, <1>6, <1>8
  <1> QED
    BY <1>3, <1>7, <1>8

\* What a new entry at a busy index does to them.
LEMMA ReplacedContents ==
    ASSUME IndInv, NEW i \in Busy, NEW e \in Entries,
           store' = [store EXCEPT ![i + 1] = e]
    PROVE  /\ IndexSet' = IndexSet
           /\ IsFree(e) => Contents' = [j \in Busy \ {i} |-> Contents[j]]
           /\ ~IsFree(e) => Contents' = [Contents EXCEPT ![i] = e.value]
  <1>1. store \in Seq(Entries) /\ Len(store) \in Nat /\ i \in IndexSet
    BY DEF IndInv, TypeOK, Busy
  <1>2. /\ Len(store') = Len(store)
        /\ store'[i + 1] = e
        /\ \A j \in IndexSet : j # i => store'[j + 1] = store[j + 1]
    BY <1>1 DEF IndexSet
  <1>3. IndexSet' = IndexSet
    BY <1>2 DEF IndexSet
  <1>4. Busy' = IF IsFree(e) THEN Busy \ {i} ELSE Busy
    BY <1>1, <1>2, <1>3 DEF Busy, IsFree
  <1>5. Contents' = [j \in Busy' |-> store'[j + 1].value]
    BY DEF Contents, Busy
  <1>6. \A j \in Busy : j # i => store'[j + 1].value = Contents[j]
    BY <1>2, ContentsDomain DEF Busy
  <1>7. ASSUME IsFree(e) PROVE Contents' = [j \in Busy \ {i} |-> Contents[j]]
    BY <1>4, <1>5, <1>6, <1>7
  <1>8. ASSUME ~IsFree(e) PROVE Contents' = [Contents EXCEPT ![i] = e.value]
    BY <1>2, <1>4, <1>5, <1>6, <1>8, ContentsDomain
  <1> QED
    BY <1>3, <1>7, <1>8

\* Nothing changes but the answer: a look at the store.
LEMMA LookStep ==
    ASSUME IndInv, NEW i \in Indexes, UNCHANGED store, call' = <<"get", i>>,
           out' = IF i \in Busy THEN store[i + 1].value ELSE None
    PROVE  Abstract!Next
  <1>1. IndexSet' = IndexSet /\ Contents' = Contents
    BY DEF IndexSet, Contents, IsFree
  <1>2. Abstract!Look(i)
    BY <1>1, ContentsDomain DEF Abstract!Look, Abstract!Held
  <1> QED
    BY <1>2 DEF Abstract!Next

\* Nothing to remove at the index.
LEMMA MissStep ==
    ASSUME IndInv, NEW i \in Indexes \ Busy, UNCHANGED store,
           call' = <<"remove", i>>, out' = None
    PROVE  Abstract!Next
  <1>1. IndexSet' = IndexSet /\ Contents' = Contents
    BY DEF IndexSet, Contents, IsFree
  <1>2. Abstract!Miss(i)
    BY <1>1, ContentsDomain DEF Abstract!Miss, Abstract!Held
  <1> QED
    BY <1>2 DEF Abstract!Next

\* Every call is a call of the abstract store, or changes nothing of it.
LEMMA NextImplements == IndInv /\ [Next]_vars => [Abstract!Next]_(Abstract!vars)
  <1> SUFFICES ASSUME IndInv, [Next]_vars PROVE [Abstract!Next]_(Abstract!vars)
    OBVIOUS
  <1>0. /\ store \in Seq(Entries) /\ Len(store) \in Nat /\ max_items \in Nat
        /\ Len(store) <= max_items
    BY SlabAssumption DEF IndInv, TypeOK, Unchained
  <1>a. \A i \in Indexes : i < Len(store) <=> i \in IndexSet
    BY <1>0 DEF Indexes, IndexSet
  <1>b. IndexSet \subseteq Indexes
    BY <1>0 DEF Indexes, IndexSet
  <1>1. ASSUME NEW v \in Values, Insert(v) PROVE Abstract!Next
    <2>1. /\ Len(store) < max_items /\ store' = Append(store, Occupied(v))
          /\ out' = Len(store) /\ call' = <<"insert", None>>
      BY <1>1, InsertPushes DEF Insert
    <2>2. Occupied(v) \in Entries /\ ~IsFree(Occupied(v)) /\ Occupied(v).value = v
      BY EntryFacts, NoneIsNoValue DEF Occupied, IsFree
    <2>3. /\ IndexSet' = IndexSet \cup {Len(store)}
          /\ Len(store) \notin IndexSet
          /\ Contents' = [j \in Busy \cup {Len(store)} |->
                            IF j = Len(store) THEN v ELSE Contents[j]]
      BY <2>1, <2>2, PushedContents
    <2>4. Len(store) \in Indexes
      BY <1>0, <2>1 DEF Indexes
    <2>5. Abstract!Put(v)
      BY <2>1, <2>3, <2>4, ContentsDomain DEF Abstract!Put, Abstract!Held, Busy
    <2> QED
      BY <2>5 DEF Abstract!Next
  <1>2. CASE InsertFull
    <2>1. Len(store) = max_items
      BY <1>0, <1>2, Reserve DEF InsertFull, None
    <2>2. IndexSet = Indexes /\ IndexSet' = IndexSet /\ Contents' = Contents
      BY <1>2, <2>1 DEF InsertFull, IndexSet, Indexes, Contents, IsFree
    <2>3. Abstract!Refuse
      BY <1>2, <2>2 DEF InsertFull, Abstract!Refuse
    <2> QED
      BY <2>3 DEF Abstract!Next
  <1>3. CASE TryInsertFails
    <2>1. Len(store) < max_items /\ store' = Append(store, Free(None))
      BY <1>3, FailurePushes
    <2>2. Free(None) \in Entries /\ IsFree(Free(None))
      BY EntryFacts DEF Free, IsFree
    <2>3. /\ IndexSet' = IndexSet \cup {Len(store)}
          /\ Len(store) \notin IndexSet
          /\ Contents' = Contents
      BY <2>1, <2>2, PushedContents
    <2>4. Len(store) \in Indexes
      BY <1>0, <2>1 DEF Indexes
    <2>5. Abstract!Abandon
      BY <1>3, <2>3, <2>4, ContentsDomain
      DEF TryInsertFails, Abstract!Abandon, Abstract!Held, Busy
    <2> QED
      BY <2>5 DEF Abstract!Next
  <1>4. ASSUME NEW i \in Indexes, Remove(i) PROVE Abstract!Next
    <2>1. i \in IndexSet /\ i + 1 \in 1..Len(store) /\ store[i + 1] \in Entries
      BY <1>0, <1>a, <1>4 DEF Remove, Indexes
    <2>2. CASE IsFree(store[i + 1])
      <3>1. store' = store
        BY <1>0, <1>4, <2>1, <2>2 DEF Remove
      <3>2. out' = None /\ i \notin Busy
        BY <1>4, <2>2 DEF Remove, IsFree, Busy
      <3> QED
        BY <1>4, <3>1, <3>2, MissStep DEF Remove
    <2>3. CASE ~IsFree(store[i + 1])
      <3>1. i \in Busy /\ store' = [store EXCEPT ![i + 1] = Free(None)]
        BY <1>4, <2>1, <2>3 DEF Remove, Busy, IndInv, Unchained
      <3>2. IndexSet' = IndexSet /\ Contents' = [j \in Busy \ {i} |-> Contents[j]]
        BY <3>1, EntryFacts, ReplacedContents DEF Free, IsFree
      <3>3. out' = Contents[i] /\ call' = <<"remove", i>>
        BY <1>4, <3>1, ContentsDomain DEF Remove
      <3>4. Abstract!Take(i)
        BY <3>1, <3>2, <3>3, ContentsDomain DEF Abstract!Take, Abstract!Held
      <3> QED
        BY <3>4 DEF Abstract!Next
    <2> QED
      BY <2>2, <2>3
  <1>5. ASSUME NEW i \in Indexes, Get(i) PROVE Abstract!Next
    <2>1. out' = IF i \in Busy THEN store[i + 1].value ELSE None
      BY <1>a, <1>5 DEF Get, Busy, IsFree
    <2> QED
      BY <1>5, <2>1, LookStep DEF Get
  <1>6. ASSUME NEW i \in Indexes, NotThere(i) PROVE Abstract!Next
    <2>1. i \notin Busy
      BY <1>0, <1>6 DEF NotThere, Busy, IndexSet, Indexes
    <2>2. call' = <<"get", i>> \/ call' = <<"remove", i>>
      BY <1>6 DEF NotThere
    <2> QED
      BY <1>6, <2>1, <2>2, LookStep, MissStep DEF NotThere
  <1>7. ASSUME NEW i \in Indexes, NEW v \in Values, GetMut(i, v) PROVE Abstract!Next
    <2>1. /\ i \in Busy /\ store' = [store EXCEPT ![i + 1] = Occupied(v)]
          /\ out' = v /\ call' = <<"get", i>>
      BY <1>a, <1>7 DEF GetMut, Busy
    <2>2. Occupied(v) \in Entries /\ ~IsFree(Occupied(v)) /\ Occupied(v).value = v
      BY EntryFacts, NoneIsNoValue DEF Occupied, IsFree
    <2>3. IndexSet' = IndexSet /\ Contents' = [Contents EXCEPT ![i] = v]
      BY <2>1, <2>2, ReplacedContents
    <2>4. Abstract!Change(i, v)
      BY <2>1, <2>3, ContentsDomain DEF Abstract!Change, Abstract!Held
    <2> QED
      BY <2>4 DEF Abstract!Next
  <1>8. CASE UNCHANGED vars
    BY <1>8 DEF vars, Abstract!vars, IndexSet, Contents, IsFree
  <1> QED
    BY <1>1, <1>2, <1>3, <1>4, <1>5, <1>6, <1>7, <1>8 DEF Next

\* A new slab is an empty store.
LEMMA InitImplements == Init => Abstract!Init
  BY DEF Init, Abstract!Init, IndexSet, Contents

(* The slab implements the abstract packet store: under any sequence of    *)
(* calls indexes are unique and packets come back intact.                  *)
THEOREM SlabRefines == Spec => ImplementsPacketStore
  <1>1. Spec => []IndInv
    BY InitIndInv, NextIndInv, PTL DEF Spec
  <1> QED
    BY <1>1, InitImplements, NextImplements, PTL
    DEF Spec, ImplementsPacketStore, Abstract!Spec
=============================================================================
