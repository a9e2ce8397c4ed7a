---------------------------- MODULE GfcMapProofs ----------------------------
(***************************************************************************)
(* The hash map is type correct and implements PlainMap, for every set of  *)
(* keys, hash, table size and chain length, and through rehashes nested to *)
(* any depth.                                                              *)
(***************************************************************************)
EXTENDS GfcMap, TLAPS, SequenceTheorems, FiniteSetTheorems

Tables ==
    UNION {[len : {n}, at : [0 .. n - 1 -> SlotSet]] : n \in Nat \ {0}}
Frames == [old : Tables, left : SUBSET Nat]

\* What every step keeps: TypeOK in the form the proofs need.
\* What a call of the map can report.
Reported == [did : {"made", "put", "failed", "removed", "iterated", "freed"},
             key : Keys \cup {NULL}]

IInv ==
    /\ map \in {"none", "made"} /\ size \in Int
    /\ data \in Tables
    /\ pending \in {Idle} \cup [key : Keys, data : Vals]
    /\ rehashes \in Seq(Frames)
    /\ \A f \in 1 .. Len(rehashes) :
           rehashes[f].left \subseteq UsedSlots(rehashes[f].old)
    /\ Nested => pending # Idle
    /\ pending # Idle => map = "made"
    /\ map = "none" => data = EmptyTable(InitialSize)
    /\ last \in Reported

-----------------------------------------------------------------------------
(* Tables and probing.                                                     *)

\* A remainder is smaller than its divisor.
LEMMA ModRange ==
  ASSUME NEW a \in Nat, NEW n \in Nat \ {0}
  PROVE  a % n \in 0 .. n - 1
  BY SMT

\* A table has its length and an array of slots of that length.
LEMMA TableParts ==
  ASSUME NEW t \in Tables
  PROVE  /\ t.len \in Nat \ {0}
         /\ t.at \in [Slots(t) -> SlotSet]
         /\ t = [len |-> t.len, at |-> t.at]
  <1>1. PICK n \in Nat \ {0} : t \in [len : {n}, at : [0 .. n - 1 -> SlotSet]]
    BY DEF Tables
  <1> QED BY <1>1 DEF Slots

LEMMA TableMade ==
  ASSUME NEW n \in Nat \ {0}, NEW at \in [0 .. n - 1 -> SlotSet]
  PROVE  [len |-> n, at |-> at] \in Tables
  BY DEF Tables

\* Storing to a slot keeps a table a table.
LEMMA TableStored ==
  ASSUME NEW t \in Tables, NEW i \in Slots(t), NEW e \in SlotSet
  PROVE  LET u == [t EXCEPT !.at[i] = e]
         IN  /\ u \in Tables /\ u.len = t.len /\ Slots(u) = Slots(t)
             /\ u.at[i] = e
             /\ \A j \in Slots(t) : j # i => u.at[j] = t.at[j]
  <1> DEFINE u == [t EXCEPT !.at[i] = e]
  <1>1. /\ t.len \in Nat \ {0} /\ t.at \in [Slots(t) -> SlotSet]
        /\ t = [len |-> t.len, at |-> t.at]
    BY TableParts
  <1>2. u = [len |-> t.len, at |-> [t.at EXCEPT ![i] = e]]
    BY <1>1
  <1>3. [t.at EXCEPT ![i] = e] \in [0 .. t.len - 1 -> SlotSet]
    BY <1>1 DEF Slots
  <1>4. u \in Tables
    BY <1>1, <1>2, <1>3, TableMade
  <1> QED BY <1>1, <1>2, <1>4 DEF Slots

\* Every position of a chain is a slot of the table.
LEMMA ProbeInSlots ==
  ASSUME NEW t \in Tables, NEW k \in Keys, NEW n \in Positions
  PROVE  Probe(t.len, k, n) \in Slots(t)
  <1>1. t.len \in Nat \ {0} /\ Hash[k] + n \in Nat
    BY TableParts, MapConstants DEF Positions
  <1> QED BY <1>1, ModRange DEF Probe, Slots

\* An entry that may be stored is a slot's contents.
LEMMA EntryInSlots ==
  ASSUME NEW k \in Keys, NEW v \in Vals \cup {NULL}
  PROVE  Entry(k, v) \in SlotSet /\ Unused \in SlotSet
  BY DEF Entry, SlotSet, Unused

\* A search finds at most one slot.
LEMMA FindsOne ==
  ASSUME NEW t \in Tables, NEW k \in Keys, NEW i, NEW j,
         Finds(t, k, i), Finds(t, k, j)
  PROVE  i = j
  <1>1. PICK n \in Positions :
           /\ i = Probe(t.len, k, n) /\ Holds(t, i, k)
           /\ \A p \in 0 .. n - 1 : ~Holds(t, Probe(t.len, k, p), k)
    BY DEF Finds
  <1>2. PICK m \in Positions :
           /\ j = Probe(t.len, k, m) /\ Holds(t, j, k)
           /\ \A p \in 0 .. m - 1 : ~Holds(t, Probe(t.len, k, p), k)
    BY DEF Finds
  <1>3. n \in Nat /\ m \in Nat
    BY DEF Positions
  <1>4. ~(n < m) /\ ~(m < n)
    BY <1>1, <1>2, <1>3
  <1> QED BY <1>1, <1>2, <1>3, <1>4

\* gfc_map_get returns the data of the slot the search finds.
LEMMA GetFound ==
  ASSUME NEW t \in Tables, NEW k \in Keys, NEW i \in Slots(t), Finds(t, k, i)
  PROVE  get(t, k) = t.at[i].data
  <1>1. Finds(t, k, CHOOSE j \in Slots(t) : Finds(t, k, j))
    OBVIOUS
  <1>2. (CHOOSE j \in Slots(t) : Finds(t, k, j)) = i
    BY <1>1, FindsOne
  <1> QED BY <1>2 DEF get

LEMMA GetMissing ==
  ASSUME NEW t, NEW k, \A i \in Slots(t) : ~Finds(t, k, i)
  PROVE  get(t, k) = NULL
  BY DEF get

\* Two tables of one length that hold k in the same slots with the same data
\* give k the same value.
LEMMA SameGet ==
  ASSUME NEW t \in Tables, NEW u \in Tables, NEW k \in Keys, u.len = t.len,
         \A i \in Slots(t) : Holds(u, i, k) <=> Holds(t, i, k),
         \A i \in Slots(t) : Holds(t, i, k) => u.at[i].data = t.at[i].data
  PROVE  /\ get(u, k) = get(t, k)
         /\ \A i \in Slots(t) : Finds(u, k, i) <=> Finds(t, k, i)
  <1>1. Slots(u) = Slots(t)
    BY DEF Slots
  <1>2. \A n \in Positions : /\ Probe(t.len, k, n) \in Slots(t)
                             /\ 0 .. n - 1 \subseteq Positions
    BY ProbeInSlots, MapConstants DEF Positions
  <1>3. \A i \in Slots(t) : Finds(u, k, i) <=> Finds(t, k, i)
    BY <1>2 DEF Finds
  <1>4. CASE \E i \in Slots(t) : Finds(t, k, i)
    <2>1. PICK i \in Slots(t) : Finds(t, k, i)
      BY <1>4
    <2>2. Holds(t, i, k)
      BY <2>1 DEF Finds
    <2>3. get(t, k) = t.at[i].data
      BY <2>1, GetFound
    <2>4. get(u, k) = u.at[i].data
      BY <2>1, <1>1, <1>3, GetFound
    <2> QED BY <1>3, <2>2, <2>3, <2>4
  <1>5. CASE ~\E i \in Slots(t) : Finds(t, k, i)
    BY <1>1, <1>3, <1>5, GetMissing
  <1> QED BY <1>4, <1>5

\* Where a put places an entry, a search for its key finds it, and the other
\* keys keep their slots.
LEMMA PlacedIsFound ==
  ASSUME NEW t \in Tables, NEW k \in Keys, NEW v \in Vals \cup {NULL},
         NEW i \in Slots(t), Places(t, k, i)
  PROVE  LET u == [t EXCEPT !.at[i] = Entry(k, v)]
         IN  Finds(u, k, i) /\ get(u, k) = v
  <1> DEFINE u == [t EXCEPT !.at[i] = Entry(k, v)]
  <1>1. /\ u \in Tables /\ u.len = t.len /\ Slots(u) = Slots(t)
        /\ u.at[i] = Entry(k, v)
        /\ \A j \in Slots(t) : j # i => u.at[j] = t.at[j]
    BY EntryInSlots, TableStored
  <1>2. PICK n \in Positions :
           /\ i = Probe(t.len, k, n) /\ (Free(t, i) \/ Holds(t, i, k))
           /\ \A p \in 0 .. n - 1 : /\ ~Free(t, Probe(t.len, k, p))
                                    /\ ~Holds(t, Probe(t.len, k, p), k)
    BY DEF Places
  <1>3. \A p \in 0 .. n - 1 : p \in Positions /\ Probe(t.len, k, p) \in Slots(t)
    BY ProbeInSlots, MapConstants DEF Positions
  <1>4. \A p \in 0 .. n - 1 : Probe(t.len, k, p) # i
    BY <1>2
  <1> HIDE DEF u
  <1>5. \A p \in 0 .. n - 1 : ~Holds(u, Probe(t.len, k, p), k)
    BY <1>1, <1>2, <1>3, <1>4 DEF Holds
  <1>6. Holds(u, i, k) /\ u.at[i].data = v
    BY <1>1 DEF Holds, Entry
  <1>7. Finds(u, k, i)
    BY <1>1, <1>2, <1>5, <1>6 DEF Finds
  <1>8. get(u, k) = v
    BY <1>1, <1>6, <1>7, GetFound
  <1> QED BY <1>7, <1>8 DEF u

\* Storing k where a put may place it, or emptying a slot of k, changes no
\* other key.
LEMMA OthersKeep ==
  ASSUME NEW t \in Tables, NEW k \in Keys, NEW j \in Keys \ {k},
         NEW i \in Slots(t), Free(t, i) \/ Holds(t, i, k),
         NEW e \in SlotSet, e = Unused \/ e.key = k
  PROVE  LET u == [t EXCEPT !.at[i] = e]
         IN  /\ get(u, j) = get(t, j)
             /\ \A x \in Slots(t) : Holds(u, x, j) <=> Holds(t, x, j)
             /\ \A x \in Slots(t) : Finds(u, j, x) <=> Finds(t, j, x)
  <1> DEFINE u == [t EXCEPT !.at[i] = e]
  <1>1. /\ u \in Tables /\ u.len = t.len /\ Slots(u) = Slots(t)
        /\ u.at[i] = e
        /\ \A x \in Slots(t) : x # i => u.at[x] = t.at[x]
    BY TableStored
  <1> HIDE DEF u
  <1>2. ~Holds(t, i, j) /\ ~Holds(u, i, j)
    BY <1>1 DEF Holds, Free, Unused
  <1>3. \A x \in Slots(t) : Holds(u, x, j) <=> Holds(t, x, j)
    BY <1>1, <1>2 DEF Holds
  <1>4. \A x \in Slots(t) : Holds(t, x, j) => u.at[x].data = t.at[x].data
    BY <1>1, <1>2
  <1> QED BY <1>1, <1>3, <1>4, SameGet DEF u

-----------------------------------------------------------------------------
(* The calls under way.                                                    *)

NextSlot == CHOOSE i \in Top.left : IsNext(i)

LEMMA TopFrame ==
  ASSUME IInv, Nested
  PROVE  /\ Len(rehashes) \in 1 .. Len(rehashes) /\ Len(rehashes) \in Nat
         /\ Top \in Frames /\ Top.left \subseteq UsedSlots(Top.old)
  <1>1. rehashes \in Seq(Frames) /\ rehashes # << >>
    BY DEF IInv, Nested
  <1>2. Len(rehashes) \in Nat \ {0}
    BY <1>1, EmptySeq, LenProperties
  <1>3. Top \in Frames
    BY <1>1, <1>2, ElementOfSeq DEF Top
  <1> QED BY <1>2, <1>3 DEF IInv, Top

\* The slot a rehash moves next is one it has still to move.
LEMMA NextIsLeft ==
  ASSUME IInv, Nested, AtSlot
  PROVE  /\ NextSlot \in Top.left /\ IsNext(NextSlot)
         /\ NextSlot \in Slots(Top.old) /\ ~Free(Top.old, NextSlot)
         /\ Moved = Top.old.at[NextSlot]
         /\ Top.old \in Tables
         /\ {i \in Top.left : ~IsNext(i)} = Top.left \ {NextSlot}
  <1>1. NextSlot \in Top.left /\ IsNext(NextSlot)
    BY DEF AtSlot, NextSlot
  <1>2. Top.left \subseteq UsedSlots(Top.old) /\ Top.old \in Tables
    BY TopFrame DEF Frames
  <1>3. Top.left \subseteq Int
    BY <1>2, TableParts DEF UsedSlots, Slots
  <1>4. \A i \in Top.left : IsNext(i) <=> i = NextSlot
    BY <1>1, <1>3 DEF IsNext
  <1> QED BY <1>1, <1>2, <1>4 DEF UsedSlots, Moved, NextSlot

\* Advanced takes the slot just moved off the innermost rehash.
LEMMA AdvancedFrames ==
  ASSUME IInv, Nested, AtSlot
  PROVE  /\ Advanced \in Seq(Frames) /\ Len(Advanced) = Len(rehashes)
         /\ \A f \in 1 .. Len(rehashes) :
                /\ Advanced[f].old = rehashes[f].old
                /\ Advanced[f].left = IF f = Len(rehashes)
                                      THEN Top.left \ {NextSlot}
                                      ELSE rehashes[f].left
  <1> DEFINE n == Len(rehashes)
             e == [Top EXCEPT !.left = Top.left \ {NextSlot}]
  <1>1. rehashes \in Seq(Frames) /\ n \in 1 .. n /\ Top \in Frames
    BY TopFrame DEF IInv
  <1>2. Advanced = [rehashes EXCEPT ![n] = e]
    BY NextIsLeft DEF Advanced, Top
  <1>3. e \in Frames /\ e.old = Top.old /\ e.left = Top.left \ {NextSlot}
    BY <1>1 DEF Frames
  <1> HIDE DEF e
  <1>4. /\ Advanced \in Seq(Frames) /\ Len(Advanced) = n
        /\ \A f \in 1 .. n : Advanced[f] = IF f = n THEN e ELSE rehashes[f]
    BY <1>1, <1>2, <1>3, ExceptSeq
  <1> QED BY <1>3, <1>4 DEF Top

\* What a put stores: the caller's arguments, or the entry a rehash moves.
LEMMA PutEntry ==
  ASSUME IInv, Putting
  PROVE  /\ PutKey \in Keys /\ PutData \in Vals \cup {NULL}
         /\ Entry(PutKey, PutData) \in SlotSet
         /\ pending # Idle /\ map = "made"
         /\ Nested => AtSlot
         /\ ~Nested => /\ PutKey = pending.key /\ PutData = pending.data
                       /\ pending.data \in Vals
  <1>1. CASE Nested
    <2>1. AtSlot
      BY <1>1 DEF Putting
    <2>2. NextSlot \in Slots(Top.old) /\ Top.old.at[NextSlot] \in SlotSet
      BY <1>1, <2>1, NextIsLeft, TableParts
    <2>3. Moved.in_use # 0 /\ Moved \in SlotSet
      BY <1>1, <2>1, <2>2, NextIsLeft DEF Free
    <2>4. Moved.key \in Keys /\ Moved.data \in Vals \cup {NULL}
      BY <2>3 DEF SlotSet, Unused
    <2> QED BY <1>1, <2>1, <2>4, EntryInSlots DEF PutKey, PutData, IInv
  <1>2. CASE ~Nested
    <2>1. pending \in [key : Keys, data : Vals] /\ pending # Idle
      BY <1>2 DEF Putting, AtSlot, IInv
    <2> QED BY <1>2, <2>1, EntryInSlots DEF PutKey, PutData, IInv
  <1> QED BY <1>1, <1>2

LEMMA EmptyIsTable ==
  ASSUME NEW n \in Nat \ {0}
  PROVE  /\ EmptyTable(n) \in Tables /\ EmptyTable(n).len = n
         /\ \A i \in Slots(EmptyTable(n)) : EmptyTable(n).at[i] = Unused
         /\ Slots(EmptyTable(n)) = 0 .. n - 1
  <1>1. [i \in 0 .. n - 1 |-> Unused] \in [0 .. n - 1 -> SlotSet]
    BY DEF SlotSet
  <1> QED BY <1>1, TableMade DEF EmptyTable, Table, Slots

\* A rehash begins: one more frame, the others as they were.
LEMMA BegunFrames ==
  ASSUME IInv
  PROVE  LET n == Len(rehashes)
             r == Append(rehashes, [old |-> data, left |-> ToMove(data)])
         IN  /\ r \in Seq(Frames) /\ Len(r) = n + 1 /\ r # << >>
             /\ \A f \in 1 .. n : r[f] = rehashes[f]
             /\ r[n + 1].old = data /\ r[n + 1].left = UsedSlots(data)
  <1> DEFINE e == [old |-> data, left |-> ToMove(data)]
             r == Append(rehashes, e)
  <1>1. rehashes \in Seq(Frames) /\ data \in Tables
    BY DEF IInv
  <1>2. UsedSlots(data) \in SUBSET Nat
    BY <1>1, TableParts DEF UsedSlots, Slots
  <1>3. e \in Frames
    BY <1>1, <1>2 DEF Frames, ToMove
  <1>4. /\ r \in Seq(Frames) /\ Len(r) = Len(rehashes) + 1
        /\ \A f \in 1 .. Len(rehashes) : r[f] = rehashes[f]
        /\ r[Len(rehashes) + 1] = e /\ r # << >>
    BY <1>1, <1>3, AppendProperties
  <1> QED BY <1>4 DEF ToMove

\* A rehash returns: the frames below it as they were.
LEMMA EndedFrames ==
  ASSUME IInv, Nested
  PROVE  LET n == Len(rehashes)
             r == SubSeq(rehashes, 1, n - 1)
         IN  /\ r \in Seq(Frames) /\ Len(r) = n - 1 /\ n \in Nat \ {0}
             /\ \A f \in 1 .. n - 1 : r[f] = rehashes[f]
  <1>1. rehashes \in Seq(Frames) /\ Len(rehashes) \in Nat \ {0}
    BY TopFrame DEF IInv
  <1>2. \A f \in 1 .. Len(rehashes) - 1 : rehashes[f] \in Frames
    BY <1>1, ElementOfSeq
  <1> DEFINE m == Len(rehashes) - 1
             r == SubSeq(rehashes, 1, m)
  <1>3. m \in Int /\ m \in Nat /\ 1 \in Int
    BY <1>1
  <1> HIDE DEF m
  <1>4. /\ r \in Seq(Frames)
        /\ Len(r) = IF 1 <= m THEN m - 1 + 1 ELSE 0
        /\ \A i \in 1 .. m - 1 + 1 : r[i] = rehashes[1 + i - 1]
    <2>1. \A i \in 1 .. m : rehashes[i] \in Frames
      BY <1>2 DEF m
    <2> QED BY <1>3, <2>1, SubSeqProperties
  <1>5. Len(r) = m /\ \A i \in 1 .. m : r[i] = rehashes[i]
    BY <1>3, <1>4
  <1> QED BY <1>1, <1>4, <1>5 DEF m

\* A stored entry keeps the table a table.
LEMMA StoredTable ==
  ASSUME IInv, Store
  PROVE  /\ data' \in Tables /\ data'.len = data.len
         /\ Slots(data') = Slots(data)
         /\ \E i \in Slots(data) :
                /\ Places(data, PutKey, i)
                /\ data' = [data EXCEPT !.at[i] = Entry(PutKey, PutData)]
  <1>1. Entry(PutKey, PutData) \in SlotSet /\ data \in Tables
    BY PutEntry DEF Store, IInv
  <1>2. PICK i \in Slots(data) :
           /\ Places(data, PutKey, i)
           /\ data' = [data EXCEPT !.at[i] = Entry(PutKey, PutData)]
    BY DEF Store, hash
  <1> QED BY <1>1, <1>2, TableStored

-----------------------------------------------------------------------------
(* The invariant.                                                          *)

LEMMA InvInit == Init => IInv
  <1> SUFFICES ASSUME Init PROVE IInv
    OBVIOUS
  <1>1. data \in Tables
    BY EmptyIsTable, MapConstants DEF Init
  <1>2. rehashes \in Seq(Frames) /\ Len(rehashes) = 0
    BY EmptySeq DEF Init
  <1>3. map = "none" /\ pending = Idle /\ size \in Int
    BY DEF Init
  <1>4. rehashes = << >> /\ data = EmptyTable(InitialSize)
    BY DEF Init
  <1>5. \A f \in 1 .. Len(rehashes) :
           rehashes[f].left \subseteq UsedSlots(rehashes[f].old)
    BY <1>2
  <1>6. ~Nested /\ pending \in {Idle} \cup [key : Keys, data : Vals]
    BY <1>3, <1>4 DEF Nested
  <1>7. last \in Reported
    BY DEF Init, Did, Reported
  <1> QED BY <1>1, <1>2, <1>3, <1>4, <1>5, <1>6, <1>7 DEF IInv

LEMMA InvStore == IInv /\ Store => IInv'
  <1> SUFFICES ASSUME IInv, Store PROVE IInv'
    OBVIOUS
  <1>1. data' \in Tables
    BY StoredTable
  <1>2. pending # Idle /\ map = "made" /\ (Nested => AtSlot)
    BY PutEntry DEF Store
  <1>3. size' \in Int /\ map' = map
    BY DEF Store, IInv
  <1>4. CASE Nested
    <2>1. rehashes' = Advanced /\ pending' = pending /\ last' \in Reported
      BY <1>4 DEF Store, IInv
    <2>2. /\ Advanced \in Seq(Frames) /\ Len(Advanced) = Len(rehashes)
          /\ \A f \in 1 .. Len(rehashes) :
                /\ Advanced[f].old = rehashes[f].old
                /\ Advanced[f].left \subseteq rehashes[f].left
      BY <1>2, <1>4, AdvancedFrames, TopFrame DEF Top
    <2>3. \A f \in 1 .. Len(rehashes') :
             rehashes'[f].left \subseteq UsedSlots(rehashes'[f].old)
      BY <2>1, <2>2 DEF IInv
    <2> QED BY <1>1, <1>2, <1>3, <2>1, <2>2, <2>3 DEF IInv
  <1>5. CASE ~Nested
    <2>1. last' \in Reported
      BY <1>5 DEF Store, Did, Reported
    <2> QED BY <1>1, <1>2, <1>3, <1>5, <2>1 DEF Store, IInv, Nested
  <1> QED BY <1>4, <1>5

LEMMA InvRehash == IInv /\ (BeginRehash \/ EndRehash \/ OutOfMemory) => IInv'
  <1> SUFFICES ASSUME IInv, BeginRehash \/ EndRehash \/ OutOfMemory PROVE IInv'
    OBVIOUS
  <1>1. CASE BeginRehash
    <2>1. data' \in Tables /\ pending # Idle /\ map = "made"
      BY <1>1, EmptyIsTable, TableParts, PutEntry DEF BeginRehash, IInv
    <2>2. /\ rehashes' \in Seq(Frames) /\ rehashes' # << >>
          /\ \A f \in 1 .. Len(rehashes') :
                rehashes'[f].left \subseteq UsedSlots(rehashes'[f].old)
      <3>1. rehashes' = Append(rehashes, [old |-> data, left |-> ToMove(data)])
        BY <1>1 DEF BeginRehash
      <3>2. Len(rehashes) \in Nat
        BY LenProperties DEF IInv
      <3> QED BY <3>1, <3>2, BegunFrames DEF IInv
    <2> QED BY <1>1, <2>1, <2>2 DEF BeginRehash, IInv
  <1>2. CASE EndRehash
    <2>1. /\ rehashes' \in Seq(Frames)
          /\ \A f \in 1 .. Len(rehashes') :
                rehashes'[f].left \subseteq UsedSlots(rehashes'[f].old)
      <3>1. Nested /\ rehashes' = SubSeq(rehashes, 1, Len(rehashes) - 1)
        BY <1>2 DEF EndRehash
      <3> QED BY <3>1, EndedFrames DEF IInv
    <2> QED BY <1>2, <2>1 DEF EndRehash, IInv
  <1>3. CASE OutOfMemory
    <2>1. last' \in Reported
      BY <1>3 DEF OutOfMemory, Did, Reported
    <2> QED BY <1>3, <2>1, PutEntry, EmptySeq DEF OutOfMemory, IInv, Nested
  <1> QED BY <1>1, <1>2, <1>3

LEMMA InvCalls ==
  IInv /\ (\/ gfc_map_new \/ gfc_map_free \/ gfc_map_iterate
           \/ \E k \in Keys : gfc_map_remove(k)
           \/ \E k \in Keys, v \in Vals : gfc_map_put(k, v)) => IInv'
  <1>1. ASSUME IInv, gfc_map_new PROVE IInv'
    <2>1. PICK stale \in [StaleNew -> StaleSlot] :
             data' = Table(InitialSize,
                           [i \in 0 .. InitialSize - 1 |->
                               IF i \in StaleNew THEN stale[i] ELSE Unused])
      BY <1>1 DEF gfc_map_new
    <2>2. StaleSlot \subseteq SlotSet /\ Unused \in SlotSet
      BY DEF StaleSlot, SlotSet
    <2>3. data' \in Tables
      BY <2>1, <2>2, TableMade, MapConstants DEF Table
    <2>4. pending = Idle /\ last' \in Reported
      BY <1>1 DEF gfc_map_new, IInv, Did, Reported
    <2> QED BY <1>1, <2>3, <2>4 DEF gfc_map_new, IInv, Nested
  <1>2. ASSUME IInv, gfc_map_free PROVE IInv'
    <2>1. data' \in Tables /\ last' \in Reported
      BY <1>2, EmptyIsTable, MapConstants DEF gfc_map_free, Did, Reported
    <2> QED BY <1>2, <2>1 DEF gfc_map_free, Ready, IInv, Nested
  <1>3. ASSUME IInv, gfc_map_iterate PROVE IInv'
    <2>1. PICK stop \in Slots(data) :
             data' = Table(data.len, [i \in Slots(data) |->
                                        IF i <= stop THEN Unused ELSE data.at[i]])
      BY <1>3 DEF gfc_map_iterate
    <2>2. data.len \in Nat \ {0} /\ data.at \in [Slots(data) -> SlotSet]
      BY <1>3, TableParts DEF IInv
    <2>3. Unused \in SlotSet
      BY DEF SlotSet
    <2>4. [i \in Slots(data) |-> IF i <= stop THEN Unused ELSE data.at[i]]
             \in [0 .. data.len - 1 -> SlotSet]
      BY <2>2, <2>3 DEF Slots
    <2>5. data' \in Tables
      BY <2>1, <2>2, <2>4, TableMade DEF Table
    <2>6. last' \in Reported
      BY <1>3 DEF gfc_map_iterate, Did, Reported
    <2> QED BY <1>3, <2>5, <2>6 DEF gfc_map_iterate, Ready, IInv, Nested
  <1>4. ASSUME IInv, NEW k \in Keys, gfc_map_remove(k) PROVE IInv'
    <2>1. PICK i \in Slots(data) : data' = [data EXCEPT !.at[i] = Unused]
      BY <1>4 DEF gfc_map_remove
    <2>2. data' \in Tables
      BY <1>4, <2>1, TableStored DEF IInv, SlotSet
    <2>3. size' \in Int /\ last' \in Reported
      BY <1>4 DEF gfc_map_remove, IInv, Did, Reported
    <2> QED BY <1>4, <2>2, <2>3 DEF gfc_map_remove, Ready, IInv, Nested
  <1>5. ASSUME IInv, NEW k \in Keys, NEW v \in Vals, gfc_map_put(k, v) PROVE IInv'
    <2>1. pending' \in [key : Keys, data : Vals] /\ pending' # Idle
      BY <1>5, MapConstants DEF gfc_map_put, Call, Idle
    <2> QED BY <1>5, <2>1 DEF gfc_map_put, Ready, IInv, Nested
  <1> QED BY <1>1, <1>2, <1>3, <1>4, <1>5

LEMMA InvStep == IInv /\ [Next]_vars => IInv'
  <1> SUFFICES ASSUME IInv, [Next]_vars PROVE IInv'
    OBVIOUS
  <1>1. CASE Next
    BY <1>1, InvCalls, InvStore, InvRehash DEF Next, gfc_map_deep_free
  <1>2. CASE UNCHANGED vars
    <2>1. /\ map' = map /\ data' = data /\ size' = size
          /\ pending' = pending /\ rehashes' = rehashes /\ last' = last
      BY <1>2 DEF vars
    <2> QED BY <2>1 DEF IInv, Nested
  <1> QED BY <1>1, <1>2

LEMMA Invariance == Spec => []IInv
  BY InvInit, InvStep, PTL DEF Spec

LEMMA InvImpliesType == IInv => TypeOK
  <1> SUFFICES ASSUME IInv PROVE TypeOK
    OBVIOUS
  <1>1. rehashes \in Seq(Frames) /\ DOMAIN rehashes = 1 .. Len(rehashes)
    BY LenProperties DEF IInv
  <1>2. \A f \in DOMAIN rehashes : rehashes[f].old \in Tables
    <2>1. \A f \in 1 .. Len(rehashes) : rehashes[f] \in Frames
      BY <1>1, ElementOfSeq
    <2> QED BY <1>1, <2>1 DEF Frames
  <1>3. \A t \in Tables : TableOK(t)
    BY TableParts DEF TableOK
  <1> QED BY <1>1, <1>2, <1>3 DEF IInv, TypeOK, Reported

\* The table, the arguments of a put and the tables of unfinished rehashes
\* are what they are declared to be, and only a put under way has rehashes.
THEOREM TypeCorrect == Spec => []TypeOK
  BY Invariance, InvImpliesType, PTL

-----------------------------------------------------------------------------
(* The counter of entries and the slots in use.                            *)

\* The slots in use are finitely many, and so are those of a recycled block.
LEMMA UsedFinite ==
  /\ \A t \in Tables : IsFiniteSet(UsedSlots(t)) /\ Cardinality(UsedSlots(t)) \in Nat
  /\ IsFiniteSet(StaleNew) /\ Cardinality(StaleNew) \in Nat
  <1>1. ASSUME NEW t \in Tables
        PROVE  IsFiniteSet(UsedSlots(t)) /\ Cardinality(UsedSlots(t)) \in Nat
    <2>1. 0 \in Int /\ t.len - 1 \in Int
      BY TableParts
    <2>2. IsFiniteSet(0 .. t.len - 1) /\ UsedSlots(t) \in SUBSET (0 .. t.len - 1)
      BY <2>1, FS_Interval DEF UsedSlots, Slots
    <2> QED BY <2>2, FS_Subset, FS_CardinalityType
  <1>2. IsFiniteSet(StaleNew) /\ Cardinality(StaleNew) \in Nat
    <2>1. 0 \in Int /\ InitialSize - 1 \in Int
      BY MapConstants
    <2>2. IsFiniteSet(0 .. InitialSize - 1) /\ StaleNew \in SUBSET (0 .. InitialSize - 1)
      BY <2>1, FS_Interval, MapConstants
    <2> QED BY <2>2, FS_Subset, FS_CardinalityType
  <1> QED BY <1>1, <1>2

LEMMA CountStore == IInv /\ SizeCoversSlots /\ Store => SizeCoversSlots'
  <1> SUFFICES ASSUME IInv, SizeCoversSlots, Store PROVE SizeCoversSlots'
    OBVIOUS
  <1>1. /\ data' \in Tables /\ data'.len = data.len /\ Slots(data') = Slots(data)
        /\ data \in Tables /\ size \in Int /\ size' = size + 1
        /\ ~HalfFull
    BY StoredTable DEF IInv, Store, hash
  <1>2. PICK i \in Slots(data) : data' = [data EXCEPT !.at[i] = Entry(PutKey, PutData)]
    BY StoredTable
  <1>3. Entry(PutKey, PutData) \in SlotSet
    BY PutEntry DEF Store
  <1>4. \A j \in Slots(data) : j # i => data'.at[j] = data.at[j]
    BY <1>1, <1>2, <1>3, TableStored
  <1>5. UsedSlots(data') \in SUBSET (UsedSlots(data) \cup {i})
    BY <1>1, <1>4 DEF UsedSlots, Free
  <1>6. Cardinality(UsedSlots(data')) <= Cardinality(UsedSlots(data)) + 1
    <2>1. /\ IsFiniteSet(UsedSlots(data) \cup {i})
          /\ Cardinality(UsedSlots(data) \cup {i}) <= Cardinality(UsedSlots(data)) + 1
      <3> DEFINE U == UsedSlots(data)
      <3>1. IsFiniteSet(U) /\ Cardinality(U) \in Nat
        BY <1>1, UsedFinite
      <3> HIDE DEF U
      <3>2. /\ IsFiniteSet(U \cup {i})
            /\ Cardinality(U \cup {i}) = IF i \in U THEN Cardinality(U) ELSE Cardinality(U) + 1
        BY <3>1, FS_AddElement
      <3>3. Cardinality(U \cup {i}) <= Cardinality(U) + 1
        BY <3>1, <3>2
      <3> QED BY <3>2, <3>3 DEF U
    <2>2. Cardinality(UsedSlots(data')) <= Cardinality(UsedSlots(data) \cup {i})
      BY <1>5, <2>1, FS_Subset
    <2>3. Cardinality(UsedSlots(data) \cup {i}) \in Nat
      BY <2>1, FS_CardinalityType
    <2> QED BY <1>1, <2>1, <2>2, <2>3, UsedFinite
  <1>7. size + 1 <= data.len \div 2
    <2>1. data.len \div 2 \in Int
      BY <1>1, TableParts
    <2> QED BY <1>1, <2>1 DEF HalfFull
  <1>8. Cardinality(UsedSlots(data')) <= size' + Cardinality(StaleNew)
    BY <1>1, <1>6, UsedFinite DEF SizeCoversSlots
  <1> QED BY <1>1, <1>7, <1>8 DEF SizeCoversSlots

\* A table in which no slot is in use.
LEMMA CountEmpty ==
  ASSUME NEW n \in Nat \ {0}, data' = EmptyTable(n), size' = 0
  PROVE  SizeCoversSlots'
  <1>1. UsedSlots(data') = {} /\ data'.len = n
    BY EmptyIsTable DEF UsedSlots, Free, Unused
  <1>2. 0 <= n \div 2
    OBVIOUS
  <1> QED BY <1>1, <1>2, FS_EmptySet, UsedFinite DEF SizeCoversSlots

LEMMA CountRemove ==
  ASSUME IInv, SizeCoversSlots, NEW k \in Keys, gfc_map_remove(k)
  PROVE  SizeCoversSlots'
  <1>1. PICK i \in Slots(data) :
           Finds(data, k, i) /\ data' = [data EXCEPT !.at[i] = Unused]
    BY DEF gfc_map_remove
  <1>2. /\ data' \in Tables /\ data'.len = data.len /\ Slots(data') = Slots(data)
        /\ data'.at[i] = Unused
        /\ \A j \in Slots(data) : j # i => data'.at[j] = data.at[j]
    BY <1>1, TableStored DEF IInv, SlotSet
  <1>3. i \in UsedSlots(data)
    BY <1>1 DEF Finds, Holds, UsedSlots, Free
  <1>4. UsedSlots(data') = UsedSlots(data) \ {i}
    BY <1>2 DEF UsedSlots, Free, Unused
  <1>5. Cardinality(UsedSlots(data')) = Cardinality(UsedSlots(data)) - 1
    <2> DEFINE U == UsedSlots(data)
    <2>1. IsFiniteSet(U) /\ i \in U
      BY <1>3, UsedFinite DEF IInv
    <2> HIDE DEF U
    <2>2. Cardinality(U \ {i}) = Cardinality(U) - 1
      BY <2>1, FS_RemoveElement
    <2> QED BY <1>4, <2>2 DEF U
  <1>6. size' = size - 1 /\ size \in Int /\ data \in Tables
    BY DEF gfc_map_remove, IInv
  <1>7. data.len \div 2 \in Int
    BY <1>6, TableParts
  <1> QED BY <1>2, <1>5, <1>6, <1>7, UsedFinite DEF SizeCoversSlots

\* Calls that leave fewer slots in use and the counter as it is.
LEMMA CountFewer ==
  ASSUME IInv, SizeCoversSlots, data' \in Tables, data'.len = data.len, size' = size,
         UsedSlots(data') \subseteq UsedSlots(data)
  PROVE  SizeCoversSlots'
  <1>1. Cardinality(UsedSlots(data')) <= Cardinality(UsedSlots(data))
    BY UsedFinite, FS_Subset DEF IInv
  <1>2. data \in Tables /\ size \in Int
    BY DEF IInv
  <1> QED BY <1>1, <1>2, UsedFinite DEF SizeCoversSlots

LEMMA CountNew == IInv /\ gfc_map_new => SizeCoversSlots'
  <1> SUFFICES ASSUME IInv, gfc_map_new PROVE SizeCoversSlots'
    OBVIOUS
  <1>1. PICK stale \in [StaleNew -> StaleSlot] :
           data' = Table(InitialSize,
                         [i \in 0 .. InitialSize - 1 |->
                             IF i \in StaleNew THEN stale[i] ELSE Unused])
    BY DEF gfc_map_new
  <1>2. UsedSlots(data') \in SUBSET StaleNew /\ data'.len = InitialSize /\ size' = 0
    BY <1>1 DEF UsedSlots, Slots, Free, Table, Unused, gfc_map_new
  <1>3. Cardinality(UsedSlots(data')) <= Cardinality(StaleNew)
    BY <1>2, UsedFinite, FS_Subset
  <1>4. 0 <= InitialSize \div 2
    BY MapConstants
  <1> QED BY <1>2, <1>3, <1>4, UsedFinite DEF SizeCoversSlots

LEMMA CountStep == IInv /\ SizeCoversSlots /\ [Next]_vars => SizeCoversSlots'
  <1> SUFFICES ASSUME IInv, SizeCoversSlots, [Next]_vars PROVE SizeCoversSlots'
    OBVIOUS
  <1>1. CASE gfc_map_new
    BY <1>1, CountNew
  <1>2. CASE gfc_map_free \/ gfc_map_deep_free
    BY <1>2, CountEmpty, MapConstants DEF gfc_map_free, gfc_map_deep_free
  <1>3. CASE gfc_map_iterate
    <2>1. PICK stop \in Slots(data) :
             data' = Table(data.len, [i \in Slots(data) |->
                                        IF i <= stop THEN Unused ELSE data.at[i]])
      BY <1>3 DEF gfc_map_iterate
    <2>2. data' \in Tables /\ data'.len = data.len /\ size' = size
      BY <1>3, <2>1, InvCalls DEF gfc_map_iterate, Table, IInv
    <2>3. UsedSlots(data') \subseteq UsedSlots(data)
      BY <2>1 DEF UsedSlots, Slots, Free, Table, Unused
    <2> QED BY <2>2, <2>3, CountFewer
  <1>4. CASE \E k \in Keys : gfc_map_remove(k)
    BY <1>4, CountRemove
  <1>5. CASE Store
    BY <1>5, CountStore
  <1>6. CASE BeginRehash
    <2>1. 2 * data.len \in Nat \ {0}
      BY TableParts DEF IInv
    <2> QED BY <1>6, <2>1, CountEmpty DEF BeginRehash
  <1>7. CASE UNCHANGED <<data, size>>
    BY <1>7 DEF SizeCoversSlots
  <1> QED BY <1>1, <1>2, <1>3, <1>4, <1>5, <1>6, <1>7
          DEF Next, vars, gfc_map_put, EndRehash, OutOfMemory

\* For every hash, table and chain length: the counter that decides when a
\* table grows covers the slots in use, so that a table is at most half full
\* of entries that were put, through rehashes inside rehashes, keys put twice,
\* removals and a rehash that ran out of memory.
THEOREM CounterCovers == Spec => []SizeCoversSlots
  <1>1. Init => SizeCoversSlots
    <2> SUFFICES ASSUME Init PROVE SizeCoversSlots
      OBVIOUS
    <2>1. UsedSlots(data) = {} /\ data.len = InitialSize /\ size = 0
      BY EmptyIsTable, MapConstants DEF Init, UsedSlots, Free, Unused
    <2>2. 0 <= InitialSize \div 2
      BY MapConstants
    <2> QED BY <2>1, <2>2, FS_EmptySet, UsedFinite DEF SizeCoversSlots
  <1> QED BY Invariance, <1>1, CountStep, PTL DEF Spec

-----------------------------------------------------------------------------
(* Tidy tables.                                                            *)

AllInPlace(t) == \A i \in Slots(t) : Free(t, i) \/ InPlace(t, i)

\* The chain positions before one of the chain are slots of the table.
LEMMA EarlierProbes ==
  ASSUME NEW t \in Tables, NEW k \in Keys, NEW n \in Positions,
         NEW p \in 0 .. n - 1
  PROVE  p \in Positions /\ p \in Nat /\ n \in Nat /\ p < n
         /\ Probe(t.len, k, p) \in Slots(t)
  <1>1. p \in Positions /\ p \in Nat /\ n \in Nat /\ p < n
    BY MapConstants DEF Positions
  <1> QED BY <1>1, ProbeInSlots

\* An entry in place is found, so there is one of its key.
LEMMA InPlaceIsFound ==
  ASSUME NEW t \in Tables, AllInPlace(t), NEW k \in Keys,
         NEW i \in Slots(t), Holds(t, i, k)
  PROVE  /\ Finds(t, k, i) /\ get(t, k) = t.at[i].data
         /\ \A j \in Slots(t) : Holds(t, j, k) => j = i
  <1>1. \A j \in Slots(t) : Holds(t, j, k) => Finds(t, k, j)
    BY DEF AllInPlace, InPlace, Finds, Holds, Free
  <1> QED BY <1>1, FindsOne, GetFound

\* A put keeps every entry in place.
LEMMA PlacedInPlace ==
  ASSUME NEW t \in Tables, AllInPlace(t), NEW k \in Keys,
         NEW v \in Vals \cup {NULL}, NEW i \in Slots(t), Places(t, k, i)
  PROVE  AllInPlace([t EXCEPT !.at[i] = Entry(k, v)])
  <1> DEFINE u == [t EXCEPT !.at[i] = Entry(k, v)]
  <1>1. /\ u \in Tables /\ u.len = t.len /\ Slots(u) = Slots(t)
        /\ u.at[i] = Entry(k, v)
        /\ \A j \in Slots(t) : j # i => u.at[j] = t.at[j]
    BY EntryInSlots, TableStored
  <1> HIDE DEF u
  <1>2. PICK n \in Positions :
           /\ i = Probe(t.len, k, n) /\ (Free(t, i) \/ Holds(t, i, k))
           /\ \A p \in 0 .. n - 1 : /\ ~Free(t, Probe(t.len, k, p))
                                    /\ ~Holds(t, Probe(t.len, k, p), k)
    BY DEF Places
  <1>3. InPlace(u, i)
    <2>1. u.at[i].in_use = 1 /\ u.at[i].key = k
      BY <1>1 DEF Entry
    <2>2. ASSUME NEW p \in 0 .. n - 1
          PROVE  /\ ~Free(u, Probe(u.len, k, p))
                 /\ ~Holds(u, Probe(u.len, k, p), k)
      <3>1. Probe(t.len, k, p) \in Slots(t) /\ Probe(t.len, k, p) # i
        BY <1>2, EarlierProbes
      <3>2. ~Free(t, Probe(t.len, k, p)) /\ ~Holds(t, Probe(t.len, k, p), k)
        BY <1>2
      <3> QED BY <1>1, <3>1, <3>2 DEF Free, Holds
    <2> QED BY <1>1, <1>2, <2>1, <2>2 DEF InPlace
  <1>4. ASSUME NEW x \in Slots(t), x # i, InPlace(t, x)
        PROVE  InPlace(u, x)
    <2> DEFINE kx == t.at[x].key
    <2>1. t.at[x].in_use = 1 /\ t.at[x] \in SlotSet
      BY <1>4, TableParts DEF InPlace
    <2>2. kx \in Keys /\ Holds(t, x, kx)
      BY <2>1 DEF SlotSet, Unused, Holds
    <2>3. PICK m \in Positions :
             /\ x = Probe(t.len, kx, m)
             /\ \A p \in 0 .. m - 1 : /\ ~Free(t, Probe(t.len, kx, p))
                                      /\ ~Holds(t, Probe(t.len, kx, p), kx)
      BY <1>4 DEF InPlace
    <2>4. u.at[x] = t.at[x]
      BY <1>1, <1>4
    <2> HIDE DEF kx
    <2>5. ASSUME NEW p \in 0 .. m - 1
          PROVE  /\ ~Free(u, Probe(u.len, kx, p))
                 /\ ~Holds(u, Probe(u.len, kx, p), kx)
      <3>1. Probe(t.len, kx, p) \in Slots(t)
        BY <2>2, EarlierProbes
      <3>2. ~Free(t, Probe(t.len, kx, p)) /\ ~Holds(t, Probe(t.len, kx, p), kx)
        BY <2>3
      <3>3. CASE Probe(t.len, kx, p) # i
        BY <1>1, <3>1, <3>2, <3>3 DEF Free, Holds
      <3>4. CASE Probe(t.len, kx, p) = i
        <4>1. kx # k
          BY <1>2, <3>2, <3>4
        <4> QED BY <1>1, <3>4, <4>1 DEF Free, Holds, Entry
      <3> QED BY <3>3, <3>4
    <2> QED BY <1>1, <2>1, <2>3, <2>4, <2>5 DEF InPlace, kx
  <1>5. \A x \in Slots(u) : Free(u, x) \/ InPlace(u, x)
    BY <1>1, <1>3, <1>4 DEF AllInPlace, Free
  <1> QED BY <1>5 DEF AllInPlace, u

\* A used slot of a tidy table holds its key.
LEMMA UsedHolds ==
  ASSUME NEW t \in Tables, AllInPlace(t), NEW i \in UsedSlots(t)
  PROVE  t.at[i].key \in Keys /\ Holds(t, i, t.at[i].key) /\ i \in Slots(t)
  <1>1. i \in Slots(t) /\ InPlace(t, i) /\ t.at[i] \in SlotSet
    BY TableParts DEF UsedSlots, AllInPlace
  <1> QED BY <1>1 DEF InPlace, Holds, SlotSet, Unused

-----------------------------------------------------------------------------
(* Values.  The lemmas are implications, so that they hold of both states  *)
(* of a step.                                                              *)

WaitingFact ==
  rehashes \in Seq(Frames) =>
    \A k \in Keys : \A w : w \in WaitingFor(k) <=>
       \E f \in 1 .. Len(rehashes) : \E i \in rehashes[f].left :
           w = [f |-> f, i |-> i] /\ rehashes[f].old.at[i].key = k
LEMMA WaitingIs == WaitingFact /\ WaitingFact'
  <1>1. WaitingFact
    <2> SUFFICES ASSUME rehashes \in Seq(Frames), NEW k \in Keys, NEW w
                 PROVE  w \in WaitingFor(k) <=>
                          \E f \in 1 .. Len(rehashes) : \E i \in rehashes[f].left :
                             /\ w = [f |-> f, i |-> i]
                             /\ rehashes[f].old.at[i].key = k
      BY DEF WaitingFact
    <2>1. DOMAIN rehashes = 1 .. Len(rehashes)
      BY LenProperties
    <2> QED BY <2>1 DEF WaitingFor
  <1> QED BY <1>1, PTL

NoneFact ==
  IInv /\ ~Nested => \A k \in Keys : /\ WaitingFor(k) = {}
                                     /\ Value(k) = get(data, k)
LEMMA NoneWaits == NoneFact /\ NoneFact'
  <1>1. NoneFact
    BY DEF WaitingFor, Value, Nested, NoneFact
  <1> QED BY <1>1, PTL

TidyFact ==
  Tidy <=> /\ AllInPlace(data)
           /\ \A k \in Keys : \A w \in WaitingFor(k) :
                 /\ Moving(w).in_use = 1
                 /\ \A j \in Slots(data) : ~Holds(data, j, k)
                 /\ WaitingFor(k) = {w}
LEMMA TidyParts == TidyFact /\ TidyFact'
  <1>1. TidyFact
    BY DEF Tidy, AllInPlace, TidyFact
  <1> QED BY <1>1, PTL

HeldFact ==
  IInv /\ Tidy => \A k \in Keys : \A i \in Slots(data) :
     Holds(data, i, k) => /\ Value(k) = data.at[i].data
                          /\ get(data, k) = data.at[i].data
LEMMA ValueHeld == HeldFact /\ HeldFact'
  <1>1. HeldFact
    <2> SUFFICES ASSUME IInv, Tidy, NEW k \in Keys, NEW i \in Slots(data),
                        Holds(data, i, k)
                 PROVE  /\ Value(k) = data.at[i].data
                        /\ get(data, k) = data.at[i].data
      BY DEF HeldFact
    <2>1. Finds(data, k, i) /\ get(data, k) = data.at[i].data
      BY TidyParts, InPlaceIsFound DEF IInv, TidyFact
    <2> QED BY <2>1 DEF Value
  <1> QED BY <1>1, PTL

MissingFact ==
  \A k \in Keys : (\A i \in Slots(data) : ~Holds(data, i, k)) =>
     /\ get(data, k) = NULL
     /\ WaitingFor(k) = {} => Value(k) = NULL
     /\ \A w : WaitingFor(k) = {w} => Value(k) = Moving(w).data
LEMMA ValueMissing == MissingFact /\ MissingFact'
  <1>1. MissingFact
    <2> SUFFICES ASSUME NEW k \in Keys, \A i \in Slots(data) : ~Holds(data, i, k)
                 PROVE  /\ get(data, k) = NULL
                        /\ WaitingFor(k) = {} => Value(k) = NULL
                        /\ \A w : WaitingFor(k) = {w} => Value(k) = Moving(w).data
      BY DEF MissingFact
    <2>1. \A i \in Slots(data) : ~Finds(data, k, i)
      BY DEF Finds
    <2>2. get(data, k) = NULL
      BY <2>1, GetMissing
    <2>3. ASSUME NEW w, WaitingFor(k) = {w}
          PROVE  (CHOOSE x \in WaitingFor(k) : TRUE) = w /\ WaitingFor(k) # {}
      BY <2>3
    <2> QED BY <2>1, <2>2, <2>3 DEF Value
  <1> QED BY <1>1, PTL

TypeFact == IInv => \A k \in Keys : /\ Value(k) \in Vals \cup {NULL}
                                           /\ get(data, k) \in Vals \cup {NULL}
LEMMA ValueType == TypeFact /\ TypeFact'
  <1>1. TypeFact
    <2> SUFFICES ASSUME IInv, NEW k \in Keys
                 PROVE  /\ Value(k) \in Vals \cup {NULL}
                        /\ get(data, k) \in Vals \cup {NULL}
      BY DEF TypeFact
    <2>1. \A s \in SlotSet : s.data \in Vals \cup {NULL}
      BY DEF SlotSet, Unused
    <2>2. get(data, k) \in Vals \cup {NULL}
      <3>1. \A i \in Slots(data) : data.at[i] \in SlotSet
        BY TableParts DEF IInv
      <3> QED BY <2>1, <3>1, GetFound, GetMissing DEF IInv
    <2>3. \A w \in WaitingFor(k) : Moving(w) \in SlotSet
      <3> SUFFICES ASSUME NEW w \in WaitingFor(k) PROVE Moving(w) \in SlotSet
        OBVIOUS
      <3>1. PICK f \in 1 .. Len(rehashes) : \E i \in rehashes[f].left :
               w = [f |-> f, i |-> i]
        BY WaitingIs DEF IInv, WaitingFact
      <3>2. PICK i \in rehashes[f].left : w = [f |-> f, i |-> i]
        BY <3>1
      <3>3. rehashes[f] \in Frames /\ i \in Slots(rehashes[f].old)
        BY <3>1, <3>2, ElementOfSeq DEF IInv, UsedSlots
      <3>4. rehashes[f].old.at[i] \in SlotSet
        BY <3>3, TableParts DEF Frames
      <3> QED BY <3>2, <3>4 DEF Moving
    <2> QED BY <2>1, <2>2, <2>3 DEF Value
  <1> QED BY <1>1, PTL

-----------------------------------------------------------------------------
(* The steps, as PlainMap sees them.                                       *)

\* A rehash moves an entry of a tidy map: no value changes.
LEMMA MoveStep ==
  IInv /\ Tidy /\ Store /\ Nested =>
    Tidy' /\ \A k \in Keys : Value(k)' = Value(k)
  <1> SUFFICES ASSUME IInv, Tidy, Store, Nested
               PROVE  Tidy' /\ \A k \in Keys : Value(k)' = Value(k)
    OBVIOUS
  <1> DEFINE n == Len(rehashes)
             w0 == [f |-> n, i |-> NextSlot]
  <1>1. /\ IInv' /\ AtSlot /\ PutKey \in Keys /\ PutData \in Vals \cup {NULL}
        /\ n \in 1 .. n /\ Entry(PutKey, PutData) \in SlotSet
    BY InvStore, PutEntry, TopFrame DEF Store
  <1>2. PICK k0 \in Keys, v0 \in Vals \cup {NULL} : k0 = PutKey /\ v0 = PutData
    BY <1>1
  <1>3. PICK i \in Slots(data) :
           Places(data, k0, i) /\ data' = [data EXCEPT !.at[i] = Entry(k0, v0)]
    BY <1>2, StoredTable
  <1>4. /\ data \in Tables /\ data' \in Tables /\ Slots(data') = Slots(data)
        /\ data'.at[i] = Entry(k0, v0)
        /\ \A j \in Slots(data) : j # i => data'.at[j] = data.at[j]
        /\ AllInPlace(data')
    <2>1. data \in Tables /\ AllInPlace(data) /\ Entry(k0, v0) \in SlotSet
      BY EntryInSlots, TidyParts DEF IInv, TidyFact
    <2>2. AllInPlace(data')
      BY <1>3, <2>1, PlacedInPlace
    <2> QED BY <1>3, <2>1, <2>2, TableStored
  <1>5. /\ NextSlot \in Top.left /\ k0 = Top.old.at[NextSlot].key
        /\ v0 = Top.old.at[NextSlot].data
    BY <1>1, <1>2, NextIsLeft DEF PutKey, PutData
  <1>6. w0 \in WaitingFor(k0) /\ Moving(w0).data = v0
    BY <1>1, <1>5, WaitingIs DEF IInv, Top, Moving, WaitingFact
  <1>7. /\ Len(rehashes') = n /\ rehashes' \in Seq(Frames)
        /\ \A f \in 1 .. n :
              /\ rehashes'[f].old = rehashes[f].old
              /\ rehashes'[f].left = IF f = n THEN Top.left \ {NextSlot}
                                              ELSE rehashes[f].left
    BY <1>1, AdvancedFrames DEF Store
  <1>8. ASSUME NEW k \in Keys, NEW w \in WaitingFor(k)'
        PROVE  w \in WaitingFor(k) /\ w # w0 /\ Moving(w)' = Moving(w)
    <2>1. PICK f \in 1 .. n : \E x \in rehashes'[f].left :
             w = [f |-> f, i |-> x] /\ rehashes'[f].old.at[x].key = k
      BY <1>7, <1>8, WaitingIs DEF WaitingFact
    <2>2. PICK x \in rehashes'[f].left :
             w = [f |-> f, i |-> x] /\ rehashes'[f].old.at[x].key = k
      BY <2>1
    <2>3. x \in rehashes[f].left /\ ~(f = n /\ x = NextSlot)
      BY <1>7, <2>2 DEF Top
    <2>4. w \in WaitingFor(k) /\ w # w0
      BY <1>7, <2>2, <2>3, WaitingIs DEF IInv, WaitingFact
    <2> QED BY <1>7, <2>2, <2>4 DEF Moving
  <1>9. ASSUME NEW k \in Keys, NEW w \in WaitingFor(k), w # w0
        PROVE  w \in WaitingFor(k)' /\ Moving(w)' = Moving(w)
    <2>1. PICK f \in 1 .. n : \E x \in rehashes[f].left :
             w = [f |-> f, i |-> x] /\ rehashes[f].old.at[x].key = k
      BY <1>9, WaitingIs DEF IInv, WaitingFact
    <2>2. PICK x \in rehashes[f].left :
             w = [f |-> f, i |-> x] /\ rehashes[f].old.at[x].key = k
      BY <2>1
    <2>3. x \in rehashes'[f].left
      BY <1>7, <1>9, <2>2 DEF Top
    <2>4. w \in WaitingFor(k)'
      BY <1>7, <2>2, <2>3, WaitingIs DEF WaitingFact
    <2> QED BY <1>7, <2>2, <2>4 DEF Moving
  <1>10. /\ WaitingFor(k0) = {w0} /\ WaitingFor(k0)' = {}
         /\ \A j \in Slots(data) : ~Holds(data, j, k0)
    <2>1. /\ WaitingFor(k0) = {w0}
          /\ \A j \in Slots(data) : ~Holds(data, j, k0)
      BY <1>6, TidyParts DEF TidyFact
    <2> QED BY <2>1, <1>8
  <1>11. Holds(data', i, k0) /\ data'.at[i].data = v0
    BY <1>4 DEF Holds, Entry
  <1>12. ASSUME NEW k \in Keys \ {k0}, NEW x \in Slots(data)
         PROVE  /\ Holds(data', x, k) <=> Holds(data, x, k)
                /\ Holds(data, x, k) => data'.at[x].data = data.at[x].data
    <2>1. Free(data, i)
      BY <1>3, <1>10 DEF Places
    <2> QED BY <1>4, <2>1 DEF Holds, Free, Entry
  <1>13. ASSUME NEW k \in Keys, NEW w \in WaitingFor(k)
         PROVE  WaitingFor(k) = {w}
    BY <1>13, TidyParts DEF TidyFact
  <1>14. ASSUME NEW k \in Keys, NEW w \in WaitingFor(k)'
         PROVE  /\ k # k0 /\ WaitingFor(k) = {w} /\ WaitingFor(k)' = {w}
                /\ Moving(w)' = Moving(w)
                /\ \A j \in Slots(data) : ~Holds(data', j, k)
    <2>1. k # k0 /\ w \in WaitingFor(k) /\ Moving(w)' = Moving(w)
      BY <1>8, <1>10, <1>14
    <2>2. WaitingFor(k) = {w} /\ \A j \in Slots(data) : ~Holds(data, j, k)
      BY <2>1, TidyParts DEF TidyFact
    <2>3. WaitingFor(k)' = {w}
      BY <1>8, <1>14, <2>2
    <2> QED BY <1>12, <2>1, <2>2, <2>3
  <1>15. Tidy'
    <2>1. \A k \in Keys : \A w \in WaitingFor(k)' : Moving(w)'.in_use = 1
      BY <1>8, TidyParts DEF TidyFact
    <2> QED BY <1>4, <1>14, <2>1, TidyParts DEF TidyFact
  <1>16. Value(k0)' = Value(k0)
    <2>1. Value(k0) = v0
      BY <1>6, <1>10, ValueMissing DEF MissingFact
    <2> QED BY <1>1, <1>4, <1>11, <1>15, <2>1, ValueHeld DEF HeldFact
  <1>17. ASSUME NEW k \in Keys \ {k0} PROVE Value(k)' = Value(k)
    <2>1. CASE \E x \in Slots(data) : Holds(data, x, k)
      BY <1>1, <1>4, <1>12, <1>15, <2>1, ValueHeld DEF HeldFact
    <2>2. ASSUME \A x \in Slots(data) : ~Holds(data, x, k)
          PROVE  \A x \in Slots(data)' : ~Holds(data', x, k)
      BY <1>4, <1>12, <2>2
    <2>3. CASE (\A x \in Slots(data) : ~Holds(data, x, k)) /\ WaitingFor(k) = {}
      <3>1. WaitingFor(k)' = {}
        BY <1>8, <2>3
      <3> QED BY <2>2, <2>3, <3>1, ValueMissing DEF MissingFact
    <2>4. ASSUME \A x \in Slots(data) : ~Holds(data, x, k),
                 NEW w \in WaitingFor(k)
          PROVE  Value(k)' = Value(k)
      <3>1. w # w0
        BY <1>6, <1>12, WaitingIs, <2>4, <1>5 DEF WaitingFact, Top, IInv
      <3>2. w \in WaitingFor(k)' /\ Moving(w)' = Moving(w)
        BY <1>9, <2>4, <3>1
      <3>3. WaitingFor(k)' = {w} /\ WaitingFor(k) = {w}
        BY <1>14, <3>2
      <3> QED BY <2>2, <2>4, <3>2, <3>3, ValueMissing DEF MissingFact
    <2> QED BY <2>1, <2>3, <2>4
  <1> QED BY <1>15, <1>16, <1>17

\* The caller's entry is stored: its key has the new value, the others keep
\* theirs, and a tidy map stays tidy.
LEMMA PutStep ==
  IInv /\ Store /\ ~Nested =>
    \E k0 \in Keys : \E v0 \in Vals :
       /\ k0 = pending.key /\ v0 = pending.data
       /\ Value(k0)' = v0
       /\ \A k \in Keys \ {k0} : Value(k)' = Value(k)
       /\ Tidy => Tidy'
  <1> SUFFICES ASSUME IInv, Store, ~Nested
               PROVE  \E k0 \in Keys : \E v0 \in Vals :
                         /\ k0 = pending.key /\ v0 = pending.data
                         /\ Value(k0)' = v0
                         /\ \A k \in Keys \ {k0} : Value(k)' = Value(k)
                         /\ Tidy => Tidy'
    OBVIOUS
  <1>1. /\ IInv' /\ PutKey \in Keys /\ PutData \in Vals /\ rehashes' = rehashes
        /\ PutKey = pending.key /\ PutData = pending.data
    BY InvStore, PutEntry DEF Store
  <1>2. PICK k0 \in Keys, v0 \in Vals : k0 = PutKey /\ v0 = PutData
    BY <1>1
  <1>3. PICK i \in Slots(data) :
           Places(data, k0, i) /\ data' = [data EXCEPT !.at[i] = Entry(k0, v0)]
    BY <1>2, StoredTable
  <1>4. data \in Tables /\ Entry(k0, v0) \in SlotSet /\ Entry(k0, v0).key = k0
    BY EntryInSlots DEF IInv, Entry
  <1>5. get(data', k0) = v0
    BY <1>3, <1>4, PlacedIsFound
  <1>6. \A k \in Keys \ {k0} : get(data', k) = get(data, k)
    <2>1. Free(data, i) \/ Holds(data, i, k0)
      BY <1>3 DEF Places
    <2> QED BY <1>3, <1>4, <2>1, OthersKeep
  <1>7. ~Nested'
    BY <1>1 DEF Nested
  <1>8. \A k \in Keys : /\ Value(k) = get(data, k) /\ Value(k)' = get(data', k)
                        /\ WaitingFor(k)' = {}
    BY <1>1, <1>7, NoneWaits DEF NoneFact
  <1>9. Tidy => Tidy'
    <2>1. Tidy => AllInPlace(data')
      BY <1>3, <1>4, PlacedInPlace, TidyParts DEF TidyFact
    <2> QED BY <1>8, <2>1, TidyParts DEF TidyFact
  <1> QED BY <1>1, <1>2, <1>5, <1>6, <1>8, <1>9

\* A rehash of a tidy map begins: no value changes.
LEMMA BeginStep ==
  IInv /\ Tidy /\ BeginRehash => Tidy' /\ \A k \in Keys : Value(k)' = Value(k)
  <1> SUFFICES ASSUME IInv, Tidy, BeginRehash
               PROVE  Tidy' /\ \A k \in Keys : Value(k)' = Value(k)
    OBVIOUS
  <1>0. PICK n \in Nat : n = Len(rehashes)
    BY LenProperties DEF IInv
  <1>1. IInv' /\ data \in Tables /\ AllInPlace(data)
    BY InvRehash, TidyParts DEF IInv, TidyFact
  <1>2. \A j \in Slots(data') : Free(data', j)
    <2>1. data.len \in Nat \ {0} /\ 2 * data.len \in Nat \ {0}
      BY <1>1, TableParts
    <2> QED BY <2>1, EmptyIsTable DEF BeginRehash, Free, Unused
  <1>3. /\ Len(rehashes') = n + 1
        /\ \A f \in 1 .. n : rehashes'[f] = rehashes[f]
        /\ rehashes'[n + 1].old = data /\ rehashes'[n + 1].left = UsedSlots(data)
    BY <1>0, BegunFrames DEF BeginRehash
  <1>4. ASSUME NEW k \in Keys, NEW x \in Slots(data), Holds(data, x, k)
        PROVE  /\ WaitingFor(k)' = {[f |-> n + 1, i |-> x]}
               /\ Moving([f |-> n + 1, i |-> x])' = data.at[x]
    <2>1. WaitingFor(k) = {}
      BY <1>4, TidyParts DEF TidyFact
    <2>2. \A j \in Slots(data) : Holds(data, j, k) => j = x
      BY <1>1, <1>4, InPlaceIsFound
    <2>3. ASSUME NEW w \in WaitingFor(k)' PROVE w = [f |-> n + 1, i |-> x]
      <3>1. PICK f \in 1 .. Len(rehashes') : \E j \in rehashes'[f].left :
               w = [f |-> f, i |-> j] /\ rehashes'[f].old.at[j].key = k
        BY <1>1, <2>3, WaitingIs DEF IInv, WaitingFact
      <3>2. PICK j \in rehashes'[f].left :
               w = [f |-> f, i |-> j] /\ rehashes'[f].old.at[j].key = k
        BY <3>1
      <3>3. CASE f \in 1 .. n
        <4>1. w \in WaitingFor(k)
          BY <1>0, <1>3, <3>2, <3>3, WaitingIs DEF IInv, WaitingFact
        <4> QED BY <2>1, <4>1
      <3>4. CASE f = n + 1
        <4>1. j \in UsedSlots(data) /\ data.at[j].key = k
          BY <1>3, <3>2, <3>4
        <4>2. j = x
          BY <1>1, <2>2, <4>1, UsedHolds
        <4> QED BY <3>2, <3>4, <4>2
      <3> QED BY <1>1, <1>3, <3>1, <3>3, <3>4
    <2>4. x \in UsedSlots(data) /\ data.at[x].key = k
      BY <1>4 DEF UsedSlots, Holds, Free
    <2>5. n + 1 \in 1 .. Len(rehashes')
      BY <1>1, <1>3
    <2>6. [f |-> n + 1, i |-> x] \in WaitingFor(k)'
      BY <1>1, <1>3, <2>4, <2>5, WaitingIs DEF IInv, WaitingFact
    <2> QED BY <1>3, <2>3, <2>6 DEF Moving
  <1>5. ASSUME NEW k \in Keys, \A x \in Slots(data) : ~Holds(data, x, k)
        PROVE  /\ WaitingFor(k)' = WaitingFor(k)
               /\ \A w \in WaitingFor(k) : Moving(w)' = Moving(w)
    <2>1. ASSUME NEW w \in WaitingFor(k)
          PROVE  w \in WaitingFor(k)' /\ Moving(w)' = Moving(w)
      <3>1. PICK f \in 1 .. n : \E j \in rehashes[f].left :
               w = [f |-> f, i |-> j] /\ rehashes[f].old.at[j].key = k
        BY <1>0, <2>1, WaitingIs DEF IInv, WaitingFact
      <3>2. rehashes'[f] = rehashes[f] /\ f \in 1 .. Len(rehashes')
        BY <1>1, <1>3
      <3> QED BY <1>1, <3>1, <3>2, WaitingIs DEF IInv, WaitingFact, Moving
    <2>2. ASSUME NEW w \in WaitingFor(k)' PROVE w \in WaitingFor(k)
      <3>1. PICK f \in 1 .. Len(rehashes') : \E j \in rehashes'[f].left :
               w = [f |-> f, i |-> j] /\ rehashes'[f].old.at[j].key = k
        BY <1>1, <2>2, WaitingIs DEF IInv, WaitingFact
      <3>2. f # n + 1
        BY <1>1, <1>3, <1>5, <3>1, UsedHolds
      <3>3. f \in 1 .. n /\ rehashes'[f] = rehashes[f]
        BY <1>1, <1>3, <3>2
      <3> QED BY <1>0, <3>1, <3>3, WaitingIs DEF IInv, WaitingFact
    <2> QED BY <2>1, <2>2
  <1>6. \A k \in Keys, x \in Slots(data') : ~Holds(data', x, k)
    BY <1>2 DEF Holds, Free
  <1>7. Tidy'
    <2>1. AllInPlace(data')
      BY <1>2 DEF AllInPlace
    <2>2. ASSUME NEW k \in Keys, NEW w \in WaitingFor(k)'
          PROVE  Moving(w)'.in_use = 1 /\ WaitingFor(k)' = {w}
      <3>1. CASE \E x \in Slots(data) : Holds(data, x, k)
        <4>1. PICK x \in Slots(data) : Holds(data, x, k)
          BY <3>1
        <4> QED BY <1>4, <2>2, <4>1 DEF Holds
      <3>2. CASE \A x \in Slots(data) : ~Holds(data, x, k)
        BY <1>5, <2>2, <3>2, TidyParts DEF TidyFact
      <3> QED BY <3>1, <3>2
    <2> QED BY <1>6, <2>1, <2>2, TidyParts DEF TidyFact
  <1>8. ASSUME NEW k \in Keys PROVE Value(k)' = Value(k)
    <2>1. CASE \E x \in Slots(data) : Holds(data, x, k)
      <3>1. PICK x \in Slots(data) : Holds(data, x, k)
        BY <2>1
      <3>2. Value(k) = data.at[x].data
        BY <3>1, ValueHeld DEF HeldFact
      <3>3. PICK w : WaitingFor(k)' = {w} /\ Moving(w)' = data.at[x]
        <4> DEFINE v == [f |-> n + 1, i |-> x]
        <4>1. WaitingFor(k)' = {v} /\ Moving(v)' = data.at[x]
          BY <1>4, <3>1
        <4> HIDE DEF v
        <4> QED BY <4>1
      <3>4. Value(k)' = data.at[x].data
        BY <1>6, <3>3, ValueMissing DEF MissingFact
      <3> QED BY <3>2, <3>4
    <2>2. CASE \A x \in Slots(data) : ~Holds(data, x, k)
      <3>1. CASE WaitingFor(k) = {}
        BY <1>5, <1>6, <2>2, <3>1, ValueMissing DEF MissingFact
      <3>2. ASSUME NEW w \in WaitingFor(k) PROVE Value(k)' = Value(k)
        <4>1. WaitingFor(k) = {w}
          BY <3>2, TidyParts DEF TidyFact
        <4>2. WaitingFor(k)' = {w} /\ Moving(w)' = Moving(w)
          BY <1>5, <2>2, <4>1
        <4> QED BY <1>6, <2>2, <4>1, <4>2, ValueMissing DEF MissingFact
      <3> QED BY <3>1, <3>2
    <2> QED BY <2>1, <2>2
  <1> QED BY <1>7, <1>8

\* A rehash returns: nothing waited in its frame.
LEMMA EndStep ==
  IInv /\ Tidy /\ EndRehash => Tidy' /\ \A k \in Keys : Value(k)' = Value(k)
  <1> SUFFICES ASSUME IInv, Tidy, EndRehash
               PROVE  Tidy' /\ \A k \in Keys : Value(k)' = Value(k)
    OBVIOUS
  <1>1. PICK n \in Nat \ {0} : n = Len(rehashes)
    BY EndedFrames DEF EndRehash
  <1>2. IInv' /\ data' = data /\ rehashes[n].left = {}
    BY <1>1, InvRehash DEF EndRehash, Top
  <1>3. /\ Len(rehashes') = n - 1
        /\ \A f \in 1 .. n - 1 : rehashes'[f] = rehashes[f]
    BY <1>1, EndedFrames DEF EndRehash
  <1>4. ASSUME NEW k \in Keys
        PROVE  /\ WaitingFor(k)' = WaitingFor(k)
               /\ \A w \in WaitingFor(k) : Moving(w)' = Moving(w)
    <2>1. ASSUME NEW w \in WaitingFor(k)
          PROVE  w \in WaitingFor(k)' /\ Moving(w)' = Moving(w)
      <3>1. PICK f \in 1 .. n : \E j \in rehashes[f].left :
               w = [f |-> f, i |-> j] /\ rehashes[f].old.at[j].key = k
        BY <1>1, <2>1, WaitingIs DEF IInv, WaitingFact
      <3>2. f \in 1 .. n - 1
        BY <1>2, <3>1
      <3>3. rehashes'[f] = rehashes[f] /\ f \in 1 .. Len(rehashes')
        BY <1>3, <3>2
      <3> QED BY <1>2, <3>1, <3>3, WaitingIs DEF IInv, WaitingFact, Moving
    <2>2. ASSUME NEW w \in WaitingFor(k)' PROVE w \in WaitingFor(k)
      <3>1. PICK f \in 1 .. n - 1 : \E j \in rehashes'[f].left :
               w = [f |-> f, i |-> j] /\ rehashes'[f].old.at[j].key = k
        BY <1>2, <1>3, <2>2, WaitingIs DEF IInv, WaitingFact
      <3>2. f \in 1 .. n /\ rehashes'[f] = rehashes[f]
        BY <1>3
      <3> QED BY <1>1, <3>1, <3>2, WaitingIs DEF IInv, WaitingFact
    <2> QED BY <2>1, <2>2
  <1>5. Tidy'
    <2>1. ASSUME NEW k \in Keys, NEW w \in WaitingFor(k)'
          PROVE  /\ Moving(w)'.in_use = 1 /\ WaitingFor(k)' = {w}
                 /\ \A j \in Slots(data') : ~Holds(data', j, k)
      BY <1>2, <1>4, <2>1, TidyParts DEF TidyFact
    <2> QED BY <1>2, <2>1, TidyParts DEF TidyFact
  <1>6. ASSUME NEW k \in Keys PROVE Value(k)' = Value(k)
    <2>1. CASE \E x \in Slots(data) : Holds(data, x, k)
      BY <1>2, <1>5, <2>1, ValueHeld DEF HeldFact
    <2>2. CASE \A x \in Slots(data) : ~Holds(data, x, k)
      <3>1. CASE WaitingFor(k) = {}
        BY <1>2, <1>4, <2>2, <3>1, ValueMissing DEF MissingFact
      <3>2. ASSUME NEW w \in WaitingFor(k) PROVE Value(k)' = Value(k)
        <4>1. WaitingFor(k) = {w} /\ WaitingFor(k)' = {w} /\ Moving(w)' = Moving(w)
          BY <1>4, <3>2, TidyParts DEF TidyFact
        <4> QED BY <1>2, <2>2, <4>1, ValueMissing DEF MissingFact
      <3> QED BY <3>1, <3>2
    <2> QED BY <2>1, <2>2
  <1> QED BY <1>5, <1>6

\* A put of a tidy map that runs out of memory keeps or loses each key.
LEMMA OutOfMemoryStep ==
  IInv /\ Tidy /\ OutOfMemory => \A k \in Keys : Value(k)' \in {Value(k), NULL}
  <1> SUFFICES ASSUME IInv, Tidy, OutOfMemory, NEW k \in Keys
               PROVE  Value(k)' \in {Value(k), NULL}
    OBVIOUS
  <1>1. IInv' /\ ~Nested' /\ data' = data
    BY InvRehash DEF OutOfMemory, Nested
  <1>2. Value(k)' = get(data, k)
    BY <1>1, NoneWaits DEF NoneFact
  <1>3. CASE \E x \in Slots(data) : Holds(data, x, k)
    BY <1>2, <1>3, ValueHeld DEF HeldFact
  <1>4. CASE \A x \in Slots(data) : ~Holds(data, x, k)
    BY <1>2, <1>4, ValueMissing DEF MissingFact
  <1> QED BY <1>3, <1>4

\* A removal touches one key, and takes the only entry of a tidy map.
LEMMA RemoveStep ==
  ASSUME NEW k \in Keys
  PROVE  IInv /\ gfc_map_remove(k) =>
           /\ \A j \in Keys \ {k} : Value(j)' = Value(j)
           /\ Value(k)' \in Vals \cup {NULL}
           /\ Tidy => Value(k)' = NULL
  <1> SUFFICES ASSUME IInv, gfc_map_remove(k)
               PROVE  /\ \A j \in Keys \ {k} : Value(j)' = Value(j)
                      /\ Value(k)' \in Vals \cup {NULL}
                      /\ Tidy => Value(k)' = NULL
    OBVIOUS
  <1>1. IInv' /\ ~Nested /\ ~Nested' /\ data \in Tables /\ Unused \in SlotSet
    BY InvCalls DEF gfc_map_remove, Ready, IInv, Nested, SlotSet
  <1>2. PICK i \in Slots(data) :
           Finds(data, k, i) /\ data' = [data EXCEPT !.at[i] = Unused]
    BY DEF gfc_map_remove
  <1>3. Holds(data, i, k)
    BY <1>2 DEF Finds
  <1>4. \A j \in Keys : Value(j) = get(data, j) /\ Value(j)' = get(data', j)
    BY <1>1, NoneWaits DEF NoneFact
  <1>5. \A j \in Keys \ {k} : get(data', j) = get(data, j)
    BY <1>1, <1>2, <1>3, OthersKeep
  <1>6. ASSUME Tidy PROVE get(data', k) = NULL
    <2>1. \A x \in Slots(data) : Holds(data, x, k) => x = i
      BY <1>1, <1>3, <1>6, TidyParts, InPlaceIsFound DEF TidyFact
    <2>2. /\ Slots(data') = Slots(data) /\ data'.at[i] = Unused
          /\ \A x \in Slots(data) : x # i => data'.at[x] = data.at[x]
      BY <1>1, <1>2, TableStored
    <2>3. \A x \in Slots(data') : ~Holds(data', x, k)
      BY <2>1, <2>2 DEF Holds, Unused
    <2> QED BY <2>3, ValueMissing DEF MissingFact
  <1> QED BY <1>1, <1>4, <1>5, <1>6, ValueType DEF TypeFact

\* gfc_map_iterate leaves each key of a tidy map its value, or clears it.
LEMMA IterateStep ==
  IInv /\ Tidy /\ gfc_map_iterate => \A k \in Keys : Value(k)' \in {Value(k), NULL}
  <1> SUFFICES ASSUME IInv, Tidy, gfc_map_iterate, NEW k \in Keys
               PROVE  Value(k)' \in {Value(k), NULL}
    OBVIOUS
  <1>1. IInv' /\ ~Nested' /\ data \in Tables /\ data' \in Tables
    BY InvCalls DEF gfc_map_iterate, Ready, IInv, Nested
  <1>2. PICK stop \in Slots(data) :
           data' = Table(data.len, [i \in Slots(data) |->
                                      IF i <= stop THEN Unused ELSE data.at[i]])
    BY DEF gfc_map_iterate
  <1>3. Slots(data') = Slots(data)
    BY <1>2 DEF Slots, Table
  <1>4. \A x \in Slots(data) : Holds(data', x, k) =>
           Holds(data, x, k) /\ data'.at[x] = data.at[x]
    BY <1>2 DEF Table, Holds, Unused
  <1>5. Value(k)' = get(data', k)
    BY <1>1, NoneWaits DEF NoneFact
  <1>6. CASE \E x \in Slots(data) : Finds(data', k, x)
    <2>1. PICK x \in Slots(data) : Finds(data', k, x)
      BY <1>6
    <2>2. Holds(data', x, k)
      BY <2>1 DEF Finds
    <2>3. get(data', k) = data.at[x].data
      BY <1>1, <1>3, <1>4, <2>1, <2>2, GetFound
    <2> QED BY <1>4, <1>5, <2>2, <2>3, ValueHeld DEF HeldFact
  <1>7. CASE ~\E x \in Slots(data) : Finds(data', k, x)
    BY <1>3, <1>5, <1>7, GetMissing
  <1> QED BY <1>6, <1>7

\* A map just made, or just freed, has no values.
LEMMA RenewStep ==
  IInv /\ (gfc_map_new \/ gfc_map_free) => \A k \in Keys : Value(k)' = NULL
  <1> SUFFICES ASSUME IInv, gfc_map_new \/ gfc_map_free, NEW k \in Keys
               PROVE  Value(k)' = NULL
    OBVIOUS
  <1>1. IInv' /\ ~Nested' /\ data' \in Tables
    BY InvCalls DEF gfc_map_new, gfc_map_free, Ready, IInv, Nested
  <1>2. Value(k)' = get(data', k)
    BY <1>1, NoneWaits DEF NoneFact
  <1>3. \A x \in Slots(data') : Holds(data', x, k) => data'.at[x].data = NULL
    <2>1. CASE gfc_map_new
      <3>1. PICK stale \in [StaleNew -> StaleSlot] :
               data' = Table(InitialSize,
                             [i \in 0 .. InitialSize - 1 |->
                                 IF i \in StaleNew THEN stale[i] ELSE Unused])
        BY <2>1 DEF gfc_map_new
      <3>2. \A s \in StaleSlot : s.data = NULL
        BY DEF StaleSlot, Unused
      <3>3. Unused.data = NULL
        BY DEF Unused
      <3> QED BY <3>1, <3>2, <3>3 DEF Table, Slots
    <2>2. CASE gfc_map_free
      BY <2>2, EmptyIsTable, MapConstants DEF gfc_map_free, Holds, Unused
    <2> QED BY <2>1, <2>2
  <1>4. \A x \in Slots(data') : Finds(data', k, x) => Holds(data', x, k)
    BY DEF Finds
  <1>5. CASE \E x \in Slots(data') : Finds(data', k, x)
    BY <1>1, <1>2, <1>3, <1>4, <1>5, GetFound
  <1>6. CASE ~\E x \in Slots(data') : Finds(data', k, x)
    BY <1>2, <1>6, GetMissing
  <1> QED BY <1>5, <1>6

-----------------------------------------------------------------------------
(* The table implements PlainMap.                                          *)

Values == [k \in Keys |-> Value(k)]

LEMMA TidyIsBoolean == Tidy \in BOOLEAN /\ Tidy' \in BOOLEAN
  BY DEF Tidy

\* Calls that change neither the table nor the rehashes under way.
LEMMA SameTable ==
  data' = data /\ rehashes' = rehashes => Values' = Values /\ Tidy' = Tidy
  <1> SUFFICES ASSUME data' = data, rehashes' = rehashes
               PROVE  Values' = Values /\ Tidy' = Tidy
    OBVIOUS
  <1>1. ASSUME NEW k \in Keys PROVE WaitingFor(k)' = WaitingFor(k)
    BY DEF WaitingFor
  <1>2. \A w : Moving(w)' = Moving(w)
    BY DEF Moving
  <1>3. ASSUME NEW k \in Keys PROVE Value(k)' = Value(k)
    BY DEF Value, WaitingFor, Moving
  <1>4. Values' = Values
    BY <1>3 DEF Values
  <1>5. Tidy' <=> Tidy
    BY <1>1, <1>2, TidyParts DEF TidyFact
  <1> QED BY <1>4, <1>5, TidyIsBoolean

LEMMA RefInit == Init => Plain!Init
  <1> SUFFICES ASSUME Init PROVE Plain!Init
    OBVIOUS
  <1>1. IInv /\ ~Nested
    BY InvInit DEF Init, Nested
  <1>2. ASSUME NEW k \in Keys PROVE Value(k) = NULL
    <2>1. \A i \in Slots(data) : ~Holds(data, i, k)
      BY EmptyIsTable, MapConstants DEF Init, Holds, Unused
    <2> QED BY <1>1, <2>1, NoneWaits, ValueMissing DEF NoneFact, MissingFact
  <1>3. pending = Plain!NoCall /\ last = [did |-> "freed", key |-> NULL]
    BY DEF Init, Idle, Did, Plain!NoCall
  <1> QED BY <1>2, <1>3, TidyIsBoolean DEF Plain!Init, Plain!NoValues

\* When no value changes and a tidy map stays tidy, PlainMap stutters.
LEMMA SameValues ==
  ASSUME \A k \in Keys : Value(k)' = Value(k), Tidy, Tidy'
  PROVE  UNCHANGED <<Values, Tidy>>
  BY TidyIsBoolean DEF Values

\* A rehash keeps every value of a tidy map; of another it is PlainMap's Grow.
LEMMA RefRehash ==
  IInv /\ ((Store /\ Nested) \/ BeginRehash \/ EndRehash) =>
    Plain!Grow \/ UNCHANGED <<Values, Tidy, pending, last>>
  <1> SUFFICES ASSUME IInv, (Store /\ Nested) \/ BeginRehash \/ EndRehash
               PROVE  Plain!Grow \/ UNCHANGED <<Values, Tidy, pending, last>>
    OBVIOUS
  <1>1. UNCHANGED <<pending, last>> /\ pending # Idle
    BY PutEntry DEF Store, BeginRehash, EndRehash, IInv
  <1>2. CASE Tidy
    BY <1>1, <1>2, MoveStep, BeginStep, EndStep, SameValues
  <1>3. CASE ~Tidy
    <2>1. \A k \in Keys : Value(k)' \in Vals \cup {NULL}
      BY InvStore, InvRehash, ValueType DEF TypeFact
    <2>2. [k \in Keys |-> Value(k)]' \in [Keys -> Vals \cup {NULL}]
      BY <2>1
    <2> QED BY <1>1, <1>3, <2>2, TidyIsBoolean DEF Plain!Grow, Plain!NoCall, Idle
  <1> QED BY <1>2, <1>3

LEMMA RefPut == IInv /\ Store /\ ~Nested => Plain!Put
  <1> SUFFICES ASSUME IInv, Store, ~Nested PROVE Plain!Put
    OBVIOUS
  <1>1. PICK k0 \in Keys, v0 \in Vals :
           /\ k0 = pending.key /\ v0 = pending.data
           /\ Value(k0)' = v0
           /\ \A k \in Keys \ {k0} : Value(k)' = Value(k)
           /\ Tidy => Tidy'
    BY PutStep
  <1>2. [k \in Keys |-> Value(k)]' =
           [[k \in Keys |-> Value(k)] EXCEPT ![pending.key] = pending.data]
    BY <1>1
  <1>3. /\ pending # Plain!NoCall /\ pending' = Plain!NoCall
        /\ last' = [did |-> "put", key |-> NULL]
    BY PutEntry DEF Store, Idle, Did, Plain!NoCall
  <1> QED BY <1>1, <1>2, <1>3, TidyIsBoolean DEF Plain!Put, Plain!Reports

LEMMA RefRemove ==
  ASSUME NEW k \in Keys
  PROVE  IInv /\ gfc_map_remove(k) => Plain!Remove(k)
  <1> SUFFICES ASSUME IInv, gfc_map_remove(k) PROVE Plain!Remove(k)
    OBVIOUS
  <1>1. /\ \A j \in Keys \ {k} : Value(j)' = Value(j)
        /\ Value(k)' \in Vals \cup {NULL}
        /\ Tidy => Value(k)' = NULL
    BY RemoveStep
  <1>2. PICK v \in Vals \cup {NULL} : Value(k)' = v
    BY <1>1
  <1>3. [j \in Keys |-> Value(j)]' = [[j \in Keys |-> Value(j)] EXCEPT ![k] = v]
    BY <1>1, <1>2
  <1>4. Tidy => [j \in Keys |-> Value(j)]'[k] = NULL
    BY <1>1
  <1>5. pending = Plain!NoCall /\ pending' = pending /\ last' = [did |-> "removed", key |-> k]
    BY DEF gfc_map_remove, Ready, Idle, Did, Plain!NoCall
  <1> QED BY <1>3, <1>4, <1>5, TidyIsBoolean DEF Plain!Remove, Plain!Reports

\* An iteration, and a put that runs out of memory.
LEMMA RefLose == /\ IInv /\ gfc_map_iterate => Plain!Iterate
                 /\ IInv /\ OutOfMemory => Plain!Fail
  <1>1. ASSUME IInv, gfc_map_iterate \/ OutOfMemory
        PROVE  /\ [k \in Keys |-> Value(k)]' \in [Keys -> Vals \cup {NULL}]
               /\ Tidy => Plain!OnlyLosses
    <2>1. \A k \in Keys : Value(k)' \in Vals \cup {NULL}
      BY <1>1, InvCalls, InvRehash, ValueType DEF TypeFact
    <2>2. [k \in Keys |-> Value(k)]' \in [Keys -> Vals \cup {NULL}]
      BY <2>1
    <2>3. Tidy => \A k \in Keys : Value(k)' \in {Value(k), NULL}
      BY <1>1, IterateStep, OutOfMemoryStep
    <2> QED BY <2>2, <2>3 DEF Plain!OnlyLosses
  <1>2. ASSUME IInv, gfc_map_iterate PROVE Plain!Iterate
    <2>1. /\ pending = Plain!NoCall /\ pending' = pending
          /\ last' = [did |-> "iterated", key |-> NULL]
      BY <1>2 DEF gfc_map_iterate, Ready, Idle, Did, Plain!NoCall
    <2> QED BY <1>1, <1>2, <2>1, TidyIsBoolean DEF Plain!Iterate, Plain!Reports
  <1>3. ASSUME IInv, OutOfMemory PROVE Plain!Fail
    <2>1. /\ pending # Plain!NoCall /\ pending' = Plain!NoCall
          /\ last' = [did |-> "failed", key |-> NULL]
      BY <1>3, PutEntry DEF OutOfMemory, Idle, Did, Plain!NoCall
    <2> QED BY <1>1, <1>3, <2>1, TidyIsBoolean DEF Plain!Fail, Plain!Reports
  <1> QED BY <1>2, <1>3

LEMMA RefRenew == IInv /\ (gfc_map_new \/ gfc_map_free) => Plain!Renew
  <1> SUFFICES ASSUME IInv, gfc_map_new \/ gfc_map_free PROVE Plain!Renew
    OBVIOUS
  <1>1. \A k \in Keys : Value(k)' = NULL
    BY RenewStep
  <1>2. /\ pending = Plain!NoCall /\ pending' = pending
        /\ \/ last' = [did |-> "made", key |-> NULL]
           \/ last' = [did |-> "freed", key |-> NULL]
    BY DEF gfc_map_new, gfc_map_free, Ready, Idle, Did, Plain!NoCall, IInv
  <1> QED BY <1>1, <1>2, TidyIsBoolean DEF Plain!Renew, Plain!NoValues, Plain!Reports

LEMMA RefBegin ==
  ASSUME NEW k \in Keys, NEW v \in Vals, gfc_map_put(k, v)
  PROVE  Plain!Begin(k, v)
  <1>1. Values' = Values /\ Tidy' = Tidy
    BY SameTable DEF gfc_map_put
  <1>2. pending = Plain!NoCall /\ pending' = [key |-> k, data |-> v] /\ last' = last
    BY DEF gfc_map_put, Ready, Idle, Call, Plain!NoCall
  <1> QED BY <1>1, <1>2 DEF Plain!Begin, Values

LEMMA RefStep == IInv /\ [Next]_vars => [Plain!Next]_Plain!view
  <1> SUFFICES ASSUME IInv, [Next]_vars
               PROVE  Plain!Next \/ UNCHANGED <<Values, Tidy, pending, last>>
    BY DEF Values, Plain!view
  <1>1. CASE gfc_map_new \/ gfc_map_free \/ gfc_map_deep_free
    BY <1>1, RefRenew DEF gfc_map_deep_free, Plain!Next
  <1>2. CASE gfc_map_iterate \/ OutOfMemory
    BY <1>2, RefLose DEF Plain!Next
  <1>3. CASE \E k \in Keys : gfc_map_remove(k)
    BY <1>3, RefRemove DEF Plain!Next
  <1>4. CASE \E k \in Keys : \E v \in Vals : gfc_map_put(k, v)
    BY <1>4, RefBegin DEF Plain!Next
  <1>5. CASE Store /\ ~Nested
    BY <1>5, RefPut DEF Plain!Next
  <1>6. CASE (Store /\ Nested) \/ BeginRehash \/ EndRehash
    BY <1>6, RefRehash DEF Plain!Next
  <1>7. CASE UNCHANGED vars
    BY <1>7, SameTable DEF vars
  <1> QED BY <1>1, <1>2, <1>3, <1>4, <1>5, <1>6, <1>7 DEF Next

\* For every set of keys, every hash and every length of table and chain, the
\* calls of gfc_map.c do what PlainMap allows, nested rehashes and failed
\* allocations included: a put that returns has changed just its key, and the
\* rehashes it started have moved the entries of a tidy map without changing
\* what any key is mapped to.
THEOREM Implements == Spec => ImplementsPlainMap
  BY RefInit, RefStep, Invariance, PTL DEF Spec, ImplementsPlainMap, Plain!Spec
=============================================================================
