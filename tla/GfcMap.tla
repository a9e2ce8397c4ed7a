------------------------------- MODULE GfcMap -------------------------------
(***************************************************************************)
(* The hash map of the gfc library (3rd/gfc-0.1.1/src/gfc_map.c), which    *)
(* holds every row the agent reads from its database.  One thread uses a   *)
(* map, so what matters is the sequence of its calls.                      *)
(*                                                                         *)
(* A table is an array of slots.  A key is looked for in MaxChain slots    *)
(* from its hash on; there are no tombstones, a removal just empties the   *)
(* slot.  gfc_map_put doubles the table while it finds no slot, and        *)
(* gfc_map_rehash calls gfc_map_put for every entry of the old table, so a *)
(* rehash may start another one in its middle: rehashes holds the calls of *)
(* gfc_map_rehash that have not returned, each with the table it moves the *)
(* entries from and the slots its loop has still to move.  One action is   *)
(* one turn of a loop.                                                     *)
(*                                                                         *)
(* gfc_gc_malloc does not clear memory and gfc_map_new only stores NULL in *)
(* the data fields: a new table may hold the in_use and key fields of the  *)
(* map that had the block before (StaleNew).  A doubled table is larger    *)
(* than any block freed before it, so libc takes it fresh from the system, *)
(* zero-filled.                                                            *)
(***************************************************************************)
EXTENDS Integers, Sequences, FiniteSets

CONSTANTS
    Keys, Vals,
    NULL,           \* the null pointer
    Hash,           \* the hash of each key before it is reduced
    InitialSize,    \* INITIAL_SIZE: 256 in the code
    MaxChain,       \* MAX_CHAIN_LENGTH: 8 in the code
    MapFull,        \* GFC_ERROR_MAP_FULL, 3001 in the code: also a slot number
    MaxTable,       \* bound: libc has no memory for a larger table
    StaleNew        \* slots of a recycled block that held another map's rows

ASSUME MapConstants ==
    /\ NULL \notin Vals
    /\ Hash \in [Keys -> Nat]
    /\ InitialSize \in Nat \ {0}
    /\ MaxChain \in Nat \ {0}
    /\ MapFull \in Nat /\ MaxTable \in Nat
    /\ StaleNew \subseteq 0 .. InitialSize - 1

VARIABLES
    map,        \* "made" between gfc_map_new and the free
    data,       \* map->data with map->table_size
    size,       \* map->size
    pending,    \* the arguments of the gfc_map_put being executed, or none
    rehashes,   \* the unfinished gfc_map_rehash calls, innermost last
    last        \* what the last call to return has reported

vars == <<map, data, size, pending, rehashes, last>>

Unused == [in_use |-> 0, key |-> NULL, data |-> NULL]
Entry(k, v) == [in_use |-> 1, key |-> k, data |-> v]

\* in_use is 0 or 1 unless it was never initialised.
SlotSet ==
    {Unused} \cup [in_use : {1, 2}, key : Keys, data : Vals \cup {NULL}]

Table(len, at) == [len |-> len, at |-> at]
EmptyTable(len) == Table(len, [i \in 0 .. len - 1 |-> Unused])

Idle == [key |-> NULL, data |-> NULL]
Call(k, v) == [key |-> k, data |-> v]

\* A call of gfc_map_put returns GFC_ERROR_MAP_OK ("put") or
\* GFC_ERROR_MAP_OUT_OF_MEMORY ("failed"); the others do not fail.
Did(what, k) == [did |-> what, key |-> k]

-----------------------------------------------------------------------------
(* Probing.                                                                *)

Positions == 0 .. MaxChain - 1

\* gfc_map_hash_int and the steps of curr in the probe loops: the slot at
\* position n of key k's chain.
Probe(len, k, n) == (Hash[k] + n) % len

Holds(t, i, k) == t.at[i].in_use = 1 /\ t.at[i].key = k
Free(t, i) == t.at[i].in_use = 0

\* Slot i is the first of k's chain to hold k: what gfc_map_get and
\* gfc_map_remove find.
Finds(t, k, i) ==
    \E n \in Positions :
        /\ i = Probe(t.len, k, n) /\ Holds(t, i, k)
        /\ \A p \in 0 .. n - 1 : ~Holds(t, Probe(t.len, k, p), k)

\* Mutant: the probe loop does not compare keys.
PlacesFree(t, k, i) ==
    \E n \in Positions :
        /\ i = Probe(t.len, k, n) /\ Free(t, i)
        /\ \A p \in 0 .. n - 1 : ~Free(t, Probe(t.len, k, p))

\* Slot i is the first of k's chain that is free or holds k: what the probe
\* loop of gfc_map_hash returns.
Places(t, k, i) ==
    \E n \in Positions :
        /\ i = Probe(t.len, k, n) /\ (Free(t, i) \/ Holds(t, i, k))
        /\ \A p \in 0 .. n - 1 : /\ ~Free(t, Probe(t.len, k, p))
                                 /\ ~Holds(t, Probe(t.len, k, p), k)

Slots(t) == 0 .. t.len - 1
UsedSlots(t) == {i \in Slots(t) : ~Free(t, i)}

\* Mutant: the load test lets one entry too many in.
OverHalfFull == size > data.len \div 2

\* gfc_map_hash as gfc_map_put reads its result: slot i, unless the table is
\* half full.  A slot whose number is GFC_ERROR_MAP_FULL reads as "full".
HalfFull == size >= data.len \div 2
hash(k, i) == ~HalfFull /\ Places(data, k, i) /\ i # MapFull
Full(k) == ~\E i \in Slots(data) : hash(k, i)

\* gfc_map_get: the value stored to *arg.
get(t, k) ==
    IF \E i \in Slots(t) : Finds(t, k, i)
    THEN t.at[CHOOSE i \in Slots(t) : Finds(t, k, i)].data
    ELSE NULL

-----------------------------------------------------------------------------
Init ==
    /\ map = "none"
    /\ data = EmptyTable(InitialSize) /\ size = 0
    /\ pending = Idle /\ rehashes = <<>> /\ last = Did("freed", NULL)

\* What gfc_map_new leaves in a slot of a recycled block.
StaleSlot == {Unused} \cup [in_use : {1, 2}, key : Keys, data : {NULL}]

gfc_map_new ==
    /\ map = "none"
    /\ map' = "made"
    /\ \E stale \in [StaleNew -> StaleSlot] :
           data' = Table(InitialSize,
                         [i \in 0 .. InitialSize - 1 |->
                             IF i \in StaleNew THEN stale[i] ELSE Unused])
    /\ size' = 0 /\ last' = Did("made", NULL)
    /\ UNCHANGED <<pending, rehashes>>

Ready == map = "made" /\ pending = Idle

-----------------------------------------------------------------------------
(* gfc_map_put and gfc_map_rehash.                                         *)

gfc_map_put(k, v) ==
    /\ Ready
    /\ pending' = Call(k, v)
    /\ UNCHANGED <<map, data, size, rehashes, last>>

Top == rehashes[Len(rehashes)]
Nested == rehashes # <<>>

\* The slot the innermost rehash has come to: slots are moved in their order.
IsNext(i) == i \in Top.left /\ \A j \in Top.left : i <= j
AtSlot == Nested /\ \E i \in Top.left : IsNext(i)
Moved == Top.old.at[CHOOSE i \in Top.left : IsNext(i)]

\* The innermost gfc_map_put that is executing, with its arguments.
Putting == AtSlot \/ (~Nested /\ pending # Idle)
PutKey  == IF Nested THEN Moved.key ELSE pending.key
PutData == IF Nested THEN Moved.data ELSE pending.data

\* The innermost rehash goes on to its next slot.
Advanced ==
    [rehashes EXCEPT ![Len(rehashes)].left = {i \in @ : ~IsNext(i)}]

\* The slots the loop of gfc_map_rehash moves.
EverySlot(t) == Slots(t)   \* mutant
ToMove(t) == UsedSlots(t)

\* gfc_map_hash found a slot: the entry is stored and the put returns to the
\* caller or to the rehash that called it.
Store ==
    /\ Putting
    /\ \E i \in Slots(data) :
           /\ hash(PutKey, i)
           /\ data' = [data EXCEPT !.at[i] = Entry(PutKey, PutData)]
    /\ size' = size + 1
    /\ IF Nested
       THEN rehashes' = Advanced /\ UNCHANGED <<pending, last>>
       ELSE pending' = Idle /\ last' = Did("put", NULL) /\ UNCHANGED rehashes
    /\ UNCHANGED map

\* gfc_map_hash returned FULL: gfc_map_rehash begins on a doubled table.
BeginRehash ==
    /\ Putting /\ Full(PutKey)
    /\ 2 * data.len <= MaxTable
    /\ data' = EmptyTable(2 * data.len)
    /\ size' = 0
    /\ rehashes' = Append(rehashes, [old |-> data, left |-> ToMove(data)])
    /\ UNCHANGED <<map, pending, last>>

\* The old table is released; the put that called the rehash tries again.
EndRehash ==
    /\ Nested /\ Top.left = {}
    /\ rehashes' = SubSeq(rehashes, 1, Len(rehashes) - 1)
    /\ UNCHANGED <<map, data, size, pending, last>>

\* Mutant: gfc_map_put does not look at the result of gfc_map_rehash.
OutOfMemoryIgnored ==
    /\ Putting /\ Full(PutKey)
    /\ UNCHANGED vars

\* No memory for a doubled table: every put and rehash under way returns
\* GFC_ERROR_MAP_OUT_OF_MEMORY, and what the rehashes had not moved is lost.
OutOfMemory ==
    /\ Putting /\ Full(PutKey)
    /\ pending' = Idle /\ rehashes' = <<>> /\ last' = Did("failed", NULL)
    /\ UNCHANGED <<map, data, size>>

-----------------------------------------------------------------------------
gfc_map_remove(k) ==
    /\ Ready
    /\ \E i \in Slots(data) :
           /\ Finds(data, k, i)
           /\ data' = [data EXCEPT !.at[i] = Unused]
    /\ size' = size - 1 /\ last' = Did("removed", k)
    /\ UNCHANGED <<map, pending, rehashes>>

\* gfc_map_iterate empties every slot it visits and leaves size alone; the
\* callback may end it after any slot.  gfc_map_size is unsigned.
gfc_map_iterate ==
    /\ Ready /\ size # 0
    /\ \E stop \in Slots(data) :
           data' = Table(data.len, [i \in Slots(data) |->
                                       IF i <= stop THEN Unused ELSE data.at[i]])
    /\ last' = Did("iterated", NULL)
    /\ UNCHANGED <<map, size, pending, rehashes>>

gfc_map_free ==
    /\ Ready
    /\ map' = "none"
    /\ data' = EmptyTable(InitialSize) /\ size' = 0
    /\ last' = Did("freed", NULL)
    /\ UNCHANGED <<pending, rehashes>>

\* gfc_map_deep_free of a map whose size is 0 frees nothing.
gfc_map_deep_free == size # 0 /\ gfc_map_free

Next ==
    \/ gfc_map_new \/ gfc_map_free \/ gfc_map_deep_free \/ gfc_map_iterate
    \/ \E k \in Keys : gfc_map_remove(k) \/ \E v \in Vals : gfc_map_put(k, v)
    \/ Store \/ BeginRehash \/ EndRehash \/ OutOfMemory

Spec == Init /\ [][Next]_vars

\* A call that has begun runs to its return.
Working == Store \/ BeginRehash \/ EndRehash \/ OutOfMemory
FairSpec == Spec /\ WF_vars(Working)

-----------------------------------------------------------------------------
(* Properties.                                                             *)

TableOK(t) == t.len \in Nat \ {0} /\ t.at \in [Slots(t) -> SlotSet]

\* The table, the put under way and the rehashes it has started fit together: a
\* rehash has only used slots of its old table to move, and works for a put.
TypeOK ==
    /\ map \in {"none", "made"} /\ TableOK(data) /\ size \in Int
    /\ pending \in {Idle} \cup [key : Keys, data : Vals]
    /\ \A f \in DOMAIN rehashes :
           /\ TableOK(rehashes[f].old)
           /\ rehashes[f].left \subseteq UsedSlots(rehashes[f].old)
    /\ Nested => pending # Idle
    /\ pending # Idle => map = "made"
    /\ map = "none" => data = EmptyTable(InitialSize)
    /\ last \in [did : {"made", "put", "failed", "removed", "iterated", "freed"},
                key : Keys \cup {NULL}]

\* The entry of slot i is where a probe for its key stops first: no free slot and no other
\* entry of the key comes before it.
InPlace(t, i) ==
    /\ t.at[i].in_use = 1
    /\ \E n \in Positions :
           /\ i = Probe(t.len, t.at[i].key, n)
           /\ \A p \in 0 .. n - 1 :
                  /\ ~Free(t, Probe(t.len, t.at[i].key, p))
                  /\ ~Holds(t, Probe(t.len, t.at[i].key, p), t.at[i].key)

\* Where entries of k wait to be moved by a rehash.
WaitingFor(k) ==
    UNION {{[f |-> f, i |-> i] :
               i \in {j \in rehashes[f].left : rehashes[f].old.at[j].key = k}} :
           f \in DOMAIN rehashes}
Moving(w) == rehashes[w.f].old.at[w.i]

\* Every entry is in place, and an entry that waits to be moved is the only
\* one of its key.
Tidy ==
    /\ \A i \in Slots(data) : Free(data, i) \/ InPlace(data, i)
    /\ \A k \in Keys : \A w \in WaitingFor(k) :
           /\ Moving(w).in_use = 1
           /\ \A j \in Slots(data) : ~Holds(data, j, k)
           /\ WaitingFor(k) = {w}

\* The value the map keeps for k, wherever its entry is.
Value(k) ==
    IF WaitingFor(k) # {} /\ ~\E i \in Slots(data) : Finds(data, k, i)
    THEN Moving(CHOOSE w \in WaitingFor(k) : TRUE).data
    ELSE get(data, k)

Plain == INSTANCE PlainMap
             WITH m <- [k \in Keys |-> Value(k)], tidy <- Tidy, call <- pending

\* Through puts, nested rehashes, removals, a failed allocation and a first
\* table full of another map's rows, the table of gfc_map.c behaves as the
\* map its callers take it for, as far as PlainMap promises.
ImplementsPlainMap == Plain!Spec

\* The counter of gfc_map_put, which counts an overwritten key again, never
\* falls behind the slots in use (but for slots that were never initialised),
\* so a table is never more than half full of entries and probing ends.
SizeCoversSlots ==
    /\ Cardinality(UsedSlots(data)) <= size + Cardinality(StaleNew)
    /\ size <= data.len \div 2

\* A gfc_map_put returns, however many rehashes it starts inside each other.
PutReturns == pending # Idle ~> pending = Idle
=============================================================================
