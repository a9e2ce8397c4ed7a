------------------------------- MODULE GfcGc -------------------------------
(***************************************************************************)
(* The tracked heap of the gfc library (3rd/gfc-0.1.1/src/gfc_gc.c), from   *)
(* which every list, map and string of the agent takes its memory.          *)
(*                                                                          *)
(* gc_ctx keeps a table of slots.  bits marks the slots in use, ptrs[i]     *)
(* holds the block of slot i and its size, total the bytes handed out.      *)
(* gfc_gc_malloc takes a block from libc and enters it in the first slot    *)
(* whose bit is clear; gfc_gc_free and gfc_gc_realloc search the table for  *)
(* the block.  Nothing is locked: the collector thread (gw_os.c:51-62) and  *)
(* the web thread (gw_httpd.c:185-204) call it at the same time, so every   *)
(* call is split where another thread's call can come between its reads     *)
(* and its writes.                                                          *)
(*                                                                          *)
(* The most significant bit of a byte stands for its first slot, so the     *)
(* first clear bit the code tests is always the clear slot of least index;  *)
(* bits is modelled as the set of marked slots.                             *)
(***************************************************************************)
EXTENDS Integers, FiniteSetsExt

CONSTANTS
    Threads,    \* the threads that call the library
    Addr,       \* the blocks libc can hand out
    Sizes,      \* the sizes asked for
    ByteBits,   \* bits in a byte of the bit table: 8 in the code
    IncCount,   \* GFC_GC_INC_COUNT, slots the table grows by: 64 in the code
    MaxLen,     \* bound on the table's length
    SizeMod,    \* 2^w for the w bits of a size_t
    NULL

ASSUME GcConstants ==
    /\ ByteBits \in Nat /\ ByteBits >= 3
    /\ IncCount \in Nat \ {0} /\ IncCount % ByteBits = 0
    /\ MaxLen \in Nat
    /\ SizeMod \in Nat \ {0}
    /\ Sizes \subseteq 0 .. SizeMod - 1
    /\ NULL \notin Addr

VARIABLES
    bits,   \* gc_ctx->bits, as the set of marked slots
    ptr,    \* ptr[i] is gc_ctx->ptrs[i].ptr
    tot,    \* tot[i] is gc_ctx->ptrs[i].total
    len,    \* gc_ctx->len
    total,  \* gc_ctx->total
    live,   \* libc: the blocks handed out and not released
    size,   \* libc: the size of each block, kept for the properties
    pc,     \* what each thread does next
    arg,    \* the block of the thread's current call
    slot,   \* its ptridx or i
    owned,  \* the blocks the thread's lists, maps and strings hold
    rc,     \* the result of the thread's last gfc_gc_free
    crashed \* an assertion failed, or libc aborted the process

vars == <<bits, ptr, tot, len, total, live, size, pc, arg, slot, owned, rc, crashed>>
table == <<bits, ptr, tot, len, total>>

Slots == 0 .. len - 1

\* Arithmetic on a size_t.
Wrapped(n) == n % SizeMod

\* All searches run upwards and take the first slot.
IsFirst(i, S) == i \in S /\ \A j \in S : i <= j

\* The slots gfc_gc_malloc may use: one whose bit is clear, or the one past
\* the end of the table.
Unmarked == (0 .. len) \ bits

\* The slots of the table that hold block a.
Holding(a) == {i \in Slots : ptr[i] = a}

SameByte(i, j) == i \div ByteBits = j \div ByteBits

\* No bit is cleared.
ClearedNothing(i) == {}

\* The bits gfc_gc_free clears for slot i.  The mask of the last slot but one
\* of a byte, 0b01111101, has two zeros: it also clears the byte's first slot.
ClearedBits(i) ==
    IF i % ByteBits = ByteBits - 2 THEN {i, i - (ByteBits - 2)} ELSE {i}

\* Every slot a call uses is in the table, and the totals are size_t.
TypeOK ==
    /\ len \in Nat
    /\ bits \subseteq Slots
    /\ ptr \in [Slots -> Addr \cup {NULL}]
    /\ tot \in [Slots -> 0 .. SizeMod - 1]
    /\ total \in 0 .. SizeMod - 1
    /\ live \subseteq Addr
    /\ size \in [Addr -> 0 .. SizeMod - 1]
    /\ pc \in [Threads -> {"idle", "store", "check", "resize", "clear", "release"}]
    /\ arg \in [Threads -> Addr \cup {NULL}]
    /\ slot \in [Threads -> Nat]
    /\ owned \in [Threads -> SUBSET Addr]
    /\ rc \in [Threads -> {"ok", "not_found"}]
    /\ crashed \in BOOLEAN

\* gfc_gc_init.
Init ==
    /\ len = IncCount
    /\ bits = {}
    /\ ptr = [i \in 0 .. IncCount - 1 |-> NULL]
    /\ tot = [i \in 0 .. IncCount - 1 |-> 0]
    /\ total = 0
    /\ live = {}
    /\ size = [a \in Addr |-> 0]
    /\ pc = [t \in Threads |-> "idle"]
    /\ arg = [t \in Threads |-> NULL]
    /\ slot = [t \in Threads |-> 0]
    /\ owned = [t \in Threads |-> {}]
    /\ rc = [t \in Threads |-> "ok"]
    /\ crashed = FALSE

\* Thread t is at step p of a process that still runs.
At(t, p) == ~crashed /\ pc[t] = p

Goto(t, p) == pc' = [pc EXCEPT ![t] = p]

\* The end of a call: its local variables are gone.
Return(t) ==
    /\ Goto(t, "idle")
    /\ arg' = [arg EXCEPT ![t] = NULL]
    /\ slot' = [slot EXCEPT ![t] = 0]

-----------------------------------------------------------------------------
(* gfc_gc_malloc *)

\* libc's malloc, and the search of the bit table.
MallocFind(t) ==
    /\ At(t, "idle")
    /\ \E a \in Addr \ live, n \in Sizes :
         /\ live' = live \cup {a}
         /\ size' = [size EXCEPT ![a] = n]
         /\ arg' = [arg EXCEPT ![t] = a]
    /\ \E i \in Unmarked : IsFirst(i, Unmarked) /\ slot' = [slot EXCEPT ![t] = i]
    /\ Goto(t, "store")
    /\ UNCHANGED <<table, owned, rc, crashed>>

\* The end of the table is tested with one slot too many.
MallocStoreOneMore(t) ==
    /\ At(t, "store")
    /\ slot[t] <= len
    /\ bits' = bits \cup {slot[t]}
    /\ ptr' = [ptr EXCEPT ![slot[t]] = arg[t]]
    /\ tot' = [tot EXCEPT ![slot[t]] = size[arg[t]]]
    /\ total' = Wrapped(total + size[arg[t]])
    /\ Goto(t, "check")
    /\ UNCHANGED <<len, live, size, arg, slot, owned, rc, crashed>>

\* The slot is in the table: mark it and enter the block.
MallocStore(t) ==
    /\ At(t, "store")
    /\ slot[t] < len
    /\ bits' = bits \cup {slot[t]}
    /\ ptr' = [ptr EXCEPT ![slot[t]] = arg[t]]
    /\ tot' = [tot EXCEPT ![slot[t]] = size[arg[t]]]
    /\ total' = Wrapped(total + size[arg[t]])
    /\ Goto(t, "check")
    /\ UNCHANGED <<len, live, size, arg, slot, owned, rc, crashed>>

\* The slots growing adds, and an array of the table after it: only the slot
\* that is used is given a value, the others hold what realloc returned.
Added == len .. len + IncCount - 1
Grown(array, i, v, junk) ==
    [j \in 0 .. len + IncCount - 1 |->
        IF j = i THEN v ELSE IF j < len THEN array[j] ELSE junk[j]]

\* The table is full and grows.  The byte of the slot is assigned as a whole,
\* the other new bytes are junk too.  The memset of bits[ptridx] writes past
\* the end of the bit table, which may end the process or do no harm.
MallocGrow(t) ==
    /\ At(t, "store")
    /\ slot[t] >= len
    /\ len + IncCount <= MaxLen
    /\ len' = len + IncCount
    /\ \E junk \in SUBSET {j \in Added : ~SameByte(slot[t], j)} :
         bits' = bits \cup {slot[t]} \cup junk
    /\ \E junk \in [Added -> Addr \cup {NULL}] :
         ptr' = Grown(ptr, slot[t], arg[t], junk)
    /\ \E junk \in [Added -> Sizes \cup {0}] :
         tot' = Grown(tot, slot[t], size[arg[t]], junk)
    /\ total' = Wrapped(total + size[arg[t]])
    /\ crashed' \in BOOLEAN
    /\ Goto(t, "check")
    /\ UNCHANGED <<live, size, arg, slot, owned, rc>>

\* assert(gc_ctx->ptrs[ptridx].ptr == ret), and the return of the block.
MallocReturn(t) ==
    /\ At(t, "check")
    /\ crashed' = (ptr[slot[t]] # arg[t])
    /\ owned' = [owned EXCEPT ![t] = @ \cup {arg[t]}]
    /\ Return(t)
    /\ UNCHANGED <<table, live, size, rc>>

gfc_gc_malloc(t) ==
    MallocFind(t) \/ MallocStore(t) \/ MallocGrow(t) \/ MallocReturn(t)

-----------------------------------------------------------------------------
(* gfc_gc_realloc of a block the thread holds *)

\* libc's realloc, which may move the block, and the search of the table; a
\* block that is not found fails assert(1 == 0).
ReallocFind(t) ==
    /\ At(t, "idle")
    /\ \E a \in owned[t], n \in Sizes : \E b \in (Addr \ live) \cup {a} :
         /\ live' = (live \ {a}) \cup {b}
         /\ size' = [size EXCEPT ![b] = n]
         /\ arg' = [arg EXCEPT ![t] = b]
         /\ owned' = [owned EXCEPT ![t] = (@ \ {a}) \cup {b}]
         /\ \/ /\ \E i \in Holding(a) :
                    IsFirst(i, Holding(a)) /\ slot' = [slot EXCEPT ![t] = i]
               /\ Goto(t, "resize")
               /\ UNCHANGED crashed
            \/ /\ Holding(a) = {}
               /\ crashed' = TRUE
               /\ UNCHANGED <<slot, pc>>
    /\ UNCHANGED <<table, rc>>

\* The new size is added and the old one is not taken off.
ReallocStoreAdds(t) ==
    /\ At(t, "resize")
    /\ total' = Wrapped(total + size[arg[t]])
    /\ tot' = [tot EXCEPT ![slot[t]] = size[arg[t]]]
    /\ ptr' = [ptr EXCEPT ![slot[t]] = arg[t]]
    /\ Return(t)
    /\ UNCHANGED <<bits, len, live, size, owned, rc, crashed>>

\* The entry of the block is brought up to date.
ReallocStore(t) ==
    /\ At(t, "resize")
    /\ total' = Wrapped(total + size[arg[t]] - tot[slot[t]])
    /\ tot' = [tot EXCEPT ![slot[t]] = size[arg[t]]]
    /\ ptr' = [ptr EXCEPT ![slot[t]] = arg[t]]
    /\ Return(t)
    /\ UNCHANGED <<bits, len, live, size, owned, rc, crashed>>

gfc_gc_realloc(t) == ReallocFind(t) \/ ReallocStore(t)

-----------------------------------------------------------------------------
(* gfc_gc_free of a block the thread holds *)

\* The search of the table; a block that is not found is not released.
FreeFind(t) ==
    /\ At(t, "idle")
    /\ \E a \in owned[t] :
         /\ owned' = [owned EXCEPT ![t] = @ \ {a}]
         /\ \/ /\ \E i \in Holding(a) :
                    IsFirst(i, Holding(a)) /\ slot' = [slot EXCEPT ![t] = i]
               /\ arg' = [arg EXCEPT ![t] = a]
               /\ Goto(t, "clear")
               /\ UNCHANGED rc
            \/ /\ Holding(a) = {}
               /\ rc' = [rc EXCEPT ![t] = "not_found"]
               /\ UNCHANGED <<arg, slot, pc>>
    /\ UNCHANGED <<table, live, size, crashed>>

FreeClear(t) ==
    /\ At(t, "clear")
    /\ total' = Wrapped(total - tot[slot[t]])
    /\ tot' = [tot EXCEPT ![slot[t]] = 0]
    /\ bits' = bits \ ClearedBits(slot[t])
    /\ Goto(t, "release")
    /\ UNCHANGED <<ptr, len, live, size, arg, slot, owned, rc, crashed>>

\* The slot keeps the address of the block that was released.
FreeReleaseKeepsPtr(t) ==
    LET p == ptr[slot[t]]
    IN /\ At(t, "release")
       /\ crashed' = (p \notin live \cup {NULL})
       /\ live' = live \ {p}
       /\ rc' = [rc EXCEPT ![t] = "ok"]
       /\ Return(t)
       /\ UNCHANGED <<bits, ptr, tot, len, total, size, owned>>

\* libc's free of what the slot holds now, which aborts on a block that is
\* not handed out.
FreeRelease(t) ==
    LET p == ptr[slot[t]]
    IN /\ At(t, "release")
       /\ crashed' = (p \notin live \cup {NULL})
       /\ live' = live \ {p}
       /\ ptr' = [ptr EXCEPT ![slot[t]] = NULL]
       /\ rc' = [rc EXCEPT ![t] = "ok"]
       /\ Return(t)
       /\ UNCHANGED <<bits, tot, len, total, size, owned>>

gfc_gc_free(t) == FreeFind(t) \/ FreeClear(t) \/ FreeRelease(t)

Next == \E t \in Threads : gfc_gc_malloc(t) \/ gfc_gc_realloc(t) \/ gfc_gc_free(t)

Spec == Init /\ [][Next]_vars

-----------------------------------------------------------------------------
(* Properties.  Those about the table hold until it grows: the slots that   *)
(* growing adds are not initialised.                                        *)

Idle == ~crashed /\ \A t \in Threads : pc[t] = "idle"
NeverGrown == len = IncCount

\* Between calls every block in the table is one libc has handed out, no block
\* is in two slots, and no released block is left behind: gfc_gc_free never
\* releases a block twice, although slots are overwritten (see FreeFindsBlock).
TableHoldsLiveBlocks ==
    (Idle /\ NeverGrown) =>
        /\ \A i \in Slots : ptr[i] # NULL => ptr[i] \in live
        /\ \A i, j \in Slots : (ptr[i] = ptr[j] /\ ptr[i] # NULL) => i = j

\* A marked slot holds a block: a slot whose block was released can be used
\* again, so the table does not fill up with dead slots.
MarkedSlotsHoldBlocks ==
    (Idle /\ NeverGrown) => \A i \in bits : ptr[i] # NULL

\* gfc_gc_total is the number of bytes libc has handed out through the library,
\* the blocks that have lost their slot included.
TotalIsLiveBytes ==
    (Idle /\ NeverGrown) => total = Wrapped(MapThenSumSet(LAMBDA a : size[a], live))

\* What test_gfc_gc.c:42 asserts: gfc_gc_free finds every block that
\* gfc_gc_malloc returned and that was not freed since.
FreeFindsBlock == \A t \in Threads : rc[t] = "ok"

\* The assertion at the end of gfc_gc_malloc: the slot holds the new block.
MallocKeepsSlot ==
    \A t \in Threads : (~crashed /\ pc[t] = "check") => ptr[slot[t]] = arg[t]
=============================================================================
