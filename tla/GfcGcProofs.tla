---------------------------- MODULE GfcGcProofs ----------------------------
(***************************************************************************)
(* Theorems about the tracked heap of GfcGc: its variables stay well typed   *)
(* for any number of threads; with one thread the table never holds a block  *)
(* that was released or the same block twice, and gfc_gc_total is the number *)
(* of bytes handed out.                                                      *)
(***************************************************************************)
EXTENDS GfcGc, FiniteSums, FunctionTheorems

\* The part of the assumptions the proofs need.
LEMMA Constants ==
    /\ IncCount \in Nat /\ IncCount > 0
    /\ SizeMod \in Nat /\ 0 \in 0 .. SizeMod - 1
    /\ Sizes \subseteq 0 .. SizeMod - 1
    /\ NULL \notin Addr
BY GcConstants

\* A size_t stays below its modulus.
LEMMA WrappedInRange == \A n \in Int : Wrapped(n) \in 0 .. SizeMod - 1
BY GcConstants DEF Wrapped

\* A call that has found its slot has a slot of the table, for the table never
\* shrinks; one that looks for a slot has at most found the end of the table.
CallsHaveSlots ==
    \A t \in Threads :
        /\ pc[t] = "store" => slot[t] <= len
        /\ pc[t] \in {"check", "resize", "clear", "release"} => slot[t] \in Slots
        /\ pc[t] # "idle" => arg[t] \in Addr

TypeInv == TypeOK /\ CallsHaveSlots

LEMMA TypeInit == Init => TypeInv
<1> SUFFICES ASSUME Init PROVE TypeInv
  OBVIOUS
<1> USE Constants DEF Init
<1>1. Slots = 0 .. IncCount - 1
  BY DEF Slots
<1>2. ptr \in [Slots -> Addr \cup {NULL}]
  BY <1>1
<1>3. tot \in [Slots -> 0 .. SizeMod - 1]
  BY <1>1
<1>4. pc \in [Threads -> {"idle", "store", "check", "resize", "clear", "release"}]
  OBVIOUS
<1>5. size \in [Addr -> 0 .. SizeMod - 1]
  OBVIOUS
<1>6. CallsHaveSlots
  BY DEF CallsHaveSlots
<1>7. arg \in [Threads -> Addr \cup {NULL}] /\ slot \in [Threads -> Nat]
  OBVIOUS
<1>8. owned \in [Threads -> SUBSET Addr] /\ rc \in [Threads -> {"ok", "not_found"}]
  OBVIOUS
<1> QED
  BY <1>2, <1>3, <1>4, <1>5, <1>6, <1>7, <1>8 DEF TypeInv, TypeOK

LEMMA TypeNext == TypeInv /\ [Next]_vars => TypeInv'
<1> SUFFICES ASSUME TypeInv, [Next]_vars PROVE TypeInv'
  OBVIOUS
<1> USE Constants
<1>0. TypeOK /\ CallsHaveSlots
  BY DEF TypeInv
<1>u. CASE UNCHANGED vars
  BY <1>u, <1>0 DEF TypeInv, TypeOK, CallsHaveSlots, Slots, vars
<1>n. CASE Next
  <2> PICK t \in Threads : gfc_gc_malloc(t) \/ gfc_gc_realloc(t) \/ gfc_gc_free(t)
    BY <1>n DEF Next
  <2>1. CASE MallocFind(t)
    <3>1. PICK i \in Unmarked : slot' = [slot EXCEPT ![t] = i]
      BY <2>1 DEF MallocFind
    <3>2. PICK a \in Addr, n \in Sizes :
             live' = live \cup {a} /\ size' = [size EXCEPT ![a] = n] /\ arg' = [arg EXCEPT ![t] = a]
      BY <2>1 DEF MallocFind
    <3>3. i \in Nat /\ i <= len
      BY <1>0, <3>1 DEF Unmarked, TypeOK
    <3> QED
      BY <2>1, <1>0, <3>1, <3>2, <3>3 DEF MallocFind, TypeInv, TypeOK, CallsHaveSlots, Slots, At, Goto, table
  <2>2. CASE MallocStore(t)
    <3>1. arg[t] \in Addr /\ slot[t] \in Slots
      BY <2>2, <1>0 DEF MallocStore, TypeOK, CallsHaveSlots, Slots, At
    <3>2. total' \in 0 .. SizeMod - 1
      BY <2>2, <1>0, <3>1, WrappedInRange DEF MallocStore, TypeOK
    <3> QED
      BY <2>2, <1>0, <3>1, <3>2 DEF MallocStore, TypeInv, TypeOK, CallsHaveSlots, Slots, At, Goto
  <2>3. CASE MallocGrow(t)
    <3>1. arg[t] \in Addr /\ slot[t] = len
      BY <2>3, <1>0 DEF MallocGrow, TypeOK, CallsHaveSlots, At
    <3>2. total' \in 0 .. SizeMod - 1
      BY <2>3, <1>0, <3>1, WrappedInRange DEF MallocGrow, TypeOK
    <3>3. len' = len + IncCount /\ len' \in Nat /\ slot[t] \in Slots' /\ Slots \subseteq Slots'
      BY <2>3, <1>0, <3>1 DEF MallocGrow, TypeOK, Slots
    <3>4. bits' \subseteq Slots'
      BY <2>3, <1>0, <3>1, <3>3 DEF MallocGrow, TypeOK, Slots, Added
    <3>5. ptr' \in [Slots' -> Addr \cup {NULL}]
      <4>1. PICK junk \in [Added -> Addr \cup {NULL}] : ptr' = Grown(ptr, slot[t], arg[t], junk)
        BY <2>3 DEF MallocGrow
      <4> QED
        BY <4>1, <1>0, <3>1, <3>3 DEF TypeOK, Slots, Added, Grown
    <3>6. tot' \in [Slots' -> 0 .. SizeMod - 1]
      <4>1. PICK junk \in [Added -> Sizes \cup {0}] : tot' = Grown(tot, slot[t], size[arg[t]], junk)
        BY <2>3 DEF MallocGrow
      <4>2. \A j \in Added : junk[j] \in 0 .. SizeMod - 1
        OBVIOUS
      <4>3. size[arg[t]] \in 0 .. SizeMod - 1
        BY <1>0, <3>1 DEF TypeOK
      <4>4. \A j \in Slots : tot[j] \in 0 .. SizeMod - 1
        BY <1>0 DEF TypeOK
      <4>5. \A j \in 0 .. len + IncCount - 1 : j \in Slots \/ j \in Added
        BY <1>0 DEF TypeOK, Slots, Added
      <4>6. \A j \in 0 .. len + IncCount - 1 : tot'[j] \in 0 .. SizeMod - 1
        BY <4>1, <4>2, <4>3, <4>4, <4>5, <1>0 DEF Grown, Slots, Added, TypeOK
      <4>7. tot' = [j \in 0 .. len + IncCount - 1 |-> tot'[j]]
        BY <4>1 DEF Grown
      <4>8. Slots' = 0 .. len + IncCount - 1
        <5>1. len' = len + IncCount /\ len \in Nat /\ IncCount \in Nat
          BY <3>3, <1>0 DEF TypeOK
        <5> QED
          BY ONLY <5>1 DEF Slots
      <4> QED
        BY <4>6, <4>7, <4>8
    <3> QED
      BY <2>3, <1>0, <3>1, <3>2, <3>3, <3>4, <3>5, <3>6
         DEF MallocGrow, TypeInv, TypeOK, CallsHaveSlots, Slots, At, Goto
  <2>4. CASE MallocReturn(t)
    BY <2>4, <1>0 DEF MallocReturn, TypeInv, TypeOK, CallsHaveSlots, Slots, At, Goto, Return, table
  <2>5. CASE ReallocFind(t)
    <3>1. PICK a \in owned[t], n \in Sizes, b \in Addr :
             /\ live' = (live \ {a}) \cup {b}
             /\ size' = [size EXCEPT ![b] = n]
             /\ arg' = [arg EXCEPT ![t] = b]
             /\ owned' = [owned EXCEPT ![t] = (@ \ {a}) \cup {b}]
             /\ \/ /\ \E i \in Slots : slot' = [slot EXCEPT ![t] = i]
                   /\ Goto(t, "resize")
                   /\ UNCHANGED crashed
                \/ /\ crashed' = TRUE
                   /\ UNCHANGED <<slot, pc>>
      BY <2>5, <1>0 DEF ReallocFind, Holding, TypeOK
    <3>2. live' \subseteq Addr /\ a \in Addr
      BY <3>1, <1>0 DEF TypeOK
    <3>3. CASE crashed' = TRUE /\ UNCHANGED <<slot, pc>>
      BY <2>5, <1>0, <3>1, <3>2, <3>3 DEF ReallocFind, TypeInv, TypeOK, CallsHaveSlots, Slots, At, table
    <3>4. CASE UNCHANGED crashed /\ Goto(t, "resize") /\ \E i \in Slots : slot' = [slot EXCEPT ![t] = i]
      BY <2>5, <1>0, <3>1, <3>2, <3>4 DEF ReallocFind, TypeInv, TypeOK, CallsHaveSlots, Slots, At, Goto, table
    <3> QED
      BY <3>1, <3>3, <3>4
  <2>6. CASE ReallocStore(t)
    <3>1. arg[t] \in Addr /\ slot[t] \in Slots
      BY <2>6, <1>0 DEF ReallocStore, CallsHaveSlots, At
    <3>2. total' \in 0 .. SizeMod - 1
      BY <2>6, <1>0, <3>1, WrappedInRange DEF ReallocStore, TypeOK
    <3> QED
      BY <2>6, <1>0, <3>1, <3>2 DEF ReallocStore, TypeInv, TypeOK, CallsHaveSlots, Slots, At, Goto, Return
  <2>7. CASE FreeFind(t)
    <3>1. PICK a \in owned[t] :
             /\ owned' = [owned EXCEPT ![t] = @ \ {a}]
             /\ \/ /\ \E i \in Slots : slot' = [slot EXCEPT ![t] = i]
                   /\ arg' = [arg EXCEPT ![t] = a]
                   /\ Goto(t, "clear")
                   /\ UNCHANGED rc
                \/ /\ rc' = [rc EXCEPT ![t] = "not_found"]
                   /\ UNCHANGED <<arg, slot, pc>>
      BY <2>7, <1>0 DEF FreeFind, Holding, TypeOK
    <3>2. CASE UNCHANGED <<arg, slot, pc>> /\ rc' = [rc EXCEPT ![t] = "not_found"]
      BY <2>7, <1>0, <3>1, <3>2 DEF FreeFind, TypeInv, TypeOK, CallsHaveSlots, Slots, At, table
    <3>3. CASE /\ \E i \in Slots : slot' = [slot EXCEPT ![t] = i]
               /\ arg' = [arg EXCEPT ![t] = a] /\ Goto(t, "clear") /\ UNCHANGED rc
      BY <2>7, <1>0, <3>1, <3>3 DEF FreeFind, TypeInv, TypeOK, CallsHaveSlots, Slots, At, Goto, table
    <3> QED
      BY <3>1, <3>2, <3>3
  <2>8. CASE FreeClear(t)
    <3>1. slot[t] \in Slots
      BY <2>8, <1>0 DEF FreeClear, CallsHaveSlots, At
    <3>2. total' \in 0 .. SizeMod - 1
      BY <2>8, <1>0, <3>1, WrappedInRange DEF FreeClear, TypeOK
    <3> QED
      BY <2>8, <1>0, <3>1, <3>2 DEF FreeClear, TypeInv, TypeOK, CallsHaveSlots, Slots, At, Goto
  <2>9. CASE FreeRelease(t)
    BY <2>9, <1>0 DEF FreeRelease, TypeInv, TypeOK, CallsHaveSlots, Slots, At, Goto, Return
  <2> QED
    BY <2>1, <2>2, <2>3, <2>4, <2>5, <2>6, <2>7, <2>8, <2>9
       DEF gfc_gc_malloc, gfc_gc_realloc, gfc_gc_free
<1> QED
  BY <1>u, <1>n

\* Every reachable state of the tracked heap is well typed, whatever threads
\* call it: each index it uses is in the table and its totals wrap.
THEOREM TypeCorrect == Spec => []TypeOK
<1>1. Spec => []TypeInv
  BY TypeInit, TypeNext, PTL DEF Spec
<1>2. TypeInv => TypeOK
  BY DEF TypeInv
<1> QED
  BY <1>1, <1>2, PTL

-----------------------------------------------------------------------------
(* One thread.  Its calls are not interrupted, so the two properties can    *)
(* only be broken by what a call leaves in the table; the inductive          *)
(* invariant says what holds between the steps of a call.                   *)

\* Every block in the table is handed out, except the one realloc has moved.
BlocksLive(u) ==
    \A i \in Slots :
        (ptr[i] # NULL /\ ~(pc[u] = "resize" /\ i = slot[u])) => ptr[i] \in live

BlocksDistinct == \A i, j \in Slots : (ptr[i] = ptr[j] /\ ptr[i] # NULL) => i = j

\* A block on its way into the table is handed out and in no other slot.
IncomingFresh(u) ==
    /\ pc[u] = "store" => arg[u] \in live /\ \A i \in Slots : ptr[i] # arg[u]
    /\ pc[u] = "resize" =>
         /\ arg[u] \in live
         /\ ptr[slot[u]] # NULL
         /\ \A i \in Slots : i # slot[u] => ptr[i] # arg[u]

\* A slot is unmarked before its block is released.
MarkedHold(u) ==
    /\ \A i \in bits : ptr[i] # NULL
    /\ pc[u] = "release" => slot[u] \notin bits

Sound(u) ==
    /\ len >= IncCount
    /\ (~crashed /\ NeverGrown) =>
         BlocksLive(u) /\ BlocksDistinct /\ IncomingFresh(u) /\ MarkedHold(u)

LEMMA SlotIsCleared == \A i : i \in ClearedBits(i)
BY DEF ClearedBits

LEMMA SoundNext ==
    ASSUME NEW u, Threads = {u}, TypeInv, Sound(u), [Next]_vars
    PROVE  Sound(u)'
<1> USE Constants
<1>0. TypeOK /\ CallsHaveSlots /\ u \in Threads
  BY DEF TypeInv
<1> DEFINE Parts == BlocksLive(u) /\ BlocksDistinct /\ IncomingFresh(u) /\ MarkedHold(u)
<1>u. CASE UNCHANGED vars
  BY <1>u DEF Sound, BlocksLive, BlocksDistinct, IncomingFresh, MarkedHold, NeverGrown, Slots, vars
<1>g. CASE MallocGrow(u)
  <2>1. len' = len + IncCount /\ len \in Nat /\ len >= IncCount
    BY <1>g, <1>0 DEF MallocGrow, TypeOK, Sound
  <2>2. len' >= IncCount /\ len' # IncCount
    BY <2>1
  <2> QED
    BY <2>2 DEF Sound, NeverGrown
<1>s. CASE MallocFind(u) \/ MallocStore(u) \/ MallocReturn(u) \/ gfc_gc_realloc(u) \/ gfc_gc_free(u)
  <2>1. len' = len /\ Slots' = Slots /\ ~crashed
    BY <1>s DEF MallocFind, MallocStore, MallocReturn, gfc_gc_realloc, ReallocFind, ReallocStore,
                gfc_gc_free, FreeFind, FreeClear, FreeRelease, At, Slots, table
  <2>2. SUFFICES ASSUME ~crashed', len = IncCount PROVE Parts'
    BY <2>1 DEF Sound, NeverGrown
  <2>3. Parts
    BY <2>1, <2>2 DEF Sound, NeverGrown
  <2> USE <1>0, <2>1, <2>3
  <2>4. CASE MallocFind(u)
    <3>1. PICK a \in Addr \ live : live' = live \cup {a} /\ arg' = [arg EXCEPT ![u] = a]
      BY <2>4 DEF MallocFind
    <3>2. pc[u] = "idle" /\ pc'[u] = "store" /\ arg'[u] = a /\ ptr' = ptr /\ bits' = bits
      BY <2>4, <3>1 DEF MallocFind, At, Goto, table, TypeOK
    <3>3. \A i \in Slots : ptr[i] # a
      BY <3>1, <3>2 DEF BlocksLive
    <3> QED
      BY <3>1, <3>2, <3>3 DEF BlocksLive, BlocksDistinct, IncomingFresh, MarkedHold
  <2>5. CASE MallocStore(u)
    <3>1. /\ pc[u] = "store" /\ pc'[u] = "check" /\ slot[u] \in Slots
          /\ ptr' = [ptr EXCEPT ![slot[u]] = arg[u]]
          /\ bits' = bits \cup {slot[u]} /\ live' = live /\ arg[u] \in Addr
      BY <2>5 DEF MallocStore, At, Goto, TypeOK, CallsHaveSlots, Slots
    <3>2. arg[u] \in live /\ \A i \in Slots : ptr[i] # arg[u]
      BY <3>1 DEF IncomingFresh
    <3> QED
      BY <3>1, <3>2 DEF BlocksLive, BlocksDistinct, IncomingFresh, MarkedHold, TypeOK
  <2>6. CASE MallocReturn(u)
    <3>1. pc[u] = "check" /\ pc'[u] = "idle" /\ ptr' = ptr /\ bits' = bits /\ live' = live
      BY <2>6 DEF MallocReturn, At, Return, Goto, table, TypeOK
    <3> QED
      BY <3>1 DEF BlocksLive, BlocksDistinct, IncomingFresh, MarkedHold
  <2>7. CASE ReallocFind(u)
    <3>1. PICK a \in owned[u], b \in Addr :
             /\ b = a \/ b \notin live
             /\ live' = (live \ {a}) \cup {b}
             /\ arg' = [arg EXCEPT ![u] = b]
             /\ \E i \in Holding(a) : slot' = [slot EXCEPT ![u] = i]
      BY <2>7, <2>2 DEF ReallocFind, TypeOK
    <3>2. pc[u] = "idle" /\ pc'[u] = "resize" /\ ptr' = ptr /\ bits' = bits /\ arg'[u] = b
      BY <2>7, <2>2, <3>1 DEF ReallocFind, At, Goto, table, TypeOK
    <3>3. a \in Addr /\ slot'[u] \in Slots /\ ptr[slot'[u]] = a
      BY <3>1 DEF Holding, TypeOK
    <3>4. \A i \in Slots : i # slot'[u] => ptr[i] # a
      BY <3>3 DEF BlocksDistinct
    <3>5. \A i \in Slots : i # slot'[u] => ptr[i] # b
      BY <3>1, <3>2, <3>4 DEF BlocksLive
    <3> QED
      BY <3>1, <3>2, <3>3, <3>4, <3>5 DEF BlocksLive, BlocksDistinct, IncomingFresh, MarkedHold
  <2>8. CASE ReallocStore(u)
    <3>1. /\ pc[u] = "resize" /\ pc'[u] = "idle" /\ slot[u] \in Slots /\ arg[u] \in Addr
          /\ ptr' = [ptr EXCEPT ![slot[u]] = arg[u]] /\ bits' = bits /\ live' = live
      BY <2>8 DEF ReallocStore, At, Return, Goto, TypeOK, CallsHaveSlots
    <3>2. arg[u] \in live /\ \A i \in Slots : i # slot[u] => ptr[i] # arg[u]
      BY <3>1 DEF IncomingFresh
    <3> QED
      BY <3>1, <3>2 DEF BlocksLive, BlocksDistinct, IncomingFresh, MarkedHold, TypeOK
  <2>9. CASE FreeFind(u)
    <3>1. pc[u] = "idle" /\ pc'[u] \in {"idle", "clear"} /\ ptr' = ptr /\ bits' = bits /\ live' = live
      BY <2>9 DEF FreeFind, At, Goto, table, TypeOK
    <3> QED
      BY <3>1 DEF BlocksLive, BlocksDistinct, IncomingFresh, MarkedHold
  <2>10. CASE FreeClear(u)
    <3>1. /\ pc[u] = "clear" /\ pc'[u] = "release" /\ ptr' = ptr /\ live' = live
          /\ slot'[u] = slot[u] /\ bits' = bits \ ClearedBits(slot[u])
      BY <2>10 DEF FreeClear, At, Goto, TypeOK
    <3> QED
      BY <3>1, SlotIsCleared DEF BlocksLive, BlocksDistinct, IncomingFresh, MarkedHold
  <2>11. CASE FreeRelease(u)
    <3>1. /\ pc[u] = "release" /\ pc'[u] = "idle" /\ slot[u] \in Slots /\ bits' = bits
          /\ ptr' = [ptr EXCEPT ![slot[u]] = NULL] /\ live' = live \ {ptr[slot[u]]}
      BY <2>11 DEF FreeRelease, At, Return, Goto, TypeOK, CallsHaveSlots
    <3> QED
      BY <3>1 DEF BlocksLive, BlocksDistinct, IncomingFresh, MarkedHold, TypeOK
  <2> QED
    BY <1>s, <2>4, <2>5, <2>6, <2>7, <2>8, <2>9, <2>10, <2>11 DEF gfc_gc_realloc, gfc_gc_free
<1> QED
  BY <1>u, <1>g, <1>s DEF Next, gfc_gc_malloc

LEMMA SoundAlways ==
    ASSUME NEW u, Threads = {u}
    PROVE  Spec => []Sound(u)
<1>1. Init => Sound(u)
  BY Constants DEF Init, Sound, BlocksLive, BlocksDistinct, IncomingFresh, MarkedHold, Slots
<1>2. TypeInv /\ Sound(u) /\ [Next]_vars => Sound(u)'
  BY SoundNext
<1> QED
  BY <1>1, <1>2, TypeInit, TypeNext, PTL DEF Spec

\* A program with one thread, whatever it allocates, resizes and frees: until
\* the table grows every block in it is handed out by libc and in one slot
\* only.
THEOREM TableIsSound ==
    ASSUME NEW u, Threads = {u}
    PROVE  Spec => []TableHoldsLiveBlocks
<1>1. Sound(u) => TableHoldsLiveBlocks
  BY DEF Sound, BlocksLive, BlocksDistinct, TableHoldsLiveBlocks, Idle
<1> QED
  BY <1>1, SoundAlways, PTL

\* With one thread, every slot gfc_gc_malloc passes over because its bit is
\* set holds a block: gfc_gc_free gives back each slot it empties.
THEOREM MarkedSlotsAreUsed ==
    ASSUME NEW u, Threads = {u}
    PROVE  Spec => []MarkedSlotsHoldBlocks
<1>1. Sound(u) => MarkedSlotsHoldBlocks
  BY DEF Sound, MarkedHold, MarkedSlotsHoldBlocks, Idle
<1> QED
  BY <1>1, SoundAlways, PTL

-----------------------------------------------------------------------------
(* Arithmetic on a size_t: reducing a term first does not change a sum.     *)

LEMMA OneRemainder ==
    ASSUME NEW m \in Nat \ {0}, NEW q \in Int, NEW r \in 0 .. m - 1, NEW s \in 0 .. m - 1,
           r - s = m * q
    PROVE  r = s
<1>1. CASE q >= 1
  <2>1. m * q >= m
    BY <1>1
  <2> QED BY <2>1
<1>2. CASE q <= 0 - 1
  <2>1. m * q <= 0 - m
    BY <1>2
  <2> QED BY <2>1
<1>3. CASE q = 0
  BY <1>3
<1> QED BY <1>1, <1>2, <1>3

LEMMA WrappedIsRemainder ==
    ASSUME NEW n \in Int
    PROVE  Wrapped(n) \in 0 .. SizeMod - 1 /\ \E q \in Int : n - Wrapped(n) = SizeMod * q
<1>1. n - (n % SizeMod) = SizeMod * (n \div SizeMod)
  BY GcConstants
<1>2. n \div SizeMod \in Int
  BY GcConstants
<1>3. n % SizeMod \in 0 .. SizeMod - 1
  BY GcConstants
<1> QED BY <1>1, <1>2, <1>3 DEF Wrapped

LEMMA WrappedSum ==
    ASSUME NEW n \in Int, NEW k \in Int
    PROVE  Wrapped(Wrapped(n) + k) = Wrapped(n + k)
<1> DEFINE u == Wrapped(n)
           v == Wrapped(u + k)
           w == Wrapped(n + k)
<1>1. u \in Int
  BY WrappedIsRemainder, GcConstants
<1>2. v \in 0 .. SizeMod - 1 /\ w \in 0 .. SizeMod - 1 /\ v \in Int /\ w \in Int
  BY <1>1, WrappedIsRemainder, GcConstants
<1>3. PICK a \in Int : n - u = SizeMod * a
  BY WrappedIsRemainder
<1>4. PICK b \in Int : (u + k) - v = SizeMod * b
  BY <1>1, WrappedIsRemainder
<1>5. PICK c \in Int : (n + k) - w = SizeMod * c
  BY WrappedIsRemainder
<1> HIDE DEF u, v, w
<1>6. SizeMod * c - SizeMod * b - SizeMod * a = SizeMod * (c - b - a) /\ c - b - a \in Int
  BY GcConstants
<1>7. v - w = SizeMod * c - SizeMod * b - SizeMod * a
  <2> DEFINE ma == SizeMod * a
             mb == SizeMod * b
             mc == SizeMod * c
  <2>1. ma \in Int /\ mb \in Int /\ mc \in Int
    BY GcConstants
  <2>2. n - u = ma /\ (u + k) - v = mb /\ (n + k) - w = mc
    BY <1>3, <1>4, <1>5
  <2> HIDE DEF ma, mb, mc
  <2>3. v - w = mc - mb - ma
    BY <1>1, <1>2, <2>1, <2>2
  <2> QED BY <2>3 DEF ma, mb, mc
<1>8. v = w
  BY <1>2, <1>6, <1>7, GcConstants, OneRemainder
<1> QED BY <1>8 DEF u, v, w

-----------------------------------------------------------------------------
(* The total.  Between the steps of a call it differs from the bytes handed  *)
(* out by what the call still owes it.                                       *)

\* Each slot holds the size of its block, except while realloc changes it and
\* after free has set it to 0; free's slot keeps the block until the end.
EntriesMatch(u) ==
    /\ \A i \in Slots :
         (ptr[i] # NULL /\ ~(pc[u] \in {"resize", "release"} /\ i = slot[u]))
           => tot[i] = size[ptr[i]]
    /\ pc[u] \in {"clear", "release"} => ptr[slot[u]] = arg[u]

\* malloc has yet to add its block, realloc to exchange its sizes; free takes
\* the block off the total before libc takes it back.
Owed(u) ==
    CASE pc[u] \in {"store", "release"} -> 0 - size[arg[u]]
      [] pc[u] = "resize" -> tot[slot[u]] - size[arg[u]]
      [] OTHER -> 0

Balanced(u) == total = Wrapped(SumOver(size, live) + Owed(u))

Counted(u) ==
    /\ IsFiniteSet(live)
    /\ (~crashed /\ NeverGrown) => EntriesMatch(u) /\ Balanced(u)

\* The bytes handed out once a block is, and once it is not.
LEMMA BytesEnter ==
    ASSUME NEW S, IsFiniteSet(S), S \subseteq Addr, NEW g \in [Addr -> Int],
           NEW a \in Addr, a \notin S, NEW n \in Int
    PROVE  SumOver([g EXCEPT ![a] = n], S \cup {a}) = SumOver(g, S) + n
<1> DEFINE h == [g EXCEPT ![a] = n]
<1>1. h[a] = n /\ Whole(h, S \cup {a}) /\ \A b \in S : g[b] = h[b]
  BY DEF Whole
<1> HIDE DEF h
<1>2. SumOver(h, S \cup {a}) = SumOver(h, S) + n
  BY <1>1, SumAdd
<1>3. SumOver(g, S) = SumOver(h, S)
  BY <1>1, SumSame
<1> QED BY <1>2, <1>3 DEF h

LEMMA BytesLeave ==
    ASSUME NEW S, IsFiniteSet(S), S \subseteq Addr, NEW g \in [Addr -> Int], NEW a \in S
    PROVE  SumOver(g, S \ {a}) = SumOver(g, S) - g[a]
<1>1. Whole(g, S)
  BY DEF Whole
<1> QED BY <1>1, SumRemove

LEMMA BytesType ==
    ASSUME TypeOK, IsFiniteSet(live)
    PROVE  /\ size \in [Addr -> Int] /\ SumOver(size, live) \in Int
           /\ live \subseteq Addr /\ total \in Int
<1>1. size \in [Addr -> Int] /\ live \subseteq Addr /\ total \in Int
  BY Constants DEF TypeOK
<1>2. Whole(size, live)
  BY <1>1 DEF Whole
<1> QED BY <1>1, <1>2, SumType

LEMMA LiveStaysFinite ==
    ASSUME TypeInv, IsFiniteSet(live), [Next]_vars
    PROVE  IsFiniteSet(live')
<1>1. ASSUME NEW a, NEW b PROVE IsFiniteSet(live \cup {a}) /\ IsFiniteSet((live \ {a}) \cup {b})
  BY FS_AddElement, FS_RemoveElement
<1>2. ASSUME NEW a PROVE IsFiniteSet(live \ {a})
  BY FS_RemoveElement
<1>3. CASE UNCHANGED live
  BY <1>3
<1>4. CASE \E a \in Addr : live' = live \cup {a}
  BY <1>1, <1>4
<1>5. CASE \E a, b \in Addr : live' = (live \ {a}) \cup {b}
  BY <1>1, <1>5
<1>6. CASE \E a : live' = live \ {a}
  BY <1>2, <1>6
<1>7. ASSUME NEW t \in Threads, ReallocFind(t) PROVE \E a, b \in Addr : live' = (live \ {a}) \cup {b}
  BY <1>7 DEF ReallocFind, TypeInv, TypeOK
<1>8. ASSUME NEW t \in Threads, FreeRelease(t) PROVE \E a : live' = live \ {a}
  BY <1>8 DEF FreeRelease
<1>9. ASSUME NEW t \in Threads, gfc_gc_malloc(t) \/ ReallocStore(t) \/ FreeFind(t) \/ FreeClear(t)
      PROVE  UNCHANGED live \/ \E a \in Addr : live' = live \cup {a}
  BY <1>9 DEF gfc_gc_malloc, MallocFind, MallocStore, MallocGrow, MallocReturn,
              ReallocStore, FreeFind, FreeClear
<1> QED
  BY <1>3, <1>4, <1>5, <1>6, <1>7, <1>8, <1>9 DEF Next, gfc_gc_realloc, gfc_gc_free, vars

LEMMA CountedNext ==
    ASSUME NEW u, Threads = {u}, TypeInv, Sound(u), Counted(u), [Next]_vars
    PROVE  Counted(u)'
<1> USE Constants
<1>0. TypeOK /\ CallsHaveSlots /\ u \in Threads /\ IsFiniteSet(live)
  BY DEF TypeInv, Counted
<1>f. IsFiniteSet(live')
  BY <1>0, LiveStaysFinite
<1>u. CASE UNCHANGED vars
  BY <1>u, <1>f DEF Counted, EntriesMatch, Balanced, Owed, NeverGrown, Slots, vars
<1>g. CASE MallocGrow(u)
  <2>1. len' = len + IncCount /\ len \in Nat /\ len >= IncCount
    BY <1>g, <1>0 DEF MallocGrow, TypeOK, Sound
  <2>2. len' # IncCount
    BY <2>1
  <2> QED
    BY <2>2, <1>f DEF Counted, NeverGrown
<1>s. CASE MallocFind(u) \/ MallocStore(u) \/ MallocReturn(u) \/ gfc_gc_realloc(u) \/ gfc_gc_free(u)
  <2>1. len' = len /\ Slots' = Slots /\ ~crashed
    BY <1>s DEF MallocFind, MallocStore, MallocReturn, gfc_gc_realloc, ReallocFind, ReallocStore,
                gfc_gc_free, FreeFind, FreeClear, FreeRelease, At, Slots, table
  <2>2. SUFFICES ASSUME ~crashed', len = IncCount PROVE EntriesMatch(u)' /\ Balanced(u)'
    BY <1>f, <2>1 DEF Counted, NeverGrown
  <2>3. EntriesMatch(u) /\ Balanced(u)
    BY <2>1, <2>2 DEF Counted, NeverGrown
  <2>4. BlocksLive(u) /\ BlocksDistinct /\ IncomingFresh(u)
    BY <2>1, <2>2 DEF Sound, NeverGrown
  <2> DEFINE bytes == SumOver(size, live)
             owed == Owed(u)
  <2>5. size \in [Addr -> Int] /\ bytes \in Int /\ live \subseteq Addr /\ total \in Int
    BY <1>0, BytesType
  <2>6. total = Wrapped(bytes + owed)
    BY <2>3 DEF Balanced
  <2>7. CASE MallocFind(u)
    <3>1. PICK a \in Addr \ live, n \in Sizes :
             /\ live' = live \cup {a} /\ size' = [size EXCEPT ![a] = n]
             /\ arg' = [arg EXCEPT ![u] = a]
      BY <2>7 DEF MallocFind
    <3>2. /\ pc[u] = "idle" /\ pc'[u] = "store" /\ arg'[u] = a
          /\ ptr' = ptr /\ tot' = tot /\ total' = total
      BY <2>7, <3>1, <1>0 DEF MallocFind, At, Goto, table, TypeOK
    <3>3. \A i \in Slots : ptr[i] # a
      BY <3>1, <3>2, <2>4, <1>0 DEF BlocksLive
    <3>4. EntriesMatch(u)'
      <4>1. \A i \in Slots : ptr[i] # NULL => size'[ptr[i]] = size[ptr[i]]
        BY <3>1, <3>3, <1>0 DEF TypeOK
      <4> QED BY <3>2, <4>1, <2>1, <2>3 DEF EntriesMatch
    <3>5. owed = 0 /\ owed' = 0 - n /\ n \in Int
      BY <3>1, <3>2, <2>5 DEF Owed
    <3>6. bytes' = bytes + n
      <4>1. a \in Addr /\ a \notin live
        BY <3>1
      <4> QED BY <3>1, <3>5, <4>1, <2>5, <1>0, BytesEnter
    <3>7. bytes + owed = bytes' + owed'
      BY <3>5, <3>6, <2>5
    <3> QED BY <3>2, <3>4, <3>7, <2>6 DEF Balanced
  <2>8. CASE MallocStore(u)
    <3> DEFINE n == size[arg[u]]
    <3>1. /\ pc[u] = "store" /\ pc'[u] = "check" /\ slot[u] \in Slots /\ arg[u] \in Addr
          /\ ptr' = [ptr EXCEPT ![slot[u]] = arg[u]] /\ tot' = [tot EXCEPT ![slot[u]] = n]
          /\ total' = Wrapped(total + n) /\ size' = size /\ live' = live
      BY <2>8, <1>0 DEF MallocStore, At, Goto, TypeOK, CallsHaveSlots, Slots
    <3>2. EntriesMatch(u)'
      BY <3>1, <2>1, <2>3, <1>0 DEF EntriesMatch, TypeOK
    <3>3. n \in Int /\ owed = 0 - n /\ owed' = 0 /\ bytes' = bytes
      BY <3>1, <2>5 DEF Owed
    <3> HIDE DEF n
    <3>4. bytes + owed + n = bytes' + owed' /\ owed \in Int /\ bytes' \in Int /\ owed' \in Int
      BY <3>3, <2>5
    <3> HIDE DEF bytes, owed
    <3>5. total' = Wrapped(bytes' + owed')
      <4>1. bytes + owed \in Int
        BY <3>4, <2>5
      <4>2. Wrapped(total + n) = Wrapped(bytes + owed + n)
        BY <3>3, <4>1, <2>6, WrappedSum
      <4> QED BY <3>1, <3>4, <4>2
    <3> QED BY <3>2, <3>5 DEF Balanced, bytes, owed
  <2>9. CASE MallocReturn(u)
    <3>1. /\ pc[u] = "check" /\ pc'[u] = "idle" /\ ptr' = ptr /\ tot' = tot /\ total' = total
          /\ size' = size /\ live' = live
      BY <2>9, <1>0 DEF MallocReturn, At, Return, Goto, table, TypeOK
    <3> QED BY <3>1, <2>1, <2>3 DEF EntriesMatch, Balanced, Owed
  <2>10. CASE ReallocFind(u)
    <3>1. PICK a \in owned[u], n \in Sizes, b \in Addr :
             /\ b = a \/ b \notin live
             /\ live' = (live \ {a}) \cup {b} /\ size' = [size EXCEPT ![b] = n]
             /\ arg' = [arg EXCEPT ![u] = b]
             /\ \E i \in Holding(a) : slot' = [slot EXCEPT ![u] = i]
      BY <2>10, <2>2, <1>0 DEF ReallocFind, TypeOK
    <3>2. /\ pc[u] = "idle" /\ pc'[u] = "resize" /\ arg'[u] = b
          /\ ptr' = ptr /\ tot' = tot /\ total' = total
      BY <2>10, <2>2, <3>1, <1>0 DEF ReallocFind, At, Goto, table, TypeOK
    <3>3. a \in Addr /\ slot'[u] \in Slots /\ ptr[slot'[u]] = a
      BY <3>1, <1>0 DEF Holding, TypeOK
    <3>4. a \in live /\ \A i \in Slots : i # slot'[u] => ptr[i] # b
      BY <3>1, <3>2, <3>3, <2>4 DEF BlocksLive, BlocksDistinct
    <3>5. EntriesMatch(u)'
      <4>1. \A i \in Slots : (ptr[i] # NULL /\ i # slot'[u]) => size'[ptr[i]] = size[ptr[i]]
        BY <3>1, <3>4, <1>0 DEF TypeOK
      <4> QED BY <3>2, <4>1, <2>1, <2>3 DEF EntriesMatch
    <3>6. tot[slot'[u]] = size[a]
      BY <3>2, <3>3, <2>3 DEF EntriesMatch
    <3>7. n \in Int /\ size[a] \in Int /\ owed = 0 /\ owed' = size[a] - n
      BY <3>1, <3>2, <3>3, <3>6, <2>5 DEF Owed
    <3>8. bytes' = bytes - size[a] + n
      <4> DEFINE rest == live \ {a}
      <4>1. IsFiniteSet(rest) /\ rest \subseteq Addr /\ b \notin rest
        BY <3>1, <1>0, <2>5, FS_RemoveElement
      <4>2. SumOver(size, rest) = bytes - size[a]
        BY <3>4, <1>0, <2>5, BytesLeave
      <4> HIDE DEF rest
      <4>3. SumOver([size EXCEPT ![b] = n], rest \cup {b}) = SumOver(size, rest) + n
        <5>1. n \in Int /\ b \in Addr /\ size \in [Addr -> Int]
          BY <3>7, <2>5
        <5> QED BY ONLY <4>1, <5>1, BytesEnter
      <4> QED BY <3>1, <4>2, <4>3 DEF rest
    <3>9. bytes + owed = bytes' + owed'
      BY <3>7, <3>8, <2>5
    <3> QED BY <3>2, <3>5, <3>9, <2>6 DEF Balanced
  <2>11. CASE ReallocStore(u)
    <3> DEFINE n == size[arg[u]]
               m == tot[slot[u]]
    <3>1. /\ pc[u] = "resize" /\ pc'[u] = "idle" /\ slot[u] \in Slots /\ arg[u] \in Addr
          /\ ptr' = [ptr EXCEPT ![slot[u]] = arg[u]] /\ tot' = [tot EXCEPT ![slot[u]] = n]
          /\ total' = Wrapped(total + n - m) /\ size' = size /\ live' = live
      BY <2>11, <1>0 DEF ReallocStore, At, Return, Goto, TypeOK, CallsHaveSlots
    <3>2. EntriesMatch(u)'
      BY <3>1, <2>1, <2>3, <1>0 DEF EntriesMatch, TypeOK
    <3>3. n \in Int /\ m \in Int /\ owed = m - n /\ owed' = 0 /\ bytes' = bytes
      BY <3>1, <2>5, <1>0 DEF Owed, TypeOK
    <3> HIDE DEF n, m
    <3>4. /\ bytes + owed + (n - m) = bytes' + owed' /\ owed \in Int /\ bytes' \in Int
          /\ owed' \in Int /\ n - m \in Int /\ total + n - m = total + (n - m)
      BY <3>3, <2>5
    <3> HIDE DEF bytes, owed
    <3>5. total' = Wrapped(bytes' + owed')
      <4>1. bytes + owed \in Int
        BY <3>4, <2>5
      <4>2. Wrapped(total + (n - m)) = Wrapped(bytes + owed + (n - m))
        BY <3>4, <4>1, <2>6, WrappedSum
      <4> QED BY <3>1, <3>4, <4>2
    <3> QED BY <3>2, <3>5 DEF Balanced, bytes, owed
  <2>12. CASE FreeFind(u)
    <3>1. /\ pc[u] = "idle" /\ ptr' = ptr /\ tot' = tot /\ total' = total
          /\ size' = size /\ live' = live
          /\ \/ pc'[u] = "idle"
             \/ pc'[u] = "clear" /\ ptr[slot'[u]] = arg'[u]
      BY <2>12, <1>0 DEF FreeFind, Holding, At, Goto, table, TypeOK
    <3> QED BY <3>1, <2>1, <2>3 DEF EntriesMatch, Balanced, Owed
  <2>13. CASE FreeClear(u)
    <3> DEFINE n == size[arg[u]]
    <3>1. /\ pc[u] = "clear" /\ pc'[u] = "release" /\ slot[u] \in Slots /\ arg[u] \in Addr
          /\ ptr' = ptr /\ tot' = [tot EXCEPT ![slot[u]] = 0] /\ slot' = slot /\ arg' = arg
          /\ total' = Wrapped(total - tot[slot[u]]) /\ size' = size /\ live' = live
      BY <2>13, <1>0 DEF FreeClear, At, Goto, TypeOK, CallsHaveSlots
    <3>2. ptr[slot[u]] = arg[u] /\ tot[slot[u]] = n
      BY <3>1, <2>3 DEF EntriesMatch
    <3>3. EntriesMatch(u)'
      BY <3>1, <3>2, <2>1, <2>3, <1>0 DEF EntriesMatch, TypeOK
    <3>4. n \in Int /\ owed = 0 /\ owed' = 0 - n /\ bytes' = bytes
      BY <3>1, <2>5 DEF Owed
    <3> HIDE DEF n
    <3>5. /\ bytes + owed + (0 - n) = bytes' + owed' /\ owed \in Int /\ bytes' \in Int
          /\ owed' \in Int /\ 0 - n \in Int /\ total - n = total + (0 - n)
      BY <3>4, <2>5
    <3> HIDE DEF bytes, owed
    <3>6. total' = Wrapped(bytes' + owed')
      <4>1. bytes + owed \in Int
        BY <3>5, <2>5
      <4>2. Wrapped(total + (0 - n)) = Wrapped(bytes + owed + (0 - n))
        BY <3>5, <4>1, <2>6, WrappedSum
      <4> QED BY <3>1, <3>2, <3>5, <4>2
    <3> QED BY <3>3, <3>6 DEF Balanced, bytes, owed
  <2>14. CASE FreeRelease(u)
    <3>1. /\ pc[u] = "release" /\ pc'[u] = "idle" /\ slot[u] \in Slots /\ arg[u] \in Addr
          /\ ptr' = [ptr EXCEPT ![slot[u]] = NULL] /\ tot' = tot /\ total' = total
          /\ size' = size /\ live' = live \ {ptr[slot[u]]}
      BY <2>14, <1>0 DEF FreeRelease, At, Return, Goto, TypeOK, CallsHaveSlots
    <3>2. EntriesMatch(u)'
      BY <3>1, <2>1, <2>3, <1>0 DEF EntriesMatch, TypeOK
    <3>3. ptr[slot[u]] = arg[u] /\ arg[u] \in live
      BY <3>1, <2>3, <2>4 DEF EntriesMatch, BlocksLive
    <3>4. size[arg[u]] \in Int /\ owed = 0 - size[arg[u]] /\ owed' = 0
      BY <3>1, <2>5 DEF Owed
    <3>5. bytes' = bytes - size[arg[u]]
      BY <3>1, <3>3, <1>0, <2>5, BytesLeave
    <3>6. bytes + owed = bytes' + owed'
      BY <3>4, <3>5, <2>5
    <3> QED BY <3>1, <3>2, <3>6, <2>6 DEF Balanced
  <2> QED
    BY <1>s, <2>7, <2>8, <2>9, <2>10, <2>11, <2>12, <2>13, <2>14 DEF gfc_gc_realloc, gfc_gc_free
<1> QED
  BY <1>u, <1>g, <1>s DEF Next, gfc_gc_malloc

\* With one thread gfc_gc_total is right between calls, modulo 2^w and until
\* the table grows, even for blocks that have lost their slot to another one:
\* what a slot holds is what its block added, so a free takes off as much.
THEOREM TotalIsRight ==
    ASSUME NEW u, Threads = {u}
    PROVE  Spec => []TotalIsLiveBytes
<1>1. Init => Counted(u)
  <2> SUFFICES ASSUME Init PROVE Counted(u)
    OBVIOUS
  <2>1. IsFiniteSet({}) /\ SumOver(size, {}) = 0
    BY FS_EmptySet, SumEmpty
  <2>2. Owed(u) = 0
    BY DEF Init, Owed
  <2>3. Wrapped(0) = 0
    BY GcConstants DEF Wrapped
  <2>4. EntriesMatch(u)
    BY DEF Init, EntriesMatch, Slots
  <2>5. Balanced(u)
    BY <2>1, <2>2, <2>3 DEF Init, Balanced
  <2> QED
    BY <2>1, <2>4, <2>5 DEF Init, Counted
<1>2. TypeInv /\ Sound(u) /\ Counted(u) /\ [Next]_vars => Counted(u)'
  BY CountedNext
<1>3. TypeInv /\ Counted(u) => TotalIsLiveBytes
  <2> SUFFICES ASSUME TypeInv, Counted(u), Idle, NeverGrown
               PROVE  total = Wrapped(SumOver(size, live))
    BY DEF TotalIsLiveBytes, SumOver
  <2>1. Owed(u) = 0 /\ Balanced(u)
    BY DEF Idle, Owed, Counted
  <2>2. SumOver(size, live) \in Int
    BY BytesType DEF Counted, TypeInv
  <2> QED
    BY <2>1, <2>2 DEF Balanced
<1>4. Spec => []TypeInv
  BY TypeInit, TypeNext, PTL DEF Spec
<1>5. Spec => []Sound(u)
  BY SoundAlways
<1> QED
  BY <1>1, <1>2, <1>3, <1>4, <1>5, PTL DEF Spec

-----------------------------------------------------------------------------
(* The assertion at the end of gfc_gc_malloc.                                *)

LEMMA KeepsSlotNext ==
    ASSUME NEW u, Threads = {u}, TypeInv, MallocKeepsSlot, [Next]_vars
    PROVE  MallocKeepsSlot'
<1> SUFFICES ASSUME ~crashed', pc'[u] = "check" PROVE ptr'[slot'[u]] = arg'[u]
  BY DEF MallocKeepsSlot
<1>0. TypeOK /\ CallsHaveSlots /\ u \in Threads
  BY DEF TypeInv
<1>1. CASE UNCHANGED vars
  BY <1>0, <1>1 DEF vars, MallocKeepsSlot
<1>2. CASE MallocStore(u)
  <2>1. slot[u] \in Slots /\ ptr' = [ptr EXCEPT ![slot[u]] = arg[u]] /\ slot' = slot /\ arg' = arg
    BY <1>0, <1>2 DEF MallocStore, At, CallsHaveSlots, Slots, TypeOK
  <2> QED BY <1>0, <2>1 DEF TypeOK
<1>3. CASE MallocGrow(u)
  <2>1. slot[u] = len /\ slot[u] \in 0 .. len + IncCount - 1
    BY <1>0, <1>3, Constants DEF MallocGrow, At, CallsHaveSlots, TypeOK
  <2>2. ptr'[slot[u]] = arg[u] /\ slot' = slot /\ arg' = arg
    BY <1>3, <2>1 DEF MallocGrow, Grown
  <2> QED BY <2>2
<1>4. CASE MallocFind(u) \/ MallocReturn(u) \/ gfc_gc_realloc(u) \/ gfc_gc_free(u)
  <2>1. pc'[u] # "check"
    BY <1>0, <1>4 DEF MallocFind, MallocReturn, gfc_gc_realloc, ReallocFind, ReallocStore,
       gfc_gc_free, FreeFind, FreeClear, FreeRelease, At, Goto, Return, TypeOK
  <2> QED BY <2>1
<1> QED
  BY <1>1, <1>2, <1>3, <1>4 DEF Next, gfc_gc_malloc

\* The assertion that ends gfc_gc_malloc never fails in a program with one
\* thread, not even after the table has grown: the failure the run
\* gc_malloc_keeps_slot finds takes a second thread.
THEOREM OneThreadKeepsSlot ==
    ASSUME NEW u, Threads = {u}
    PROVE  Spec => []MallocKeepsSlot
<1>1. Init => MallocKeepsSlot
  BY DEF Init, MallocKeepsSlot
<1>2. TypeInv /\ MallocKeepsSlot /\ [Next]_vars => MallocKeepsSlot'
  BY KeepsSlotNext
<1> QED
  BY <1>1, <1>2, TypeInit, TypeNext, PTL DEF Spec

-----------------------------------------------------------------------------
(* A small program.  The mask that clears two bits belongs to the last slot  *)
(* but one of a byte; a program that never has as many blocks at a time as   *)
(* there are slots up to that one does not meet it.                          *)

Few == IsFiniteSet(live) /\ Cardinality(live) < ByteBits - 1

Low(i) == i < ByteBits - 2

\* Only the first slots of the table are used, a slot in use is marked, and a
\* block the program holds is in one.
Placed(u) ==
    /\ ~crashed /\ NeverGrown /\ rc[u] = "ok"
    /\ \A i \in Slots : ptr[i] # NULL => Low(i) /\ (i \in bits \/ (pc[u] = "release" /\ i = slot[u]))
    /\ pc[u] = "store" => Low(slot[u]) /\ slot[u] \notin bits
    /\ pc[u] \in {"clear", "release"} => arg[u] \notin owned[u] /\ ptr[slot[u]] = arg[u]
    /\ \A a \in owned[u] :
         \/ pc[u] = "resize" /\ a = arg[u]
         \/ \E i \in Slots : ptr[i] = a /\ ~(pc[u] = "resize" /\ i = slot[u])

LEMMA TableHasAByte == ByteBits \in Nat /\ ByteBits <= IncCount
<1>1. ByteBits \in Nat \ {0} /\ IncCount \in Nat \ {0} /\ IncCount % ByteBits = 0
  BY GcConstants
<1> DEFINE q == IncCount \div ByteBits
<1>2. IncCount - (IncCount % ByteBits) = ByteBits * q /\ q \in Int
  BY <1>1
<1> HIDE DEF q
<1>3. IncCount = ByteBits * q
  BY <1>1, <1>2
<1>4. CASE q >= 1
  <2>1. ByteBits * q >= ByteBits
    BY <1>1, <1>2, <1>4
  <2> QED BY <1>1, <1>3, <2>1
<1>5. CASE q <= 0
  <2>1. ByteBits * q <= 0
    BY <1>1, <1>2, <1>5
  <2> QED BY <1>1, <1>3, <2>1
<1> QED BY <1>1, <1>2, <1>4, <1>5

\* A mask clears one bit unless it is that of the last slot but one of a byte.
LEMMA LowClearsOne == \A i \in Nat : Low(i) => ClearedBits(i) = {i}
<1> SUFFICES ASSUME NEW i \in Nat, Low(i) PROVE i % ByteBits # ByteBits - 2
  BY DEF ClearedBits
<1>1. ByteBits \in Nat \ {0} /\ i < ByteBits - 2
  BY GcConstants DEF Low
<1>2. i - (i % ByteBits) = ByteBits * (i \div ByteBits) /\ i \div ByteBits \in Int
  BY <1>1
<1>3. i % ByteBits \in 0 .. ByteBits - 1 /\ i \in 0 .. ByteBits - 1
  BY <1>1
<1>4. i = i % ByteBits
  BY <1>1, <1>2, <1>3, OneRemainder
<1> QED BY <1>1, <1>4

\* The slots that are passed over hold as many blocks.
LEMMA FirstSlotIsLow ==
    ASSUME NEW u, TypeOK, BlocksLive(u), BlocksDistinct, MarkedHold(u), pc[u] = "idle",
           IsFiniteSet(live), NEW i \in Unmarked, IsFirst(i, Unmarked)
    PROVE  i <= Cardinality(live)
<1>1. i \in Nat /\ i <= len /\ len \in Nat
  BY DEF Unmarked, TypeOK
<1>2. \A j \in 0 .. i - 1 : j \in bits /\ j \in Slots
  BY <1>1 DEF IsFirst, Unmarked, Slots
<1>3. \A j \in 0 .. i - 1 : ptr[j] # NULL /\ ptr[j] \in live
  BY <1>2 DEF MarkedHold, BlocksLive
<1> DEFINE f == [j \in 0 .. i - 1 |-> ptr[j]]
<1>4. f \in [0 .. i - 1 -> live] /\ \A j, k \in 0 .. i - 1 : f[j] = f[k] => j = k
  BY <1>2, <1>3 DEF BlocksDistinct
<1> HIDE DEF f
<1>5. f \in Injection(0 .. i - 1, live)
  BY <1>4, Fun_IsInj
<1>6. Cardinality(0 .. i - 1) <= Cardinality(live)
  BY <1>5, FS_Injection
<1>7. Cardinality(0 .. i - 1) = i
  BY <1>1, FS_Interval
<1> QED BY <1>6, <1>7

LEMMA PlacedNext ==
    ASSUME NEW u, Threads = {u}, TypeInv, Sound(u), MallocKeepsSlot, Few, Few', Placed(u),
           [Next]_vars
    PROVE  Placed(u)'
<1> USE Constants
<1>0. /\ TypeOK /\ CallsHaveSlots /\ u \in Threads /\ ~crashed /\ len = IncCount
      /\ BlocksLive(u) /\ BlocksDistinct /\ IncomingFresh(u) /\ MarkedHold(u)
  BY DEF TypeInv, Placed, Sound, NeverGrown
<1> USE <1>0
<1>u. CASE UNCHANGED vars
  BY <1>u DEF Placed, NeverGrown, Slots, vars
<1>g. CASE MallocGrow(u)
  <2>1. slot[u] >= len /\ Low(slot[u]) /\ slot[u] \in Nat /\ ByteBits <= len /\ len \in Nat
    BY <1>g, TableHasAByte DEF MallocGrow, At, Placed, TypeOK
  <2>2. FALSE
    BY <2>1, TableHasAByte DEF Low
  <2> QED BY <2>2
<1>1. CASE MallocFind(u)
  <2>1. PICK a \in Addr \ live : live' = live \cup {a} /\ arg' = [arg EXCEPT ![u] = a]
    BY <1>1 DEF MallocFind
  <2>2. PICK i \in Unmarked : IsFirst(i, Unmarked) /\ slot' = [slot EXCEPT ![u] = i]
    BY <1>1 DEF MallocFind
  <2>3. /\ pc[u] = "idle" /\ pc'[u] = "store" /\ arg'[u] = a /\ slot'[u] = i
        /\ UNCHANGED <<ptr, bits, len, owned, rc, crashed>> /\ Slots' = Slots
    BY <1>1, <2>1, <2>2 DEF MallocFind, At, Goto, table, TypeOK, Slots
  <2>4. Low(i) /\ i \notin bits
    <3>1. i <= Cardinality(live)
      BY <2>2, <2>3, FirstSlotIsLow DEF Few
    <3>2. Cardinality(live') = Cardinality(live) + 1 /\ Cardinality(live) \in Nat
      BY <2>1, FS_AddElement, FS_CardinalityType DEF Few
    <3>3. i \in Nat /\ i \notin bits
      BY DEF Unmarked, TypeOK
    <3>4. Cardinality(live) + 1 < ByteBits - 1
      BY <3>2 DEF Few
    <3> HIDE DEF Few
    <3> QED BY <3>1, <3>2, <3>3, <3>4, TableHasAByte DEF Low
  <2> QED BY <2>3, <2>4 DEF Placed, NeverGrown
<1>2. CASE MallocStore(u)
  <2>1. /\ pc[u] = "store" /\ pc'[u] = "check" /\ slot[u] \in Slots /\ arg[u] \in Addr
        /\ ptr' = [ptr EXCEPT ![slot[u]] = arg[u]] /\ bits' = bits \cup {slot[u]}
        /\ UNCHANGED <<len, owned, rc, crashed>> /\ Slots' = Slots
    BY <1>2 DEF MallocStore, At, Goto, TypeOK, CallsHaveSlots, Slots
  <2>2. Low(slot[u]) /\ ptr[slot[u]] = NULL
    BY <2>1 DEF Placed
  <2>3. \A a \in owned[u] : \E i \in Slots : ptr'[i] = a
    <3> SUFFICES ASSUME NEW a \in owned[u] PROVE \E i \in Slots : ptr'[i] = a
      OBVIOUS
    <3>1. PICK i \in Slots : ptr[i] = a
      BY <2>1 DEF Placed
    <3>2. a # NULL
      BY DEF TypeOK
    <3>3. ptr'[i] = a
      BY <2>1, <2>2, <3>1, <3>2 DEF TypeOK
    <3> QED BY <3>3
  <2> QED BY <2>1, <2>2, <2>3 DEF Placed, NeverGrown, TypeOK
<1>3. CASE MallocReturn(u)
  <2>1. /\ pc[u] = "check" /\ pc'[u] = "idle" /\ slot[u] \in Slots
        /\ owned' = [owned EXCEPT ![u] = @ \cup {arg[u]}]
        /\ crashed' = (ptr[slot[u]] # arg[u])
        /\ UNCHANGED <<ptr, bits, len, rc>> /\ Slots' = Slots
    BY <1>3 DEF MallocReturn, At, Return, Goto, table, TypeOK, CallsHaveSlots, Slots
  <2>2. ptr[slot[u]] = arg[u]
    BY <2>1 DEF MallocKeepsSlot
  <2> QED BY <2>1, <2>2 DEF Placed, NeverGrown, TypeOK
<1>4. CASE ReallocFind(u)
  <2>1. PICK a \in owned[u], b \in Addr :
           /\ arg' = [arg EXCEPT ![u] = b]
           /\ owned' = [owned EXCEPT ![u] = (@ \ {a}) \cup {b}]
           /\ \/ /\ \E i \in Holding(a) : slot' = [slot EXCEPT ![u] = i]
                 /\ pc' = [pc EXCEPT ![u] = "resize"] /\ crashed' = crashed
              \/ Holding(a) = {}
    BY <1>4 DEF ReallocFind, Goto, TypeOK
  <2>2. Holding(a) # {} /\ pc[u] = "idle"
    BY <1>4 DEF ReallocFind, At, Placed, Holding
  <2>3. /\ pc'[u] = "resize" /\ arg'[u] = b /\ owned'[u] = (owned[u] \ {a}) \cup {b}
        /\ UNCHANGED <<ptr, bits, len, rc, crashed>> /\ Slots' = Slots
    BY <1>4, <2>1, <2>2 DEF ReallocFind, table, TypeOK, Slots
  <2>4. PICK i \in Slots : ptr[i] = a /\ slot' = [slot EXCEPT ![u] = i]
    BY <2>1, <2>2 DEF Holding
  <2>5. \A c \in owned'[u] : c = arg'[u] \/ \E j \in Slots : ptr'[j] = c /\ j # slot'[u]
    BY <2>2, <2>3, <2>4 DEF Placed, TypeOK
  <2> QED BY <2>2, <2>3, <2>5 DEF Placed, NeverGrown
<1>5. CASE ReallocStore(u)
  <2>1. /\ pc[u] = "resize" /\ pc'[u] = "idle" /\ slot[u] \in Slots /\ arg[u] \in Addr
        /\ ptr' = [ptr EXCEPT ![slot[u]] = arg[u]]
        /\ UNCHANGED <<bits, len, owned, rc, crashed>> /\ Slots' = Slots
    BY <1>5 DEF ReallocStore, At, Return, Goto, TypeOK, CallsHaveSlots, Slots
  <2>2. ptr[slot[u]] # NULL
    BY <2>1 DEF IncomingFresh
  <2>3. \A a \in owned[u] : \E i \in Slots : ptr'[i] = a
    BY <2>1 DEF Placed, TypeOK
  <2> QED BY <2>1, <2>2, <2>3 DEF Placed, NeverGrown, TypeOK
<1>6. CASE FreeFind(u)
  <2>1. PICK a \in owned[u] :
           /\ owned' = [owned EXCEPT ![u] = @ \ {a}]
           /\ \/ /\ \E i \in Holding(a) : slot' = [slot EXCEPT ![u] = i]
                 /\ arg' = [arg EXCEPT ![u] = a]
                 /\ Goto(u, "clear") /\ UNCHANGED rc
              \/ Holding(a) = {}
    BY <1>6 DEF FreeFind
  <2>2. Holding(a) # {} /\ pc[u] = "idle"
    BY <1>6 DEF FreeFind, At, Placed, Holding
  <2>3. /\ pc'[u] = "clear" /\ arg'[u] = a /\ owned'[u] = owned[u] \ {a}
        /\ ptr[slot'[u]] = a
        /\ UNCHANGED <<ptr, bits, len, rc, crashed>> /\ Slots' = Slots
    BY <1>6, <2>1, <2>2 DEF FreeFind, Goto, Holding, table, TypeOK, Slots
  <2> QED BY <2>2, <2>3 DEF Placed, NeverGrown
<1>7. CASE FreeClear(u)
  <2>1. /\ pc[u] = "clear" /\ pc'[u] = "release" /\ slot[u] \in Slots /\ arg[u] \in Addr
        /\ bits' = bits \ ClearedBits(slot[u])
        /\ UNCHANGED <<ptr, len, arg, slot, owned, rc, crashed>> /\ Slots' = Slots
    BY <1>7 DEF FreeClear, At, Goto, TypeOK, CallsHaveSlots, Slots
  <2>2. ptr[slot[u]] # NULL
    BY <2>1 DEF Placed
  <2>3. ClearedBits(slot[u]) = {slot[u]}
    BY <2>1, <2>2, LowClearsOne DEF Placed, TypeOK
  <2> QED BY <2>1, <2>3 DEF Placed, NeverGrown
<1>8. CASE FreeRelease(u)
  <2>1. /\ pc[u] = "release" /\ pc'[u] = "idle" /\ slot[u] \in Slots
        /\ ptr' = [ptr EXCEPT ![slot[u]] = NULL] /\ rc' = [rc EXCEPT ![u] = "ok"]
        /\ crashed' = (ptr[slot[u]] \notin live \cup {NULL})
        /\ UNCHANGED <<bits, len, owned>> /\ Slots' = Slots
    BY <1>8 DEF FreeRelease, At, Return, Goto, TypeOK, CallsHaveSlots, Slots
  <2>2. crashed' = FALSE
    BY <2>1 DEF BlocksLive
  <2>3. \A a \in owned[u] : \E i \in Slots : ptr'[i] = a
    BY <2>1 DEF Placed, TypeOK
  <2>4. \A i \in Slots : ptr'[i] # NULL => i # slot[u] /\ ptr[i] # NULL
    BY <2>1 DEF TypeOK
  <2> QED BY <2>1, <2>2, <2>3, <2>4 DEF Placed, NeverGrown, TypeOK
<1> QED
  BY <1>u, <1>g, <1>1, <1>2, <1>3, <1>4, <1>5, <1>6, <1>7, <1>8
  DEF Next, gfc_gc_malloc, gfc_gc_realloc, gfc_gc_free

\* What the library's test asserts, and with it every assertion of gfc_gc.c,
\* holds for a program with one thread that never has more than six blocks at
\* a time (for bytes of eight bits): a test that frees each block before it
\* takes the next cannot meet the defect the run gc_free_finds_block finds
\* with seven.
THEOREM SmallProgramsAreSafe ==
    ASSUME NEW u, Threads = {u}
    PROVE  Spec /\ []Few => [](~crashed /\ FreeFindsBlock)
<1>1. Init => Placed(u)
  <2> SUFFICES ASSUME Init PROVE Placed(u)
    OBVIOUS
  <2>1. ~crashed /\ NeverGrown /\ rc[u] = "ok" /\ pc[u] = "idle" /\ owned[u] = {}
    BY Zenon DEF Init, NeverGrown
  <2>2. \A i \in Slots : ptr[i] = NULL
    BY DEF Init, Slots
  <2> QED
    BY <2>1, <2>2 DEF Placed
<1>2. TypeInv /\ Sound(u) /\ MallocKeepsSlot /\ Few /\ Few' /\ Placed(u) /\ [Next]_vars
        => Placed(u)'
  BY PlacedNext
<1>3. Placed(u) => ~crashed /\ FreeFindsBlock
  BY DEF Placed, FreeFindsBlock
<1>4. Spec => []TypeInv
  BY TypeInit, TypeNext, PTL DEF Spec
<1>5. Spec => []Sound(u)
  BY SoundAlways
<1>6. Spec => []MallocKeepsSlot
  BY OneThreadKeepsSlot
<1> QED
  BY <1>1, <1>2, <1>3, <1>4, <1>5, <1>6, PTL DEF Spec
=============================================================================
