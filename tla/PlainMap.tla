------------------------------ MODULE PlainMap ------------------------------
(***************************************************************************)
(* What gfc_map (3rd/gfc-0.1.1/src/gfc_map.c) promises its callers: one    *)
(* function from keys to values, NULL where a key has none.                *)
(*                                                                         *)
(* The promise has two strengths.  A tidy map is a map: a put changes one  *)
(* key, a removed key is gone, and a map that is only put to stays tidy    *)
(* through every growth of its table.  A map that is not tidy (a removal   *)
(* left a hole in a probe chain, or the memory it was made of still holds  *)
(* the rows of another map) keeps what it was told only until its table    *)
(* grows: a put still changes one key, but a removed key may come back     *)
(* with an older value and a growth may change any key.                    *)
(***************************************************************************)
CONSTANTS Keys, Vals, NULL

VARIABLES
    m,      \* the value of each key
    tidy,   \* the map has kept its entries where a put looks for them
    call,   \* the put that is under way
    last    \* what the last call to return has reported

view == <<m, tidy, call, last>>

NoCall == [key |-> NULL, data |-> NULL]
NoValues == [k \in Keys |-> NULL]

Reports(what, k) == last' = [did |-> what, key |-> k]

\* Every key has kept its value in m' or has lost it.
OnlyLosses == \A k \in Keys : m'[k] \in {m[k], NULL}

Init ==
    /\ m = NoValues /\ tidy \in BOOLEAN
    /\ call = NoCall /\ last = [did |-> "freed", key |-> NULL]

-----------------------------------------------------------------------------
(* gfc_map_put: between its call and its return only the table grows.      *)

Begin(k, v) ==
    /\ call = NoCall /\ call' = [key |-> k, data |-> v]
    /\ UNCHANGED <<m, tidy, last>>

\* Growth of a table that is not tidy.
Grow ==
    /\ call # NoCall /\ ~tidy
    /\ m' \in [Keys -> Vals \cup {NULL}]
    /\ tidy' \in BOOLEAN
    /\ UNCHANGED <<call, last>>

\* A put that reports success has stored its value under its key.
Put ==
    /\ call # NoCall /\ call' = NoCall
    /\ m' = [m EXCEPT ![call.key] = call.data]
    /\ tidy' \in BOOLEAN /\ (tidy => tidy')
    /\ Reports("put", NULL)

\* A put that runs out of memory may leave entries behind in the old table.
Fail ==
    /\ call # NoCall /\ call' = NoCall
    /\ m' \in [Keys -> Vals \cup {NULL}]
    /\ tidy => OnlyLosses
    /\ tidy' \in BOOLEAN
    /\ Reports("failed", NULL)

-----------------------------------------------------------------------------
\* A call of gfc_map_new, gfc_map_free or gfc_map_deep_free.
Renew ==
    /\ call = NoCall
    /\ m' = NoValues /\ tidy' \in BOOLEAN
    /\ Reports("made", NULL) \/ Reports("freed", NULL)
    /\ UNCHANGED call

\* A removal touches one key, and a tidy map has it no more.
Remove(k) ==
    /\ call = NoCall
    /\ \E v \in Vals \cup {NULL} : m' = [m EXCEPT ![k] = v]
    /\ tidy => m'[k] = NULL
    /\ tidy' \in BOOLEAN
    /\ Reports("removed", k)
    /\ UNCHANGED call

\* gfc_map_iterate clears what it visits.
Iterate ==
    /\ call = NoCall
    /\ m' \in [Keys -> Vals \cup {NULL}]
    /\ tidy => OnlyLosses
    /\ tidy' \in BOOLEAN
    /\ Reports("iterated", NULL)
    /\ UNCHANGED call

Next ==
    \/ Grow \/ Put \/ Fail \/ Renew \/ Iterate
    \/ \E k \in Keys : Remove(k) \/ \E v \in Vals : Begin(k, v)

Spec == Init /\ [][Next]_view
=============================================================================
