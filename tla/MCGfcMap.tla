------------------------------ MODULE MCGfcMap ------------------------------
(***************************************************************************)
(* Constants for TLC.  In a table of 8, with two slots to a chain, "a" and *)
(* "b" share the last slot and their chains wrap around to the hash of     *)
(* "c": when the table of 8 is doubled in slot order, the entries that     *)
(* wrapped go first and a rehash inside the rehash is needed.              *)
(***************************************************************************)
EXTENDS GfcMap

HashDef == [k \in Keys |-> CASE k = "a" -> 7 [] k = "b" -> 23 [] k = "c" -> 8]
=============================================================================
