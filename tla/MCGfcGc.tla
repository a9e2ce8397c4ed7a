------------------------------ MODULE MCGfcGc ------------------------------
(* GfcGc for TLC: the blocks libc hands out are interchangeable, and the     *)
(* exploration ends where the table has grown, because no property speaks    *)
(* of a table with uninitialised slots.                                      *)
EXTENDS GfcGc, TLC

AddrSymmetry == Permutations(Addr)

UntilGrown == NeverGrown
=============================================================================
