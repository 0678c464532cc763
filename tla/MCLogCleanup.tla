--------------------------- MODULE MCLogCleanup ---------------------------
(***************************************************************************)
(* Small instances of LogCleanup.                                          *)
(***************************************************************************)
EXTENDS LogCleanup, TLC

TurnSymmetry == Permutations(Turn)
=============================================================================
