-------------------------- MODULE MCCodexFailover --------------------------
(***************************************************************************)
(* Small instances of CodexFailover.                                       *)
(***************************************************************************)
EXTENDS CodexFailover, TLC

(* Every label has an account id of its own. *)
OwnIds == [l \in Label |-> l]

RequestSymmetry == Permutations(Request)
=============================================================================
