------------------------ MODULE MCCodexAccountPool ------------------------
(***************************************************************************)
(* Small instances of CodexAccountPool.                                    *)
(***************************************************************************)
EXTENDS CodexAccountPool, TLC

(* Every label has an account id of its own. *)
OwnIds == [l \in Label |-> l]

RequestSymmetry == Permutations(Request)
=============================================================================
