--------------------------- MODULE MCMessagesStream ---------------------------
(***************************************************************************)
(* Small instances of MessagesStream.                                      *)
(***************************************************************************)
EXTENDS MessagesStream, TLC

ToolSymmetry == Permutations(Tool)
=============================================================================
