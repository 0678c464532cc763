---------------------------- MODULE LatestAnswer ----------------------------
(* What a panel that asks the server over and over promises its reader,      *)
(* whatever the order in which the server answers: at most the answer to the *)
(* LATEST question is ever put on the screen, it is put there once, and as   *)
(* long as the panel says it is loading that answer is still to come.        *)
(* The late answers to earlier questions are stuttering steps.               *)

CONSTANTS
  Question,     \* what can be asked
  Nothing       \* no question, and the screen after a failure

VARIABLES
  asked,        \* the latest question
  loading,      \* the panel says that it waits for an answer
  shown         \* the question whose answer is on the screen

vars == <<asked, loading, shown>>

TypeOK ==
  /\ asked \in Question \cup {Nothing}
  /\ loading \in BOOLEAN
  /\ shown \in Question \cup {Nothing}

Init ==
  /\ asked = Nothing
  /\ loading = FALSE
  /\ shown = Nothing

Ask ==
  /\ asked' \in Question
  /\ loading' = TRUE
  /\ UNCHANGED shown

Answer ==
  /\ loading
  /\ loading' = FALSE
  /\ shown' \in {asked, Nothing}
  /\ UNCHANGED asked

Next == Ask \/ Answer

Spec == Init /\ [][Next]_vars
=============================================================================
