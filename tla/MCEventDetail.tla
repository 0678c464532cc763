--------------------------- MODULE MCEventDetail ----------------------------
(* A single event without details, one with, and a group that under another  *)
(* filter has the same id but other members.                                 *)
EXTENDS EventDetail

Names == {"a", "b", "c", "d", "e", "g"}

Child(id, loaded) == [id |-> id, loaded |-> loaded]
Single(id, loaded) == [id |-> id, loaded |-> loaded, children |-> <<>>]
Group(children) == [id |-> "g", loaded |-> TRUE, children |-> children]

TwoBoards ==
  {{Single("a", FALSE), Single("b", TRUE), Group(<<Child("c", FALSE), Child("d", FALSE)>>)},
   {Single("a", FALSE), Group(<<Child("d", FALSE), Child("e", TRUE)>>)}}
=============================================================================
