------------------------ MODULE MCReasoningReinject ------------------------
(***************************************************************************)
(* Small instances of ReasoningReinject.                                   *)
(***************************************************************************)
EXTENDS ReasoningReinject, TLC

CONSTANTS chat1, chat2, resp

(* Conversations of one session: one over the chat path in a context of its *)
(* own, and two in one context over different endpoints, which may hit what *)
(* the other left in the cache.                                             *)
OneKey == [t \in Thread |-> 1]
SharedByTwo == [t \in Thread |-> IF t = chat1 THEN 1 ELSE 2]
BothPaths == [t \in Thread |-> IF t = resp THEN "responses" ELSE "chat"]
=============================================================================
