--------------------------- MODULE MCStatsDialog ----------------------------
(* A conversation, one with the same fixed part that begins like it, and      *)
(* requests no context can be made of.  Every answer calls two tools.         *)
EXTENDS StatsDialog

CONSTANTS main, other, a, b, c, Read, Bash

Request(s, p, w) == [static |-> s, prefix |-> p, word |-> w]

MCRequests ==
  <<{Request(main, <<>>, a)},
    {Request(main, <<a>>, b)},
    {Request(main, <<>>, a), Request(other, <<>>, c)}>>

MCWrites == {{"downstream", "non_stream"}}

MCCalls == {<<Bash, Read>>}

\* Two boards of the same keywords.
Filter(nonTool, lane, tool) ==
  [nonTool |-> nonTool, agent |-> lane, tool |-> tool, q |-> {a, Read}, qNot |-> {c}]

MCFilters == {Filter(TRUE, AnyLane, AnyTool), Filter(FALSE, <<main, 1>>, Read)}
=============================================================================
