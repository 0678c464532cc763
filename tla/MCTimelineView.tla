--------------------------- MODULE MCTimelineView ---------------------------
(* All logs of up to MaxEvents events in three turns, all of one more event  *)
(* in a single turn (two groups of one kind in it take five), and one long   *)
(* log for the window.                                                       *)
EXTENDS TimelineView

CONSTANTS MaxEvents, LongLog

Kind == {"tool_call", "tool_result", "message"}

\* Events in the order of their turns; the index tells them apart.
LogOf(s) == [i \in DOMAIN s |-> [turn |-> s[i][1], kind |-> s[i][2], index |-> i]]

ShortLogs ==
  {LogOf(s) : s \in {t \in UNION {[1..n -> (1..3) \X Kind] : n \in 0..MaxEvents} :
                       \A i \in 1..Len(t) - 1 : t[i][1] <= t[i + 1][1]}}

AllLogs ==
  ShortLogs \cup {LogOf(s) : s \in [1..MaxEvents + 1 -> {1} \X Kind]}
            \cup {LogOf([i \in 1..LongLog |-> <<i, "message">>])}

\* A turn with one more call, and one whose calls are no longer side by side.
LaterLogs ==
  {LogOf([i \in 1..3 |-> <<1, "tool_call">>]),
   LogOf([i \in 1..4 |-> <<1, IF i = 3 THEN "message" ELSE "tool_call">>])}
=============================================================================
