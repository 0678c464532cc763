---------------------------- MODULE TimelineView ----------------------------
(* The board of the inspector that draws a timeline: the grouping of tool    *)
(* events into rows (timeline-parser.ts), and the virtual window of rows     *)
(* with its cards (TimelineLanes.tsx, EventCard.tsx).                        *)
(*                                                                           *)
(* A row that stays on the board from one render to the next keeps its card: *)
(* React matches rows by event id, and the card compares nothing of an event *)
(* but that id.  The scroll container moves at once; the component learns of *)
(* it in a later event.  Above the rows it holds the warnings of the load    *)
(* and the lane headings, which the window does not reckon with.             *)
(*                                                                           *)
(* Bounds: Logs, the logs that are drawn, and OtherLogs, those the reader    *)
(* turns to later; Tops and Heights, where the reader scrolls to and how     *)
(* large the container gets; Above; MaxCommands.  Lengths are in pixels of a *)
(* scaled-down page: the code has RowHeight 56, Overscan 10.                 *)
EXTENDS Naturals, Integers, SequencesExt

CONSTANTS
  Logs,           \* the events of a session as the server sends them
  OtherLogs,      \* of other sessions, and of this one as it goes on
  RowHeight, Overscan,
  Above,          \* heights of the warnings and the lane headings together
  Heights, Tops, MaxCommands

Tool == {"tool_call", "tool_result"}
Event == [turn : Nat, kind : Tool \cup {"message"}, index : Nat]

ASSUME LengthsAssumption ==
  /\ RowHeight \in Nat \ {0} /\ Overscan \in Nat \ {0}
  /\ Above \subseteq Nat
  /\ Heights \subseteq Nat \ {0} /\ Tops \subseteq Nat
  /\ Logs \subseteq Seq(Event) /\ OtherLogs \subseteq Logs

\* The server numbers the events of each kind in a turn.
ASSUME NumberedAssumption == \A l \in Logs : \A i, j \in DOMAIN l : l[i] = l[j] => i = j

VARIABLES
  log,            \* the session's events
  filters,        \* includeNonTool, expandTools
  loading,        \* a load of the timeline is running: no board
  timeline,       \* the events last loaded, as filtered by the server
  cards,          \* the cards on the board: id and the events each one shows
  top, height,    \* of the scroll container
  above,          \* height of what it holds above the rows
  scrollTop, viewportHeight,    \* what the component knows of them
  commands

vars == <<log, filters, loading, timeline, cards, top, height, above, scrollTop,
          viewportHeight, commands>>

-----------------------------------------------------------------------------
\* An id is made of a turn, a kind and an index, for an event and for a group.
Single(e) == [id |-> e, events |-> <<e>>]
Group(g, groupIndex) ==
  [id |-> [turn |-> Head(g).turn, group |-> Head(g).kind, index |-> groupIndex], events |-> g]

\* Events of one turn have one agent, so that a lane need not be compared.  A
\* bug: a group goes on into the next turn.
CanJoinAcross(current, e) ==
  e.kind \in Tool /\ (current = <<>> \/ e.kind = Head(current).kind)
CanJoin(current, e) ==
  /\ e.kind \in Tool
  /\ current = <<>> \/ (e.kind = Head(current).kind /\ e.turn = Head(current).turn)

\* Append the current group to the rows; only a real group takes a number.  A
\* bug: groups are not numbered.
FlushedAs(acc, next) ==
  IF acc.current = <<>> THEN acc
  ELSE IF Len(acc.current) = 1
       THEN [acc EXCEPT !.rows = Append(@, Single(Head(acc.current))), !.current = <<>>]
       ELSE [rows |-> Append(acc.rows, Group(acc.current, acc.index)),
             current |-> <<>>, index |-> next]
FlushedUnnumbered(acc) == FlushedAs(acc, acc.index)
Flushed(acc) == FlushedAs(acc, acc.index + 1)

Joined(acc, e) ==
  IF CanJoin(acc.current, e) THEN [acc EXCEPT !.current = Append(@, e)]
  ELSE LET flushed == Flushed(acc)
       IN  IF e.kind \in Tool THEN [flushed EXCEPT !.current = <<e>>]
           ELSE [flushed EXCEPT !.rows = Append(@, Single(e))]

groupToolEvents(events) ==
  LET acc[i \in 0..Len(events)] ==
        IF i = 0 THEN [rows |-> <<>>, current |-> <<>>, index |-> 0]
        ELSE Joined(acc[i - 1], events[i])
  IN  Flushed(acc[Len(events)]).rows

\* parseTimelineResponse and buildTimelineGrid
RowsOf(events, expand) ==
  IF expand THEN [i \in DOMAIN events |-> Single(events[i])] ELSE groupToolEvents(events)

\* buildTimelineFilterOptions: the calls whose tools the reader may filter for.
\* A bug: those in groups are forgotten.
OptionsOfSingles(rows) == {Head(r.events) : r \in {q \in Range(rows) :
                             Len(q.events) = 1 /\ Head(q.events).kind = "tool_call"}}
ToolOptions(rows) ==
  UNION {Range(r.events) : r \in {q \in Range(rows) : Head(q.events).kind = "tool_call"}}

\* The server leaves out what is not a tool call when it is told to.
ToolCallsOf(events) ==
  LET kept[i \in 0..Len(events)] ==
        IF i = 0 THEN <<>>
        ELSE IF events[i].kind = "tool_call" THEN Append(kept[i - 1], events[i]) ELSE kept[i - 1]
  IN  kept[Len(events)]

Served(nonTool) == IF nonTool THEN log ELSE ToolCallsOf(log)
-----------------------------------------------------------------------------
Ceil(a, b) == (a + b - 1) \div b
Larger(a, b) == IF a > b THEN a ELSE b
Smaller(a, b) == IF a < b THEN a ELSE b

\* Indexes from 0 of the rows that are rendered: start..end-1.  A bug: as many
\* rows after the window as before it, counted from the start of the window.
VisibleRangeShort(rows, y, h) ==
  LET start == Larger(0, y \div RowHeight - Overscan)
      count == Larger(1, Ceil(h, RowHeight))
  IN  start .. Smaller(Len(rows), start + count + Overscan) - 1

VisibleRange(rows, y, h) ==
  LET start == Larger(0, y \div RowHeight - Overscan)
      count == Larger(1, Ceil(h, RowHeight))
  IN  start .. Smaller(Len(rows), start + count + 2 * Overscan) - 1

\* The cards after a render: a card that was there stays as it is.
Drawn(old, rows, y, h) ==
  {LET row == rows[i + 1]
       kept == {c \in old : c.id = row.id}
   IN  IF kept = {} THEN row ELSE CHOOSE c \in kept : TRUE : i \in VisibleRange(rows, y, h)}

Rows == RowsOf(timeline, filters.expand)
MaxTop(rows, h, a) == Larger(0, a + Len(rows) * RowHeight - h)

\* The cards that are left when a load starts; a bug: the board stays.
CardsKept(old) == old
CardsWhileLoading(old) == {}
-----------------------------------------------------------------------------
Init ==
  /\ log \in Logs
  /\ filters = [nonTool |-> TRUE, expand |-> TRUE]
  /\ loading = TRUE
  /\ timeline = <<>>
  /\ cards = {}
  /\ top = 0 /\ scrollTop = 0 /\ above = 0
  /\ height \in Heights
  /\ viewportHeight \in Heights
  /\ commands = 0

Command == commands < MaxCommands /\ commands' = commands + 1

\* A filter or the session is changed, or the timeline refreshed, with more events
\* in it: a load starts, "loading" takes the place of the board, and the container,
\* now short, is back at the top.
Reload(f, l) ==
  /\ Command
  /\ filters' = f
  /\ log' = l
  /\ loading' = TRUE
  /\ cards' = CardsWhileLoading(cards)
  /\ top' = 0
  /\ UNCHANGED <<timeline, height, above, scrollTop, viewportHeight>>

\* The load has warnings of its own.
Loaded ==
  /\ loading
  /\ loading' = FALSE
  /\ timeline' = Served(filters.nonTool)
  /\ cards' = Drawn(cards, RowsOf(timeline', filters.expand), scrollTop, viewportHeight)
  /\ above' \in Above
  /\ UNCHANGED <<log, filters, top, height, scrollTop, viewportHeight, commands>>

Scroll(y) ==
  /\ Command
  /\ ~loading
  /\ top' = Smaller(y, MaxTop(Rows, height, above))
  /\ UNCHANGED <<log, filters, loading, timeline, cards, height, above, scrollTop, viewportHeight>>

\* The text above the rows is wrapped anew, and the browser keeps the container
\* within its contents.
Resize(h) ==
  /\ Command
  /\ height' = h
  /\ \/ loading /\ top' = 0 /\ above' = above
     \/ ~loading /\ above' \in Above /\ top' = Smaller(top, MaxTop(Rows, h, above'))
  /\ UNCHANGED <<log, filters, loading, timeline, cards, scrollTop, viewportHeight>>

Measured(y, h) == scrollTop' = y /\ viewportHeight' = h

Redraw(y, h) ==
  /\ Measured(y, h)
  /\ cards' = IF loading THEN cards ELSE Drawn(cards, Rows, y, h)
  /\ UNCHANGED <<log, filters, loading, timeline, top, height, above, commands>>

OnScroll == scrollTop # top /\ Redraw(top, viewportHeight)

\* The resize observer, and the effect that runs when the number of rows changes.
UpdateViewport ==
  (viewportHeight # height \/ scrollTop # top) /\ Redraw(top, height)

Next ==
  \/ \E n, x \in BOOLEAN, l \in {log} \cup OtherLogs : Reload([nonTool |-> n, expand |-> x], l)
  \/ Loaded
  \/ \E y \in Tops : Scroll(y)
  \/ \E h \in Heights : Resize(h)
  \/ OnScroll
  \/ UpdateViewport

Spec == Init /\ [][Next]_vars
-----------------------------------------------------------------------------
\* The rows of groupToolEvents are the maximal runs of tool events of one kind
\* and turn, and the other events: together all events, in order.
SameRun(d, e) == d.kind \in Tool /\ d.kind = e.kind /\ d.turn = e.turn

GroupsAreRuns ==
  LET rows == groupToolEvents(timeline)
  IN  /\ FlattenSeq([i \in DOMAIN rows |-> rows[i].events]) = timeline
      /\ \A i \in DOMAIN rows : \A j \in 1..Len(rows[i].events) - 1 :
           SameRun(rows[i].events[j], rows[i].events[j + 1])
      /\ \A i \in 1..Len(rows) - 1 :
           ~SameRun(Head(rows[i].events), Head(rows[i + 1].events))

\* No two rows have one id, which is their React key, the selection's name and
\* the card's only memory: groups are numbered through, singles keep theirs.
RowIdsUnique ==
  \A expand \in BOOLEAN : LET rows == RowsOf(timeline, expand)
                          IN  \A i, j \in DOMAIN rows : rows[i].id = rows[j].id => i = j

\* The filter offers the tools of all calls, grouped or not.
OptionsComplete ==
  \A expand \in BOOLEAN : ToolOptions(RowsOf(timeline, expand))
                          = {e \in Range(timeline) : e.kind = "tool_call"}

\* All three: the rows are the timeline, each under a name of its own.
RowsOfTimeline == GroupsAreRuns /\ RowIdsUnique /\ OptionsComplete

\* The cards on the board show the events of their rows, although a card is not
\* redrawn while its id stays, and a group's id is the same with other members
\* when the filters change, or the log.
CardsFresh ==
  LET rows == Rows
  IN  loading \/ cards = {rows[i + 1] : i \in VisibleRange(rows, scrollTop, viewportHeight)}

\* Every row in sight of the reader has a card as long as the overscan makes up for
\* what the window does not know: that the rows begin below other contents, and
\* that the container has moved on since the component last heard of it.  Up, the
\* two together may be all of the overscan rows; down, all but one.
InSight(i) == above + i * RowHeight < top + height /\ above + (i + 1) * RowHeight > top

WindowCovers ==
  LET off == top - above - scrollTop
      rows == Rows
  IN  /\ ~loading /\ viewportHeight = height
      /\ off \in -(Overscan * RowHeight)..(Overscan - 1) * RowHeight
      => \A i \in 0..Len(rows) - 1 : InSight(i) => \E c \in cards : c.id = rows[i + 1].id
=============================================================================
