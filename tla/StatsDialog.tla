----------------------------- MODULE StatsDialog ----------------------------
(* The statistics dialog of the board (TimelineLanes.tsx) over the server's   *)
(* timelines (SessionTimeline).  The page shows the last answer; that late    *)
(* answers do not get here is shown by Inspector.  The dialog's own state     *)
(* outlives the timeline it was opened on.  A click while the server builds a *)
(* timeline is one before: it has no effect on that.                          *)
(* Bound: MaxClicks, of the reader in the dialog and on the lane headings.    *)
EXTENDS SessionTimeline

CONSTANTS NoLane, MaxClicks

VARIABLES
  open,           \* statsModalOpen
  picked,         \* selectedStatsLaneId
  clicks

pageVars == <<serverVars, open, picked, clicks>>
dialogVars == <<open, picked, clicks>>

DialogInit ==
  /\ ServerInit
  /\ open = FALSE /\ picked = NoLane /\ clicks = 0

shownTimeline == answer.timeline
lanes == IF shownTimeline = NoTimeline THEN <<>> ELSE shownTimeline.lanes
agents == IF shownTimeline = NoTimeline THEN <<>> ELSE shownTimeline.agents
AgentsOf(lane) == {a \in Range(agents) : a.lane = lane}

\* selectedAgentStats
selectedAgent ==
  IF agents = <<>> THEN NoLane
  ELSE IF AgentsOf(picked) # {} THEN picked ELSE Head(agents).lane

Click == Idle /\ clicks < MaxClicks /\ clicks' = clicks + 1 /\ UNCHANGED serverVars

\* The button below the filters.
openStatsModal ==
  /\ Click
  /\ shownTimeline # NoTimeline
  /\ picked' = IF picked = NoLane /\ agents # <<>> THEN Head(agents).lane ELSE picked
  /\ open' = TRUE

\* The heading of a lane: there are those of the lanes with events.
openStatsModalForLane(lane) ==
  /\ Click
  /\ picked' = lane /\ open' = TRUE

PickAgent(a) ==
  /\ Click
  /\ open
  /\ picked' = a.lane
  /\ UNCHANGED open

CloseDialog ==
  /\ Click
  /\ open /\ shownTimeline # NoTimeline
  /\ open' = FALSE
  /\ UNCHANGED picked

\* A load that fails takes the timeline away, and with it the dialog until the
\* next one is loaded.
LoadFails ==
  /\ Idle /\ answer.n < MaxAnswers
  /\ answer' = [n |-> answer.n + 1, filters |-> NoFilters, timeline |-> NoTimeline]
  /\ UNCHANGED <<logVars, bundle, filtered, build, open, picked, clicks>>

DialogNext ==
  \/ (LogStep \/ TimelineStep) /\ UNCHANGED dialogVars
  \/ openStatsModal
  \/ \E i \in DOMAIN lanes : openStatsModalForLane(lanes[i])
  \/ \E i \in DOMAIN agents : PickAgent(agents[i])
  \/ CloseDialog
  \/ LoadFails

DialogSpec == DialogInit /\ [][DialogNext]_pageVars
-----------------------------------------------------------------------------
\* The statistics are those of what the reader sees: they cover the board, and
\* the dialog shows the agent picked last whenever it has a tool call on the
\* board, under filters and timelines that came after the pick.
StatsShown ==
  /\ StatsCoverBoard
  /\ shownTimeline # NoTimeline /\ (\E e \in Range(shownTimeline.events) :
                               e.lane = picked /\ e.kind = "tool_call")
     => selectedAgent = picked
=============================================================================
