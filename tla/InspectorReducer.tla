-------------------------- MODULE InspectorReducer --------------------------
(* The reducer of the session inspector: what each action does to the state  *)
(* of the page, as functions from state to state.                            *)
(*                                                                           *)
(* Of the filters, "words" stands for the five that are sent with a request  *)
(* (agent, tool, q, qNot, includeNonTool): they are handled alike.           *)
(* expandTools only changes how a timeline is drawn.  A timeline is          *)
(* abstracted to the question it answers, a session list to its sessions,    *)
(* its page, the number of pages, and the question it answers.               *)
EXTENDS Naturals, Sequences

CONSTANTS
  Session,        \* session ids
  Query,          \* texts of the search box; "" is the empty one
  Words,          \* filters sent with a request; "" are the default ones
  NoSession,      \* selectedSessionId is ''
  NoEvent,        \* selectedEventId is ''
  Nothing         \* timeline is null, or the list was never answered

ListQuestion == [query : Query, page : Nat \ {0}]
TimelineQuestion == [session : Session, words : Words]

ASSUME ReducerAssumption ==
  /\ "" \in Query /\ "" \in Words
  /\ NoSession \notin Session
  /\ Nothing \notin ListQuestion

\* sessions, totals and page buttons when nothing is listed
NoList == [asked |-> Nothing, items |-> <<>>, page |-> 1, pages |-> 1]

InitialState ==
  [query |-> "", page |-> 1, list |-> NoList,
   sessionsLoading |-> FALSE, sessionsError |-> FALSE,
   selected |-> NoSession,
   timeline |-> Nothing, timelineLoading |-> FALSE, timelineError |-> FALSE,
   event |-> NoEvent, filters |-> [words |-> "", expand |-> TRUE]]

HasPrev(list) == list.page > 1
HasNext(list) == list.page < list.pages

SetSessionQuery(s, query) == [s EXCEPT !.query = query, !.page = 1]

SetSessionPageUnchecked(s, page) == [s EXCEPT !.page = page]

SetSessionPage(s, page) == [s EXCEPT !.page = IF page < 1 THEN 1 ELSE page]

SessionsLoading(s) ==
  [s EXCEPT !.sessionsLoading = TRUE, !.sessionsError = FALSE]

SessionsLoadedKeepingPage(s, list) ==
  [s EXCEPT !.list = list, !.sessionsLoading = FALSE, !.sessionsError = FALSE]

SessionsLoaded(s, list) ==
  [s EXCEPT !.list = list, !.page = list.page,
            !.sessionsLoading = FALSE, !.sessionsError = FALSE]

SessionsFailed(s) ==
  [s EXCEPT !.list = NoList, !.sessionsLoading = FALSE, !.sessionsError = TRUE]

SelectSessionKeepingEvent(s, session) ==
  [s EXCEPT !.selected = session, !.timelineError = FALSE]

SelectSession(s, session) ==
  [s EXCEPT !.selected = session, !.event = NoEvent, !.timelineError = FALSE]

TimelineLoading(s) ==
  [s EXCEPT !.timelineLoading = TRUE, !.timelineError = FALSE]

TimelineLoaded(s, timeline) ==
  [s EXCEPT !.timeline = timeline, !.event = NoEvent,
            !.timelineLoading = FALSE, !.timelineError = FALSE]

TimelineFailed(s) ==
  [s EXCEPT !.timeline = Nothing, !.event = NoEvent,
            !.timelineLoading = FALSE, !.timelineError = TRUE]

SetFilters(s, filters) == [s EXCEPT !.filters = filters, !.event = NoEvent]

SelectEvent(s, event) == [s EXCEPT !.event = event]
=============================================================================
