----------------------------- MODULE Inspector ------------------------------
(* The page of the session inspector: the hook that owns its state           *)
(* (use-session-inspector-controller.ts) with the reducer, the effects that  *)
(* load data, and the commands the session list and the timeline offer.      *)
(*                                                                           *)
(* Threads: a page has one, so a handler is one action.  What interleaves is *)
(* when things run.  A command of the reader is rendered and its effects are *)
(* run before the browser handles the next event: one action.  The answer of *)
(* the server is rendered, and the effects run in a LATER task, RunEffects:  *)
(* "due" holds the effects to run, and other answers and the timer may come  *)
(* before them.  Answers arrive in any order and each may be a failure.      *)
(*                                                                           *)
(* Bounds: MaxCommands bounds the commands of the reader together with the   *)
(* times that the debounce timer overtakes the effect that would replace it. *)
EXTENDS InspectorReducer, FiniteSets

CONSTANTS
  Listing,        \* what the server finds for a query: a sequence of pages
  MaxCommands

ASSUME ListingAssumption ==
  Listing \in [Query -> Seq(Seq(Session)) \ {<<>>}]

VARIABLES
  ui,               \* the reducer's state
  due,              \* effects whose dependencies changed and that did not run yet
  timer,            \* the debounce timer: the search it will start, or Nothing
  searches,         \* searches in flight
  searched,         \* history: the question of the last search
  loads,            \* timeline loads in flight
  loaded,           \* history: the question of the last timeline load
  commands          \* commands of the reader and overtaking timers: a bound only

vars == <<ui, due, timer, searches, searched, loads, loaded, commands>>
searchVars == <<searches, searched>>
loadVars == <<loads, loaded>>

\* The three effects: search after the debounce, select the first session,
\* load the timeline.
Effect == {"search", "select", "load"}

\* The server answers with the page asked for or the last one there is.
Found(q) ==
  LET pages == Listing[q.query]
      page == IF q.page > Len(pages) THEN Len(pages) ELSE q.page
  IN  [asked |-> q, items |-> pages[page], page |-> page, pages |-> Len(pages)]

\* The events of a timeline as drawn: tool events one by one or in groups, and
\* the other events unless the filters leave them out.
Rows(timeline, filters) ==
  IF timeline = Nothing THEN {}
  ELSE {[session |-> timeline.session, form |-> f] :
          f \in (IF filters.expand THEN {"tool"} ELSE {"group"})
                \cup (IF timeline.words = "" THEN {"text"} ELSE {})}

\* The board is not drawn while a load runs or after it failed.
Board ==
  IF ui.timelineLoading \/ ui.timelineError THEN {}
  ELSE Rows(ui.timeline, ui.filters)

Event == [session : Session, form : {"tool", "group", "text"}]

List ==
  [asked : ListQuestion \cup {Nothing}, items : Seq(Session),
   page : Nat \ {0}, pages : Nat \ {0}]

Page ==
  [query : Query, page : Nat \ {0}, list : List,
   sessionsLoading : BOOLEAN, sessionsError : BOOLEAN,
   selected : Session \cup {NoSession},
   timeline : TimelineQuestion \cup {Nothing},
   timelineLoading : BOOLEAN, timelineError : BOOLEAN,
   event : Event \cup {NoEvent},
   filters : [words : Words, expand : BOOLEAN]]

Search(s) == [query |-> s.query, page |-> s.page]
TimelineOf(s) == [session |-> s.selected, words |-> s.filters.words]

\* Bugs: the load does not depend on the filters; the search on its own progress.
ChangedWithoutFilters(s, t) ==
  (IF Search(s) # Search(t) THEN {"search"} ELSE {})
  \cup (IF s.selected # t.selected THEN {"select", "load"} ELSE {})
ChangedByLoading(s, t) ==
  (IF Search(s) # Search(t) \/ s.sessionsLoading # t.sessionsLoading THEN {"search"} ELSE {})
  \cup (IF s.selected # t.selected \/ s.filters # t.filters THEN {"load"} ELSE {})

\* Effects whose dependencies differ between two states of the page.
Changed(s, t) ==
  (IF Search(s) # Search(t) THEN {"search"} ELSE {})
  \cup (IF s.selected # t.selected \/ s.list # t.list THEN {"select"} ELSE {})
  \cup (IF s.selected # t.selected \/ s.filters # t.filters THEN {"load"} ELSE {})

Init ==
  /\ ui = InitialState
  /\ due = {}
  /\ timer = Search(InitialState)
  /\ searches = {}
  /\ searched = Nothing
  /\ loads = {}
  /\ loaded = Nothing
  /\ commands = 0

-----------------------------------------------------------------------------
\* Requests in flight after one more is sent.  An id is only ever compared with
\* the latest one, so that a request records whether it is the latest.
Sent(requests, q) ==
  {[r EXCEPT !.latest = FALSE] : r \in requests} \cup {[latest |-> TRUE, ask |-> q]}

\* The answers that are handled; a bug: all of them.
AcceptsAny(r) == TRUE
Accepts(r) == r.latest

\* loadTimeline, called in a page state s.
LoadTimeline(s) ==
  /\ loads' = Sent(loads, TimelineOf(s))
  /\ loaded' = TimelineOf(s)
  /\ ui' = TimelineLoading(s)

\* loadSessions, likewise.
LoadSessions(q) ==
  /\ searches' = Sent(searches, q)
  /\ searched' = q
  /\ ui' = SessionsLoading(ui)

MustSelect(s) == s.selected = NoSession /\ s.list.items # <<>>

\* The page is in state s and the effects d run.  Selecting a session renders
\* the page once more, which makes the load due.
Effects(s, d) ==
  /\ timer' = IF "search" \in d THEN Search(s) ELSE timer
  /\ \/ /\ "select" \in d /\ MustSelect(s)
        /\ ui' = SelectSession(s, Head(s.list.items))
        /\ due' = {"load"}
        /\ UNCHANGED loadVars
     \/ /\ ~("select" \in d /\ MustSelect(s))
        /\ due' = {}
        /\ IF "load" \in d /\ s.selected # NoSession
           THEN LoadTimeline(s)
           ELSE ui' = s /\ UNCHANGED loadVars

RunEffects ==
  /\ due # {}
  /\ Effects(ui, due)
  /\ UNCHANGED <<searchVars, commands>>

\* A promise was resolved: the page gets state s, its effects run later.
Dispatch(s) ==
  /\ ui' = s
  /\ due' = due \cup Changed(ui, s)

\* The timer may expire in the short time between a render and the effect that
\* would replace it.
TimerFires ==
  /\ timer # Nothing
  /\ IF "search" \in due
     THEN commands < MaxCommands /\ commands' = commands + 1
     ELSE UNCHANGED commands
  /\ timer' = Nothing
  /\ LoadSessions(timer)
  /\ UNCHANGED <<due, loadVars>>

\* The list is compared by identity, so every answer makes "select" due.
SessionsAnswered(r) ==
  /\ searches' = searches \ {r}
  /\ IF ~Accepts(r)
     THEN UNCHANGED <<ui, due>>
     ELSE \E s \in {SessionsLoaded(ui, Found(r.ask)), SessionsFailed(ui)} :
            /\ ui' = s
            /\ due' = due \cup Changed(ui, s) \cup {"select"}
  /\ UNCHANGED <<timer, searched, loadVars, commands>>

TimelineAnswered(r) ==
  /\ loads' = loads \ {r}
  /\ IF ~Accepts(r)
     THEN UNCHANGED <<ui, due>>
     ELSE \E s \in {TimelineLoaded(ui, r.ask), TimelineFailed(ui)} : Dispatch(s)
  /\ UNCHANGED <<timer, searchVars, loaded, commands>>
-----------------------------------------------------------------------------
Ready == due = {} /\ commands < MaxCommands

\* A command of the reader that puts the page into state s.
Command(s, d) ==
  /\ Ready
  /\ commands' = commands + 1
  /\ Effects(s, d)
  /\ UNCHANGED searchVars

Render(s) == Command(s, Changed(ui, s))

TypeQuery(query) == query # ui.query /\ Render(SetSessionQuery(ui, query))

PreviousPage == HasPrev(ui.list) /\ Render(SetSessionPage(ui, ui.page - 1))

NextPage == HasNext(ui.list) /\ Render(SetSessionPage(ui, ui.page + 1))

EnterPage(page) == page \in 1..ui.list.pages /\ Render(SetSessionPage(ui, page))

ClickSession(session) ==
  /\ \E i \in DOMAIN ui.list.items : ui.list.items[i] = session
  /\ Render(SelectSession(ui, session))

\* A filter control hands over a new value, and only then.
ChangeFilter(filters) ==
  /\ filters # ui.filters
  /\ filters.words = ui.filters.words \/ filters.expand = ui.filters.expand
  /\ Render(SetFilters(ui, filters))

ClickEvent(event) == event \in Board /\ Render(SelectEvent(ui, event))

RefreshSessions ==
  /\ Ready
  /\ commands' = commands + 1
  /\ LoadSessions(Search(ui))
  /\ UNCHANGED <<due, timer, loadVars>>

RefreshTimeline ==
  /\ Ready
  /\ ui.selected # NoSession
  /\ commands' = commands + 1
  /\ LoadTimeline(ui)
  /\ UNCHANGED <<due, timer, searchVars>>

ReaderStep ==
  \/ \E query \in Query : TypeQuery(query)
  \/ PreviousPage
  \/ NextPage
  \/ \E page \in 1..ui.list.pages : EnterPage(page)
  \/ \E session \in Session : ClickSession(session)
  \/ \E w \in Words, x \in BOOLEAN : ChangeFilter([words |-> w, expand |-> x])
  \/ \E event \in Board : ClickEvent(event)
  \/ RefreshSessions
  \/ RefreshTimeline

PageStep ==
  \/ RunEffects
  \/ TimerFires
  \/ \E r \in searches : SessionsAnswered(r)
  \/ \E r \in loads : TimelineAnswered(r)

Next == ReaderStep \/ PageStep
-----------------------------------------------------------------------------
\* The page's state, its pending effects and its requests keep their types: no
\* command takes the page number below one (SET_SESSION_PAGE clamps it), and the
\* selected event is one that a timeline can have.
TypeOK ==
  /\ ui \in Page
  /\ due \subseteq Effect
  /\ timer \in ListQuestion \cup {Nothing}
  /\ searches \subseteq [latest : BOOLEAN, ask : ListQuestion]
  /\ searched \in ListQuestion \cup {Nothing}
  /\ loads \subseteq [latest : BOOLEAN, ask : TimelineQuestion]
  /\ loaded \in TimelineQuestion \cup {Nothing}
  /\ commands \in Nat

\* The timeline pane and the session list each implement LatestAnswer: no
\* answer to an earlier question replaces or precedes the latest one's,
\* although every request runs to its end and answers come in any order
\* (the request ids of loadTimeline and loadSessions).
Timeline == INSTANCE LatestAnswer WITH
  Question <- TimelineQuestion, asked <- loaded,
  loading <- ui.timelineLoading, shown <- ui.timeline
SessionPages == INSTANCE LatestAnswer WITH
  Question <- ListQuestion, asked <- searched,
  loading <- ui.sessionsLoading, shown <- ui.list.asked

TimelineLatest == Timeline!Spec
SessionsLatest == SessionPages!Spec
PanesLatest == TimelineLatest /\ SessionsLatest

\* Once nothing is loading or about to be, the timeline on the screen is the
\* one of the session and the filters the controls show, or it failed: no
\* command or answer changes the choice without a load that follows it.
TimelineOfChoice ==
  "load" \notin due /\ ui.selected # NoSession /\ ~ui.timelineLoading
  => ui.timeline \in {TimelineOf(ui), Nothing}

\* Likewise for the list: its query and page are those the controls show, even
\* when the server answered with another page than the one asked for.
ListOfChoice ==
  due = {} /\ timer = Nothing /\ ~ui.sessionsLoading /\ ui.list.asked # Nothing
  => ui.list.asked = Search(ui) /\ ui.list.page = ui.page

\* Both: what is on the screen is what the reader chose.
ShownIsChosen == TimelineOfChoice /\ ListOfChoice

\* The selected event, whose details the detail panel fetches from the SELECTED
\* session, is a row of the timeline as it would be drawn, and of that session.
SelectionShown ==
  ui.event # NoEvent
  => ui.event \in Rows(ui.timeline, ui.filters) /\ ui.event.session = ui.selected
=============================================================================
