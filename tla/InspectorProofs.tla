-------------------------- MODULE InspectorProofs ---------------------------
(* The inspector's page under its presets, for every set of sessions, query  *)
(* and preset, every listing of the server and any number of commands:       *)
(*   1.-3. types: the reducer's, the steps of the page, the whole inspector  *)
(*   4. what each action of the reducer leaves alone                         *)
(*   5. the timeline pane, an implementation of LatestAnswer                 *)
(*   6. the session list, likewise                                           *)
(*   7. the selected event                                                   *)
(*   8. the presets                                                          *)
(*   9. both panes                                                           *)
EXTENDS KeywordPresets, TLAPS

-----------------------------------------------------------------------------
(* 1. Types.  What the reducer makes of a page is a page.                    *)

LEMMA InitialPage == InitialState \in Page
  <1>1. NoList \in List BY DEF NoList, List
  <1>2. 1 \in Nat \ {0} OBVIOUS
  <1>3. "" \in Query /\ "" \in Words BY ReducerAssumption
  <1>. QED BY <1>1, <1>2, <1>3, Zenon DEF InitialState, Page

LEMMA ReaderPages ==
  ASSUME NEW s \in Page
  PROVE  /\ \A query \in Query : SetSessionQuery(s, query) \in Page
         /\ \A page \in Nat : SetSessionPage(s, page) \in Page
         /\ \A session \in Session : SelectSession(s, session) \in Page
         /\ \A filters \in [words : Words, expand : BOOLEAN] : SetFilters(s, filters) \in Page
         /\ \A event \in Event : SelectEvent(s, event) \in Page
  <1>. 1 \in Nat \ {0} OBVIOUS
  <1>1. ASSUME NEW query \in Query PROVE SetSessionQuery(s, query) \in Page
    BY Zenon DEF Page, SetSessionQuery
  <1>2. ASSUME NEW page \in Nat PROVE SetSessionPage(s, page) \in Page
    <2>1. (IF page < 1 THEN 1 ELSE page) \in Nat \ {0} OBVIOUS
    <2>. QED BY <2>1, Zenon DEF Page, SetSessionPage
  <1>3. ASSUME NEW session \in Session PROVE SelectSession(s, session) \in Page
    BY Zenon DEF Page, SelectSession
  <1>4. ASSUME NEW filters \in [words : Words, expand : BOOLEAN] PROVE SetFilters(s, filters) \in Page
    BY Zenon DEF Page, SetFilters
  <1>5. ASSUME NEW event \in Event PROVE SelectEvent(s, event) \in Page
    BY Zenon DEF Page, SelectEvent
  <1>. QED BY <1>1, <1>2, <1>3, <1>4, <1>5

LEMMA LoadPages ==
  ASSUME NEW s \in Page
  PROVE  /\ SessionsLoading(s) \in Page
         /\ SessionsFailed(s) \in Page
         /\ \A list \in List : SessionsLoaded(s, list) \in Page
         /\ TimelineLoading(s) \in Page
         /\ TimelineFailed(s) \in Page
         /\ \A t \in TimelineQuestion : TimelineLoaded(s, t) \in Page
  <1>1. SessionsLoading(s) \in Page BY Zenon DEF Page, SessionsLoading
  <1>2. SessionsFailed(s) \in Page
    <2>1. NoList \in List BY DEF NoList, List
    <2>. QED BY <2>1, Zenon DEF Page, SessionsFailed
  <1>3. ASSUME NEW list \in List PROVE SessionsLoaded(s, list) \in Page
    <2>1. list.page \in Nat \ {0} BY DEF List
    <2>. QED BY <2>1, Zenon DEF Page, SessionsLoaded
  <1>4. TimelineLoading(s) \in Page BY Zenon DEF Page, TimelineLoading
  <1>5. TimelineFailed(s) \in Page BY Zenon DEF Page, TimelineFailed
  <1>6. ASSUME NEW t \in TimelineQuestion PROVE TimelineLoaded(s, t) \in Page
    BY Zenon DEF Page, TimelineLoaded
  <1>. QED BY <1>1, <1>2, <1>3, <1>4, <1>5, <1>6

LEMMA FoundTypes ==
  ASSUME NEW q \in ListQuestion
  PROVE  Found(q) \in List /\ Found(q).asked = q
  <1>. DEFINE pages == Listing[q.query]
  <1>1. q.query \in Query /\ q.page \in Nat \ {0} BY DEF ListQuestion
  <1>2. pages \in Seq(Seq(Session)) /\ pages # <<>> BY <1>1, ListingAssumption
  <1>. HIDE DEF pages
  <1>3. Len(pages) \in Nat \ {0} BY <1>2
  <1>. DEFINE page == IF q.page > Len(pages) THEN Len(pages) ELSE q.page
  <1>4. page \in 1..Len(pages) BY <1>1, <1>3
  <1>5. Found(q) = [asked |-> q, items |-> pages[page], page |-> page, pages |-> Len(pages)]
    BY Zenon DEF Found, pages
  <1>. HIDE DEF page
  <1>6. pages[page] \in Seq(Session) BY <1>2, <1>4
  <1>7. page \in Nat \ {0} BY <1>3, <1>4
  <1>8. [asked |-> q, items |-> pages[page], page |-> page, pages |-> Len(pages)] \in List
    BY <1>3, <1>6, <1>7 DEF List
  <1>. QED BY <1>5, <1>8

LEMMA QuestionTypes ==
  ASSUME NEW s \in Page
  PROVE  /\ Search(s) \in ListQuestion
         /\ s.selected # NoSession => TimelineOf(s) \in TimelineQuestion
  BY Zenon DEF Page, Search, TimelineOf, ListQuestion, TimelineQuestion

LEMMA BoardTypes ==
  ASSUME ui \in Page
  PROVE  Board \subseteq Event
  <1>1. ui.timeline # Nothing => ui.timeline.session \in Session
    BY Zenon DEF Page, TimelineQuestion
  <1>2. ASSUME NEW row \in Rows(ui.timeline, ui.filters) PROVE row \in Event
    <2>1. ui.timeline # Nothing BY Zenon DEF Rows
    <2>2. PICK f \in {"tool", "group", "text"} : row = [session |-> ui.timeline.session, form |-> f]
      BY <2>1, Zenon DEF Rows
    <2>. QED BY <1>1, <2>1, <2>2, Zenon DEF Event
  <1>. QED BY <1>2, Zenon DEF Board

-----------------------------------------------------------------------------
(* 2. Steps.  All that a step does to the page: a command of the reader puts *)
(* it into a page s and runs the effects d; a preset's words are applied by  *)
(* an answer; or it is one of the page's own steps.                          *)

\* A command leaves the list and the timeline alone, deselects no session, and
\* keeps an event selected only in the session and under the filters it had.
ByReader(s) ==
  /\ s \in Page
  /\ s.list = ui.list /\ s.sessionsLoading = ui.sessionsLoading
  /\ s.timeline = ui.timeline /\ s.timelineLoading = ui.timelineLoading
  /\ s.selected = NoSession => ui.selected = NoSession
  /\ s.event # NoEvent => /\ s.selected = ui.selected /\ s.filters = ui.filters
                          /\ s.event = ui.event \/ s.event \in Board

Reading == \E s \in Page, d \in SUBSET Effect :
             ByReader(s) /\ Changed(ui, s) \subseteq d /\ Command(s, d)

Applies ==
  /\ \E words \in Words : ui' = ApplyWords(words)
  /\ due' = due \cup {"load"}
  /\ UNCHANGED <<timer, searchVars, loadVars, commands>>

Moves ==
  \/ Reading \/ RefreshSessions \/ RefreshTimeline
  \/ RunEffects \/ TimerFires
  \/ \E r \in searches : SessionsAnswered(r)
  \/ \E r \in loads : TimelineAnswered(r)
  \/ Applies
  \/ UNCHANGED vars

LEMMA QueryByReader ==
  ASSUME ui \in Page, NEW query \in Query
  PROVE  ByReader(SetSessionQuery(ui, query))
  <1>1. SetSessionQuery(ui, query) \in Page BY ReaderPages
  <1>2. SetSessionQuery(ui, query) = [ui EXCEPT !.query = query, !.page = 1] BY DEF SetSessionQuery
  <1>. QED BY <1>1, <1>2, Zenon DEF ByReader, Page

LEMMA PageByReader ==
  ASSUME ui \in Page, NEW page \in Nat
  PROVE  ByReader(SetSessionPage(ui, page))
  <1>1. SetSessionPage(ui, page) \in Page BY ReaderPages
  <1>. QED BY <1>1, Zenon DEF ByReader, Page, SetSessionPage

LEMMA SessionByReader ==
  ASSUME ui \in Page, NEW session \in Session
  PROVE  ByReader(SelectSession(ui, session))
  <1>1. SelectSession(ui, session) \in Page BY ReaderPages
  <1>2. session # NoSession BY ReducerAssumption
  <1>. QED BY <1>1, <1>2, Zenon DEF ByReader, Page, SelectSession

LEMMA FiltersByReader ==
  ASSUME ui \in Page, NEW filters \in [words : Words, expand : BOOLEAN]
  PROVE  ByReader(SetFilters(ui, filters))
  <1>1. SetFilters(ui, filters) \in Page BY ReaderPages
  <1>. QED BY <1>1, Zenon DEF ByReader, Page, SetFilters

LEMMA EventByReader ==
  ASSUME ui \in Page, NEW event \in Board
  PROVE  ByReader(SelectEvent(ui, event))
  <1>1. SelectEvent(ui, event) \in Page BY ReaderPages, BoardTypes
  <1>. QED BY <1>1, Zenon DEF ByReader, Page, SelectEvent

LEMMA ChangedTypes ==
  ASSUME NEW s, NEW t PROVE Changed(s, t) \subseteq Effect
  BY DEF Changed, Effect

LEMMA RenderReads ==
  ASSUME NEW s, ByReader(s), Render(s)
  PROVE  Reading
  <1>1. s \in Page BY DEF ByReader
  <1>2. Changed(ui, s) \in SUBSET Effect BY ChangedTypes
  <1>. QED BY <1>1, <1>2 DEF Reading, Render

LEMMA ReaderMoves ==
  ASSUME TypeOK, ReaderStep
  PROVE  Reading \/ RefreshSessions \/ RefreshTimeline
  <1>. ui \in Page BY DEF TypeOK
  <1>0. ui.page \in Nat \ {0} /\ ui.list.pages \in Nat BY Zenon DEF Page, List
  <1>1. ASSUME NEW query \in Query, TypeQuery(query) PROVE Reading
    BY <1>1, QueryByReader, RenderReads DEF TypeQuery
  <1>2. CASE PreviousPage
    BY <1>0, <1>2, PageByReader, RenderReads DEF PreviousPage
  <1>3. CASE NextPage
    BY <1>0, <1>3, PageByReader, RenderReads DEF NextPage
  <1>4. ASSUME NEW page \in 1..ui.list.pages, EnterPage(page) PROVE Reading
    <2>1. page \in Nat BY <1>0
    <2>. QED BY <1>4, <2>1, PageByReader, RenderReads DEF EnterPage
  <1>5. ASSUME NEW session \in Session, ClickSession(session) PROVE Reading
    BY <1>5, SessionByReader, RenderReads DEF ClickSession
  <1>6. ASSUME NEW w \in Words, NEW x \in BOOLEAN, ChangeFilter([words |-> w, expand |-> x])
        PROVE  Reading
    <2>1. [words |-> w, expand |-> x] \in [words : Words, expand : BOOLEAN] OBVIOUS
    <2>. QED BY <1>6, <2>1, FiltersByReader, RenderReads DEF ChangeFilter
  <1>7. ASSUME NEW event \in Board, ClickEvent(event) PROVE Reading
    BY <1>7, EventByReader, RenderReads DEF ClickEvent
  <1>. QED BY <1>1, <1>2, <1>3, <1>4, <1>5, <1>6, <1>7, Zenon DEF ReaderStep

LEMMA WordsByReader ==
  ASSUME ui \in Page, NEW words \in Words
  PROVE  /\ ByReader(ApplyWords(words))
         /\ Changed(ui, ApplyWords(words)) \subseteq {"load"}
  <1>1. ui.filters \in [words : Words, expand : BOOLEAN] BY Zenon DEF Page
  <1>2. [ui.filters EXCEPT !.words = words] \in [words : Words, expand : BOOLEAN] BY <1>1
  <1>3. ByReader(ApplyWords(words)) BY <1>2, FiltersByReader DEF ApplyWords
  <1>. DEFINE s == ApplyWords(words)
  <1>4. /\ s.query = ui.query /\ s.page = ui.page
        /\ s.selected = ui.selected /\ s.list = ui.list
    BY Zenon DEF ApplyWords, SetFilters, Page
  <1>. QED BY <1>3, <1>4, Zenon DEF Changed, Search

LEMMA StayByReader ==
  ASSUME ui \in Page
  PROVE  /\ ByReader(ui)
         /\ Changed(ui, ui) = {}
  BY Zenon DEF ByReader, Changed

LEMMA StayReads ==
  ASSUME ui \in Page, Command(ui, {})
  PROVE  Reading
  <1>1. {} \in SUBSET Effect /\ Changed(ui, ui) \subseteq {} BY StayByReader
  <1>. QED BY <1>1, StayByReader, Zenon DEF Reading

LEMMA NamedTypes ==
  ASSUME NEW p \in File, NEW id
  PROVE  Named(p, id) \subseteq Preset
  BY DEF Named, File

LEMMA PresetMoves ==
  ASSUME PresetsTypeOK, PresetStep
  PROVE  Reading
  <1>. ui \in Page /\ presets \in File BY DEF PresetsTypeOK, TypeOK
  <1>1. ASSUME NEW id, SelectPreset(id) PROVE Reading
    <2>1. CASE Command(ui, {}) BY <2>1, StayReads
    <2>2. CASE \E preset \in Named(presets, id) : Command(ApplyWords(preset.words), {"load"})
      <3>1. PICK preset \in Named(presets, id) : Command(ApplyWords(preset.words), {"load"})
        BY <2>2
      <3>2. preset.words \in Words BY NamedTypes DEF Preset
      <3>3. /\ ByReader(ApplyWords(preset.words))
            /\ Changed(ui, ApplyWords(preset.words)) \subseteq {"load"}
        BY <3>2, WordsByReader
      <3>4. {"load"} \in SUBSET Effect BY DEF Effect
      <3>5. ApplyWords(preset.words) \in Page BY <3>3 DEF ByReader
      <3>. QED BY <3>1, <3>3, <3>4, <3>5 DEF Reading
    <2>. QED BY <1>1, <2>1, <2>2 DEF SelectPreset
  <1>2. ASSUME NEW kind, NEW payload, NEW pick, Save(kind, payload, pick) PROVE Reading
    BY <1>2, StayReads DEF Save
  <1>. QED BY <1>1, <1>2, Zenon DEF PresetStep, CreatePreset, UpdatePreset, DeletePreset

\* Requests about presets that the page has sent.
Call ==
  [id : Nat, kind : {"load", "create", "update", "delete"}, at : {"sent", "handled"},
   payload : File, pick : PresetId \cup {NoPreset}]

LEMMA CallMoves ==
  ASSUME PresetsTypeOK, CallStep
  PROVE  Applies \/ UNCHANGED vars
  <1>1. PICK c \in calls : ServerHandles(c) \/ CallAnswered(c) \/ CallFails(c) BY DEF CallStep
  <1>2. c \in Call BY DEF PresetsTypeOK, Call
  <1>3. CASE ServerHandles(c) BY <1>3 DEF ServerHandles
  <1>4. CASE CallFails(c) BY <1>4 DEF CallFails
  <1>5. CASE CallAnswered(c)
    <2>1. c.payload \in File BY <1>2 DEF Call
    <2>2. Applied(c) \subseteq Words
      <3>1. Named(c.payload, PickedBy(c)) \subseteq Preset BY <2>1, NamedTypes
      <3>2. \A preset \in Preset : preset.words \in Words BY DEF Preset
      <3>. QED BY <3>1, <3>2, ReducerAssumption, Zenon DEF Applied
    <2>3. CASE Applied(c) = {}
      <3>1. UNCHANGED <<ui, due>> BY <1>5, <2>3, Zenon DEF CallAnswered
      <3>. QED BY <1>5, <3>1 DEF CallAnswered, vars, searchVars, loadVars
    <2>4. CASE Applied(c) # {}
      <3>1. PICK words \in Applied(c) : ui' = ApplyWords(words) /\ due' = due \cup {"load"}
        BY <1>5, <2>4, Zenon DEF CallAnswered
      <3>. QED BY <1>5, <2>2, <3>1, Zenon DEF CallAnswered, Applies
    <2>. QED BY <2>3, <2>4
  <1>. QED BY <1>1, <1>3, <1>4, <1>5

\* Every step of the inspector is one of the moves of its page.
LEMMA StepsMove ==
  ASSUME PresetsTypeOK, [NextPresets]_allVars
  PROVE  Moves
  <1>1. CASE Next
    <2>1. TypeOK BY DEF PresetsTypeOK
    <2>. QED BY <1>1, <2>1, ReaderMoves, Zenon DEF Next, PageStep, Moves
  <1>2. CASE PresetStep BY <1>2, PresetMoves DEF Moves
  <1>3. CASE CallStep BY <1>3, CallMoves DEF Moves
  <1>4. CASE UNCHANGED allVars BY <1>4 DEF allVars, Moves
  <1>. QED BY <1>1, <1>2, <1>3, <1>4 DEF NextPresets

-----------------------------------------------------------------------------
(* 3. Types of the whole inspector.                                          *)

LEMMA SentTypes ==
  ASSUME NEW Ask, NEW requests \in SUBSET [latest : BOOLEAN, ask : Ask], NEW q \in Ask
  PROVE  Sent(requests, q) \in SUBSET [latest : BOOLEAN, ask : Ask]
  <1>1. ASSUME NEW r \in requests
        PROVE  [r EXCEPT !.latest = FALSE] \in [latest : BOOLEAN, ask : Ask]
    <2>1. r \in [latest : BOOLEAN, ask : Ask] OBVIOUS
    <2>. QED BY <2>1
  <1>2. [latest |-> TRUE, ask |-> q] \in [latest : BOOLEAN, ask : Ask] OBVIOUS
  <1>. QED BY <1>1, <1>2, Zenon DEF Sent

LEMMA EffectsTypes ==
  ASSUME TypeOK, NEW s \in Page, NEW d \in SUBSET Effect, Effects(s, d)
  PROVE  /\ ui' \in Page
         /\ due' \subseteq Effect
         /\ timer' \in ListQuestion \cup {Nothing}
         /\ loads' \subseteq [latest : BOOLEAN, ask : TimelineQuestion]
         /\ loaded' \in TimelineQuestion \cup {Nothing}
  <1>1. timer' \in ListQuestion \cup {Nothing}
    BY QuestionTypes, Zenon DEF Effects, TypeOK
  <1>2. CASE /\ "select" \in d /\ MustSelect(s)
             /\ ui' = SelectSession(s, Head(s.list.items))
             /\ due' = {"load"}
             /\ UNCHANGED loadVars
    <2>1. s.list.items \in Seq(Session) BY Zenon DEF Page, List
    <2>2. Head(s.list.items) \in Session BY <1>2, <2>1 DEF MustSelect
    <2>3. ui' \in Page BY <1>2, <2>2, ReaderPages
    <2>4. "load" \in Effect BY DEF Effect
    <2>. QED BY <1>1, <1>2, <2>3, <2>4 DEF loadVars, TypeOK
  <1>3. CASE /\ ~("select" \in d /\ MustSelect(s))
             /\ due' = {}
             /\ IF "load" \in d /\ s.selected # NoSession
                THEN LoadTimeline(s)
                ELSE ui' = s /\ UNCHANGED loadVars
    <2>1. CASE s.selected # NoSession /\ LoadTimeline(s)
      <3>1. TimelineOf(s) \in TimelineQuestion BY <2>1, QuestionTypes
      <3>2. TimelineLoading(s) \in Page BY LoadPages
      <3>3. loads \in SUBSET [latest : BOOLEAN, ask : TimelineQuestion] BY DEF TypeOK
      <3>4. loads' \in SUBSET [latest : BOOLEAN, ask : TimelineQuestion]
        BY <2>1, <3>1, <3>3, SentTypes DEF LoadTimeline
      <3>. QED BY <1>1, <1>3, <2>1, <3>1, <3>2, <3>4 DEF LoadTimeline
    <2>2. CASE ui' = s /\ UNCHANGED loadVars
      BY <1>1, <1>3, <2>2 DEF loadVars, TypeOK
    <2>. QED BY <1>3, <2>1, <2>2
  <1>. QED BY <1>2, <1>3, Zenon DEF Effects

LEMMA LoadSessionsTypes ==
  ASSUME TypeOK, NEW q \in ListQuestion, LoadSessions(q)
  PROVE  /\ ui' \in Page
         /\ searches' \subseteq [latest : BOOLEAN, ask : ListQuestion]
         /\ searched' \in ListQuestion \cup {Nothing}
  <1>1. searches \in SUBSET [latest : BOOLEAN, ask : ListQuestion] BY DEF TypeOK
  <1>2. searches' \in SUBSET [latest : BOOLEAN, ask : ListQuestion]
    BY <1>1, SentTypes DEF LoadSessions
  <1>3. SessionsLoading(ui) \in Page BY LoadPages DEF TypeOK
  <1>. QED BY <1>2, <1>3 DEF LoadSessions

LEMMA MovesTypes ==
  ASSUME TypeOK, Moves
  PROVE  TypeOK'
  <1>0. ui \in Page /\ due \subseteq Effect /\ commands \in Nat BY DEF TypeOK
  <1>1. CASE Reading
    <2>1. PICK s \in Page, d \in SUBSET Effect : Command(s, d) BY <1>1 DEF Reading
    <2>2. commands' \in Nat /\ UNCHANGED searchVars BY <1>0, <2>1 DEF Command
    <2>3. Effects(s, d) BY <2>1 DEF Command
    <2>. QED BY <2>2, <2>3, EffectsTypes DEF TypeOK, searchVars
  <1>2. CASE RefreshSessions
    <2>1. Search(ui) \in ListQuestion BY <1>0, QuestionTypes
    <2>2. LoadSessions(Search(ui)) /\ commands' = commands + 1 /\ UNCHANGED <<due, timer, loadVars>>
      BY <1>2 DEF RefreshSessions
    <2>. QED BY <1>0, <2>1, <2>2, LoadSessionsTypes DEF TypeOK, loadVars
  <1>3. CASE RefreshTimeline
    <2>1. TimelineOf(ui) \in TimelineQuestion BY <1>0, <1>3, QuestionTypes DEF RefreshTimeline
    <2>2. LoadTimeline(ui) /\ commands' = commands + 1 /\ UNCHANGED <<due, timer, searchVars>>
      BY <1>3 DEF RefreshTimeline
    <2>3. loads' \in SUBSET [latest : BOOLEAN, ask : TimelineQuestion]
      BY <2>1, <2>2, SentTypes DEF LoadTimeline, TypeOK
    <2>4. ui' \in Page BY <1>0, <2>2, LoadPages DEF LoadTimeline
    <2>. QED BY <1>0, <2>1, <2>2, <2>3, <2>4 DEF LoadTimeline, TypeOK, searchVars
  <1>4. CASE RunEffects
    <2>1. Effects(ui, due) /\ UNCHANGED <<searchVars, commands>> BY <1>4 DEF RunEffects
    <2>. QED BY <1>0, <2>1, EffectsTypes DEF TypeOK, searchVars
  <1>5. CASE TimerFires
    <2>1. /\ timer # Nothing /\ timer' = Nothing /\ LoadSessions(timer)
          /\ UNCHANGED <<due, loadVars>>
      BY <1>5 DEF TimerFires
    <2>2. commands' \in Nat
      <3>1. commands' = commands + 1 \/ commands' = commands BY <1>5, Zenon DEF TimerFires
      <3>. QED BY <1>0, <3>1
    <2>3. timer \in ListQuestion BY <2>1 DEF TypeOK
    <2>. QED BY <2>1, <2>2, <2>3, LoadSessionsTypes DEF TypeOK, loadVars
  <1>6. ASSUME NEW r \in searches, SessionsAnswered(r) PROVE TypeOK'
    <2>1. searches' = searches \ {r} /\ UNCHANGED <<timer, searched, loadVars, commands>>
      BY <1>6 DEF SessionsAnswered
    <2>2. r.ask \in ListQuestion BY DEF TypeOK
    <2>3. ui' \in Page /\ due' \subseteq Effect
      <3>1. CASE UNCHANGED <<ui, due>> BY <1>0, <3>1
      <3>2. CASE \E s \in {SessionsLoaded(ui, Found(r.ask)), SessionsFailed(ui)} :
                   ui' = s /\ due' = due \cup Changed(ui, s) \cup {"select"}
        <4>1. SessionsLoaded(ui, Found(r.ask)) \in Page BY <1>0, <2>2, FoundTypes, LoadPages
        <4>2. SessionsFailed(ui) \in Page BY <1>0, LoadPages
        <4>3. "select" \in Effect BY DEF Effect
        <4>. QED BY <1>0, <3>2, <4>1, <4>2, <4>3, ChangedTypes
      <3>. QED BY <1>6, <3>1, <3>2, Zenon DEF SessionsAnswered
    <2>. QED BY <2>1, <2>3 DEF TypeOK, loadVars
  <1>7. ASSUME NEW r \in loads, TimelineAnswered(r) PROVE TypeOK'
    <2>1. loads' = loads \ {r} /\ UNCHANGED <<timer, searchVars, loaded, commands>>
      BY <1>7 DEF TimelineAnswered
    <2>2. r.ask \in TimelineQuestion BY DEF TypeOK
    <2>3. ui' \in Page /\ due' \subseteq Effect
      <3>1. CASE UNCHANGED <<ui, due>> BY <1>0, <3>1
      <3>2. CASE \E s \in {TimelineLoaded(ui, r.ask), TimelineFailed(ui)} : Dispatch(s)
        <4>1. TimelineLoaded(ui, r.ask) \in Page BY <1>0, <2>2, LoadPages
        <4>2. TimelineFailed(ui) \in Page BY <1>0, LoadPages
        <4>. QED BY <1>0, <3>2, <4>1, <4>2, ChangedTypes DEF Dispatch
      <3>. QED BY <1>7, <3>1, <3>2, Zenon DEF TimelineAnswered
    <2>. QED BY <2>1, <2>3 DEF TypeOK, searchVars
  <1>8. CASE Applies
    <2>1. PICK words \in Words : ui' = ApplyWords(words) BY <1>8 DEF Applies
    <2>2. ui' \in Page BY <1>0, <2>1, WordsByReader DEF ByReader
    <2>3. due' \subseteq Effect BY <1>0, <1>8 DEF Applies, Effect
    <2>. QED BY <1>8, <2>2, <2>3 DEF Applies, TypeOK, searchVars, loadVars
  <1>9. CASE UNCHANGED vars BY <1>9 DEF vars, TypeOK
  <1>. QED BY <1>1, <1>2, <1>3, <1>4, <1>5, <1>6, <1>7, <1>8, <1>9 DEF Moves

\* The types of the presets.
PresetsTypes ==
  /\ presets \in File /\ stored \in File
  /\ chosen \in PresetId \cup {NoPreset}
  /\ calls \subseteq Call
  /\ steady \in BOOLEAN

LEMMA PresetsTypesEquiv == PresetsTypeOK <=> TypeOK /\ PresetsTypes
  BY DEF PresetsTypeOK, PresetsTypes, Call

LEMMA NoPresetsType == NoPresets \in File
  BY DEF NoPresets, File

LEMMA NormalizedTypes ==
  ASSUME NEW p \in File
  PROVE  Normalized(p) \in File
  BY DEF Normalized, File

LEMMA RemainTypes ==
  ASSUME presets \in File
  PROVE  Remain \in Seq(Preset)
  <1>1. CASE chosen \notin Ids(presets) BY <1>1 DEF Remain, File
  <1>2. CASE chosen \in Ids(presets)
    <2>. DEFINE k == CHOOSE i \in DOMAIN presets.items : presets.items[i].id = chosen
    <2>1. k \in DOMAIN presets.items BY <1>2 DEF Ids
    <2>2. Remain = SubSeq(presets.items, 1, k - 1) \o SubSeq(presets.items, k + 1, Len(presets.items))
      BY <1>2 DEF Remain, RemoveAt
    <2>. HIDE DEF k
    <2>3. SubSeq(presets.items, 1, k - 1) \in Seq(Preset) BY <2>1 DEF File
    <2>4. SubSeq(presets.items, k + 1, Len(presets.items)) \in Seq(Preset) BY <2>1 DEF File
    <2>. QED BY <2>2, <2>3, <2>4
  <1>. QED BY <1>1, <1>2

LEMMA HeadTypes ==
  ASSUME NEW items \in Seq(Preset), items # <<>>
  PROVE  Head(items).id \in PresetId
  <1>1. Head(items) \in Preset OBVIOUS
  <1>. QED BY <1>1 DEF Preset

LEMMA SaveTypes ==
  ASSUME PresetsTypeOK, NEW kind \in {"create", "update", "delete"}, NEW payload \in File,
         NEW pick \in PresetId \cup {NoPreset}, Save(kind, payload, pick)
  PROVE  PresetsTypes'
  <1>1. commands' \in Nat
    BY DEF Save, Command, PresetsTypeOK, TypeOK
  <1>2. [id |-> commands', kind |-> kind, at |-> "sent", payload |-> payload, pick |-> pick] \in Call
    BY <1>1 DEF Call
  <1>3. /\ calls' = calls \cup {[id |-> commands', kind |-> kind, at |-> "sent",
                                 payload |-> payload, pick |-> pick]}
        /\ steady' \in BOOLEAN
        /\ UNCHANGED <<presets, chosen, stored>>
    BY DEF Save
  <1>. QED BY <1>2, <1>3, PresetsTypesEquiv DEF PresetsTypes

LEMMA CreateTypes ==
  ASSUME PresetsTypeOK, NEW id \in PresetId, CreatePreset(id)
  PROVE  PresetsTypes'
  <1>1. presets.items \in Seq(Preset) BY DEF PresetsTypeOK, File
  <1>2. ui.filters.words \in Words BY Zenon DEF PresetsTypeOK, TypeOK, Page
  <1>3. [id |-> id, words |-> ui.filters.words] \in Preset BY <1>2 DEF Preset
  <1>4. Append(presets.items, [id |-> id, words |-> ui.filters.words]) \in Seq(Preset)
    BY <1>1, <1>3
  <1>. DEFINE payload == [default |-> id,
                          items |-> Append(presets.items, [id |-> id, words |-> ui.filters.words])]
  <1>5. payload \in File BY <1>4 DEF File
  <1>6. Save("create", payload, id) BY DEF CreatePreset
  <1>. HIDE DEF payload
  <1>. QED BY <1>5, <1>6, SaveTypes

LEMMA UpdateTypes ==
  ASSUME PresetsTypeOK, UpdatePreset
  PROVE  PresetsTypes'
  <1>1. presets \in File /\ chosen \in PresetId \cup {NoPreset} BY DEF PresetsTypeOK
  <1>2. presets.items \in Seq(Preset) /\ presets.default \in PresetId \cup {NoPreset}
    BY <1>1 DEF File
  <1>3. ui.filters.words \in Words BY Zenon DEF PresetsTypeOK, TypeOK, Page
  <1>. DEFINE items == [i \in DOMAIN presets.items |->
                          IF presets.items[i].id = chosen
                          THEN [presets.items[i] EXCEPT !.words = ui.filters.words]
                          ELSE presets.items[i]]
              payload == [default |-> IF presets.default = NoPreset THEN chosen ELSE presets.default,
                          items |-> items]
  <1>4. ASSUME NEW i \in DOMAIN presets.items PROVE items[i] \in Preset
    <2>1. presets.items[i] \in Preset BY <1>2
    <2>2. [presets.items[i] EXCEPT !.words = ui.filters.words] \in Preset BY <1>3, <2>1 DEF Preset
    <2>. QED BY <2>1, <2>2
  <1>5. DOMAIN items = 1..Len(presets.items) BY <1>2
  <1>. HIDE DEF items
  <1>6. items = [i \in 1..Len(presets.items) |-> items[i]] BY <1>2, <1>5 DEF items
  <1>7. items \in Seq(Preset) BY <1>2, <1>4, <1>5, <1>6
  <1>8. payload \in File BY <1>1, <1>2, <1>7 DEF File
  <1>9. Save("update", payload, chosen) BY DEF UpdatePreset, items
  <1>. HIDE DEF payload
  <1>. QED BY <1>1, <1>8, <1>9, SaveTypes

LEMMA DeleteTypes ==
  ASSUME PresetsTypeOK, DeletePreset
  PROVE  PresetsTypes'
  <1>1. Remain \in Seq(Preset) BY RemainTypes DEF PresetsTypeOK
  <1>. DEFINE next == IF Remain = <<>> THEN NoPreset ELSE Head(Remain).id
  <1>2. next \in PresetId \cup {NoPreset} BY <1>1, HeadTypes
  <1>3. Save("delete", [default |-> next, items |-> Remain], next) BY DEF DeletePreset
  <1>. HIDE DEF next
  <1>4. [default |-> next, items |-> Remain] \in File BY <1>1, <1>2 DEF File
  <1>. QED BY <1>2, <1>3, <1>4, SaveTypes

LEMMA PickedByTypes ==
  ASSUME NEW c \in Call
  PROVE  PickedBy(c) \in PresetId \cup {NoPreset}
  <1>1. c.payload \in File /\ c.pick \in PresetId \cup {NoPreset} BY DEF Call
  <1>2. c.payload.items \in Seq(Preset) /\ c.payload.default \in PresetId \cup {NoPreset}
    BY <1>1 DEF File
  <1>3. c.payload.items # <<>> => Head(c.payload.items).id \in PresetId BY <1>2, HeadTypes
  <1>. QED BY <1>1, <1>2, <1>3 DEF PickedBy

LEMMA CallTypes ==
  ASSUME PresetsTypeOK, CallStep
  PROVE  PresetsTypes'
  <1>. USE DEF PresetsTypes
  <1>1. PICK c \in calls : ServerHandles(c) \/ CallAnswered(c) \/ CallFails(c) BY DEF CallStep
  <1>2. PresetsTypes /\ c \in Call BY PresetsTypesEquiv
  <1>3. c.payload \in File BY <1>2 DEF Call
  <1>4. CASE ServerHandles(c)
    <2>1. stored' \in File BY <1>2, <1>3, <1>4, NormalizedTypes DEF ServerHandles
    <2>2. Normalized(stored') \in File BY <2>1, NormalizedTypes
    <2>3. [c EXCEPT !.at = "handled", !.payload = Normalized(stored')] \in Call
      BY <1>2, <2>2 DEF Call
    <2>. QED BY <1>2, <1>4, <2>1, <2>3 DEF ServerHandles
  <1>5. CASE CallAnswered(c)
    <2>1. chosen' \in PresetId \cup {NoPreset}
      BY <1>2, <1>5, PickedByTypes DEF CallAnswered
    <2>2. calls' = calls \ {c} /\ presets' = c.payload /\ UNCHANGED <<stored, steady>>
      BY <1>5 DEF CallAnswered
    <2>. QED BY <1>2, <1>3, <2>1, <2>2
  <1>6. CASE CallFails(c)
    BY <1>2, <1>6, NoPresetsType DEF CallFails
  <1>. QED BY <1>1, <1>4, <1>5, <1>6

LEMMA InitTypes == InitPresets => PresetsTypeOK
  <1>. SUFFICES ASSUME NEW file \in Files, StartsWith(file) PROVE PresetsTypeOK
    BY DEF InitPresets
  <1>1. TypeOK
    <2>1. InitialState \in Page BY InitialPage
    <2>2. Search(InitialState) \in ListQuestion BY <2>1, QuestionTypes
    <2>. QED BY <2>1, <2>2 DEF StartsWith, Init, TypeOK
  <1>2. PresetsTypes
    BY NoPresetsType, FilesAssumption DEF StartsWith, PresetsTypes, Call
  <1>. QED BY <1>1, <1>2, PresetsTypesEquiv

LEMMA NextTypes == PresetsTypeOK /\ [NextPresets]_allVars => PresetsTypeOK'
  <1>. SUFFICES ASSUME PresetsTypeOK, [NextPresets]_allVars PROVE PresetsTypeOK'
    OBVIOUS
  <1>0. TypeOK /\ PresetsTypes BY PresetsTypesEquiv
  <1>1. TypeOK' BY <1>0, StepsMove, MovesTypes
  <1>2. PresetsTypes'
    <2>1. CASE UNCHANGED presetVars BY <1>0, <2>1 DEF presetVars, PresetsTypes
    <2>2. ASSUME NEW id \in PresetId \cup {NoPreset}, SelectPreset(id) PROVE PresetsTypes'
      BY <1>0, <2>2 DEF SelectPreset, PresetsTypes
    <2>3. CASE PresetStep
      BY <2>2, <2>3, CreateTypes, UpdateTypes, DeleteTypes DEF PresetStep
    <2>4. CASE CallStep BY <2>4, CallTypes
    <2>. QED BY <2>1, <2>3, <2>4 DEF NextPresets, allVars
  <1>. QED BY <1>1, <1>2, PresetsTypesEquiv DEF PresetsTypeOK, PresetsTypes, Call

\* Every state of the page and its presets has its type, whatever the order of
\* answers and commands: no page number falls below one, the chosen preset and
\* the default are ids or none (the reducer and the preset handlers).
THEOREM PresetsTypeCorrect == Spec => []PresetsTypeOK
  <1>. QED BY InitTypes, NextTypes, PTL DEF Spec

-----------------------------------------------------------------------------
(* 4. What the reducer leaves alone.                                         *)

SameSearch(s, t) == s.query = t.query /\ s.page = t.page
SameList(s, t) == s.list = t.list /\ s.sessionsLoading = t.sessionsLoading
SameTimeline(s, t) == s.timeline = t.timeline /\ s.timelineLoading = t.timelineLoading
SameChoice(s, t) == s.selected = t.selected /\ s.filters = t.filters

LEMMA SearchingFields ==
  ASSUME NEW s \in Page
  PROVE  LET t == SessionsLoading(s) IN
         /\ SameSearch(t, s) /\ SameTimeline(t, s) /\ SameChoice(t, s) /\ t.event = s.event
         /\ t.list = s.list /\ t.sessionsLoading
  BY Zenon DEF Page, SessionsLoading, SameSearch, SameTimeline, SameChoice

LEMMA FoundFields ==
  ASSUME NEW s \in Page, NEW list
  PROVE  LET t == SessionsLoaded(s, list) IN
         /\ t.query = s.query /\ t.page = list.page
         /\ SameTimeline(t, s) /\ SameChoice(t, s) /\ t.event = s.event
         /\ t.list = list /\ ~t.sessionsLoading
  BY Zenon DEF Page, SessionsLoaded, SameTimeline, SameChoice

LEMMA NotFoundFields ==
  ASSUME NEW s \in Page
  PROVE  LET t == SessionsFailed(s) IN
         /\ SameSearch(t, s) /\ SameTimeline(t, s) /\ SameChoice(t, s) /\ t.event = s.event
         /\ t.list = NoList /\ ~t.sessionsLoading
  BY Zenon DEF Page, SessionsFailed, SameSearch, SameTimeline, SameChoice

LEMMA SelectFields ==
  ASSUME NEW s \in Page, NEW session
  PROVE  LET t == SelectSession(s, session) IN
         /\ SameSearch(t, s) /\ SameList(t, s) /\ SameTimeline(t, s)
         /\ t.selected = session /\ t.filters = s.filters /\ t.event = NoEvent
  BY Zenon DEF Page, SelectSession, SameSearch, SameList, SameTimeline

LEMMA LoadingFields ==
  ASSUME NEW s \in Page
  PROVE  LET t == TimelineLoading(s) IN
         /\ SameSearch(t, s) /\ SameList(t, s) /\ SameChoice(t, s) /\ t.event = s.event
         /\ t.timeline = s.timeline /\ t.timelineLoading
  BY Zenon DEF Page, TimelineLoading, SameSearch, SameList, SameChoice

LEMMA LoadedFields ==
  ASSUME NEW s \in Page, NEW timeline, NEW t \in {TimelineLoaded(s, timeline), TimelineFailed(s)}
  PROVE  /\ SameSearch(t, s) /\ SameList(t, s) /\ SameChoice(t, s)
         /\ t.timeline \in {timeline, Nothing} /\ ~t.timelineLoading /\ t.event = NoEvent
  BY Zenon DEF Page, TimelineLoaded, TimelineFailed, SameSearch, SameList, SameChoice

LEMMA FilterFields ==
  ASSUME NEW s \in Page, NEW filters
  PROVE  LET t == SetFilters(s, filters) IN
         /\ SameSearch(t, s) /\ SameList(t, s) /\ SameTimeline(t, s)
         /\ t.selected = s.selected /\ t.event = NoEvent
  BY Zenon DEF Page, SetFilters, SameSearch, SameList, SameTimeline

LEMMA SameTimelineOf ==
  ASSUME NEW s, NEW t, SameChoice(s, t)
  PROVE  TimelineOf(s) = TimelineOf(t)
  BY DEF SameChoice, TimelineOf

LEMMA SameSearchOf ==
  ASSUME NEW s, NEW t
  PROVE  SameSearch(s, t) <=> Search(s) = Search(t)
  BY DEF SameSearch, Search

-----------------------------------------------------------------------------
(* 5. The timeline pane.  LoadInv: at most the last load is still awaited,   *)
(* and it asked for the timeline of what is chosen now unless the effect     *)
(* that will ask again is due.                                               *)

LatestAwaited == \A r \in loads : r.latest => r.ask = loaded /\ ui.timelineLoading
LatestShown == ~ui.timelineLoading => ui.timeline \in {loaded, Nothing}
ChoiceLoaded == "load" \notin due /\ ui.selected # NoSession => loaded = TimelineOf(ui)
NoneChosen == ui.selected = NoSession
              => loaded = Nothing /\ ui.timeline = Nothing /\ ~ui.timelineLoading

LoadInv == LatestAwaited /\ LatestShown /\ ChoiceLoaded /\ NoneChosen

\* The three things a step can do to the timeline pane.
LoadStays ==
  /\ loads' \subseteq loads /\ loaded' = loaded /\ SameTimeline(ui', ui)
  /\ ui'.selected = NoSession => ui.selected = NoSession
  /\ "load" \notin due' /\ ui'.selected # NoSession => "load" \notin due /\ SameChoice(ui', ui)

LoadAsked ==
  /\ ui'.selected # NoSession
  /\ loaded' = TimelineOf(ui') /\ loads' = Sent(loads, loaded')
  /\ ui'.timelineLoading /\ ui'.timeline = ui.timeline

LoadEnds ==
  \E r \in loads :
    /\ r.latest
    /\ loads' = loads \ {r} /\ loaded' = loaded
    /\ SameChoice(ui', ui) /\ due \subseteq due'
    /\ ui'.timeline \in {r.ask, Nothing} /\ ~ui'.timelineLoading

LEMMA EffectsLoad ==
  ASSUME NEW s \in Page, NEW d, Effects(s, d),
         SameTimeline(s, ui), s.selected = NoSession => ui.selected = NoSession,
         "load" \in d \/ ("load" \notin due /\ SameChoice(s, ui))
  PROVE  LoadStays \/ LoadAsked
  <1>1. CASE /\ MustSelect(s)
             /\ ui' = SelectSession(s, Head(s.list.items))
             /\ due' = {"load"}
             /\ UNCHANGED loadVars
    <2>1. s.selected = NoSession /\ SameTimeline(ui', ui)
      BY <1>1, SelectFields DEF MustSelect, SameTimeline
    <2>. QED BY <1>1, <2>1 DEF LoadStays, loadVars
  <1>2. CASE s.selected # NoSession /\ LoadTimeline(s)
    <2>1. /\ SameChoice(ui', s) /\ ui'.timeline = s.timeline /\ ui'.timelineLoading
      BY <1>2, LoadingFields DEF LoadTimeline
    <2>2. TimelineOf(ui') = TimelineOf(s) BY <2>1, SameTimelineOf
    <2>3. ui'.selected # NoSession BY <1>2, <2>1 DEF SameChoice
    <2>4. ui'.timeline = ui.timeline BY <2>1 DEF SameTimeline
    <2>. QED BY <1>2, <2>1, <2>2, <2>3, <2>4 DEF LoadTimeline, LoadAsked
  <1>3. CASE ~("load" \in d /\ s.selected # NoSession) /\ ui' = s /\ UNCHANGED loadVars
    BY <1>3 DEF LoadStays, loadVars, SameChoice
  <1>. QED BY <1>1, <1>2, <1>3, Zenon DEF Effects

LEMMA MovesLoad ==
  ASSUME TypeOK, Moves
  PROVE  LoadStays \/ LoadAsked \/ LoadEnds
  <1>0. ui \in Page BY DEF TypeOK
  <1>1. CASE Reading
    <2>1. PICK s \in Page, d \in SUBSET Effect :
            ByReader(s) /\ Changed(ui, s) \subseteq d /\ Command(s, d)
      BY <1>1 DEF Reading
    <2>2. SameTimeline(s, ui) /\ (s.selected = NoSession => ui.selected = NoSession)
      BY <2>1 DEF ByReader, SameTimeline
    <2>3. "load" \in d \/ ("load" \notin due /\ SameChoice(s, ui))
      <3>1. due = {} BY <2>1 DEF Command, Ready
      <3>2. ~SameChoice(s, ui) => "load" \in Changed(ui, s) BY DEF SameChoice, Changed
      <3>. QED BY <2>1, <3>1, <3>2
    <2>4. Effects(s, d) BY <2>1 DEF Command
    <2>. QED BY <2>2, <2>3, <2>4, EffectsLoad
  <1>2. ASSUME NEW q, LoadSessions(q), UNCHANGED <<due, loadVars>> PROVE LoadStays
    <2>1. SameTimeline(ui', ui) /\ SameChoice(ui', ui)
      BY <1>0, <1>2, SearchingFields DEF LoadSessions
    <2>. QED BY <1>2, <2>1 DEF LoadStays, loadVars, SameChoice
  <1>3. CASE RefreshSessions BY <1>2, <1>3 DEF RefreshSessions
  <1>4. CASE TimerFires BY <1>2, <1>4 DEF TimerFires
  <1>5. CASE RefreshTimeline
    <2>1. /\ SameChoice(ui', ui) /\ ui'.timeline = ui.timeline /\ ui'.timelineLoading
      BY <1>0, <1>5, LoadingFields DEF RefreshTimeline, LoadTimeline
    <2>2. TimelineOf(ui') = TimelineOf(ui) BY <2>1, SameTimelineOf
    <2>3. ui'.selected # NoSession BY <1>5, <2>1 DEF RefreshTimeline, SameChoice
    <2>. QED BY <1>5, <2>1, <2>2, <2>3 DEF RefreshTimeline, LoadTimeline, LoadAsked
  <1>6. CASE RunEffects
    <2>1. Effects(ui, due) BY <1>6 DEF RunEffects
    <2>2. SameTimeline(ui, ui) BY DEF SameTimeline
    <2>3. "load" \in due \/ ("load" \notin due /\ SameChoice(ui, ui)) BY DEF SameChoice
    <2>. QED BY <1>0, <2>1, <2>2, <2>3, EffectsLoad
  <1>7. ASSUME NEW r \in searches, SessionsAnswered(r) PROVE LoadStays
    <2>1. UNCHANGED loadVars BY <1>7 DEF SessionsAnswered
    <2>2. SameTimeline(ui', ui) /\ SameChoice(ui', ui) /\ due \subseteq due'
      <3>1. CASE UNCHANGED <<ui, due>> BY <3>1 DEF SameTimeline, SameChoice
      <3>2. CASE \E s \in {SessionsLoaded(ui, Found(r.ask)), SessionsFailed(ui)} :
                   ui' = s /\ due' = due \cup Changed(ui, s) \cup {"select"}
        BY <1>0, <3>2, FoundFields, NotFoundFields
      <3>. QED BY <1>7, <3>1, <3>2, Zenon DEF SessionsAnswered
    <2>. QED BY <2>1, <2>2 DEF LoadStays, loadVars, SameChoice
  <1>8. ASSUME NEW r \in loads, TimelineAnswered(r) PROVE LoadStays \/ LoadEnds
    <2>1. loads' = loads \ {r} /\ loaded' = loaded BY <1>8 DEF TimelineAnswered
    <2>2. CASE UNCHANGED <<ui, due>>
      BY <2>1, <2>2 DEF LoadStays, SameTimeline, SameChoice
    <2>3. CASE Accepts(r) /\ \E s \in {TimelineLoaded(ui, r.ask), TimelineFailed(ui)} : Dispatch(s)
      <3>1. PICK s \in {TimelineLoaded(ui, r.ask), TimelineFailed(ui)} : Dispatch(s) BY <2>3
      <3>2. /\ SameChoice(s, ui) /\ s.timeline \in {r.ask, Nothing} /\ ~s.timelineLoading
        BY <1>0, LoadedFields
      <3>3. ui' = s /\ due \subseteq due' BY <3>1 DEF Dispatch
      <3>4. r.latest BY <2>3 DEF Accepts
      <3>. QED BY <2>1, <3>2, <3>3, <3>4 DEF LoadEnds
    <2>. QED BY <1>8, <2>2, <2>3, Zenon DEF TimelineAnswered
  <1>9. CASE Applies
    <2>1. PICK words \in Words : ui' = ApplyWords(words) BY <1>9 DEF Applies
    <2>2. SameTimeline(ui', ui) /\ ui'.selected = ui.selected
      BY <1>0, <2>1, FilterFields DEF ApplyWords
    <2>. QED BY <1>9, <2>2 DEF Applies, LoadStays, loadVars
  <1>10. CASE UNCHANGED vars
    BY <1>10 DEF vars, LoadStays, SameTimeline, SameChoice
  <1>. QED BY <1>1, <1>3, <1>4, <1>5, <1>6, <1>7, <1>8, <1>9, <1>10 DEF Moves

LEMMA SentLatest ==
  ASSUME NEW Ask, NEW requests \in SUBSET [latest : BOOLEAN, ask : Ask], NEW q,
         NEW r \in Sent(requests, q), r.latest
  PROVE  r.ask = q
  <1>1. CASE r = [latest |-> TRUE, ask |-> q] BY <1>1
  <1>2. CASE r \in {[x EXCEPT !.latest = FALSE] : x \in requests}
    <2>1. PICK x \in requests : r = [x EXCEPT !.latest = FALSE] BY <1>2
    <2>2. x \in [latest : BOOLEAN, ask : Ask] OBVIOUS
    <2>. QED BY <2>1, <2>2
  <1>. QED BY <1>1, <1>2, Zenon DEF Sent

\* Two latest requests for the same are one.
LEMMA OneLatest ==
  ASSUME NEW Ask, NEW r \in [latest : BOOLEAN, ask : Ask], NEW t \in [latest : BOOLEAN, ask : Ask],
         r.latest, t.latest, r.ask = t.ask
  PROVE  r = t
  OBVIOUS

LEMMA InitLoad == Init => LoadInv
  <1>1. /\ InitialState.timeline = Nothing /\ InitialState.timelineLoading = FALSE
        /\ InitialState.selected = NoSession
    BY Zenon DEF InitialState
  <1>. QED BY <1>1 DEF Init, LoadInv, LatestAwaited, LatestShown, ChoiceLoaded, NoneChosen

LEMMA MovesKeepLoad ==
  ASSUME TypeOK, LoadInv, Moves
  PROVE  LoadInv'
  <1>. USE DEF LoadInv
  <1>0. loads \in SUBSET [latest : BOOLEAN, ask : TimelineQuestion] BY DEF TypeOK
  <1>1. CASE LoadStays
    <2>1. LatestAwaited' BY <1>1 DEF LatestAwaited, LoadStays, SameTimeline
    <2>2. LatestShown' BY <1>1 DEF LatestShown, LoadStays, SameTimeline
    <2>3. ChoiceLoaded'
      <3>. SUFFICES ASSUME "load" \notin due', ui'.selected # NoSession
                    PROVE  loaded' = TimelineOf(ui')
        BY DEF ChoiceLoaded, TimelineOf
      <3>1. "load" \notin due /\ SameChoice(ui', ui) BY <1>1 DEF LoadStays
      <3>2. TimelineOf(ui') = TimelineOf(ui) BY <3>1, SameTimelineOf
      <3>. QED BY <1>1, <3>1, <3>2 DEF LoadStays, ChoiceLoaded, SameChoice
    <2>4. NoneChosen' BY <1>1 DEF NoneChosen, LoadStays, SameTimeline
    <2>. QED BY <2>1, <2>2, <2>3, <2>4
  <1>2. CASE LoadAsked
    <2>1. LatestAwaited' BY <1>0, <1>2, SentLatest DEF LatestAwaited, LoadAsked
    <2>2. LatestShown' BY <1>2 DEF LatestShown, LoadAsked
    <2>3. ChoiceLoaded' BY <1>2 DEF ChoiceLoaded, LoadAsked, TimelineOf
    <2>4. NoneChosen' BY <1>2 DEF NoneChosen, LoadAsked
    <2>. QED BY <2>1, <2>2, <2>3, <2>4
  <1>3. CASE LoadEnds
    <2>1. PICK r \in loads :
            /\ r.latest
            /\ loads' = loads \ {r} /\ loaded' = loaded
            /\ SameChoice(ui', ui) /\ due \subseteq due'
            /\ ui'.timeline \in {r.ask, Nothing} /\ ~ui'.timelineLoading
      BY <1>3 DEF LoadEnds
    <2>2. r.ask = loaded /\ ui.timelineLoading BY <2>1 DEF LatestAwaited
    <2>3. \A t \in loads : t.latest => t = r
      BY <1>0, <2>1, <2>2, OneLatest DEF LatestAwaited
    <2>4. LatestAwaited' BY <2>1, <2>3 DEF LatestAwaited
    <2>5. LatestShown' BY <2>1, <2>2 DEF LatestShown
    <2>6. ChoiceLoaded' BY <2>1 DEF ChoiceLoaded, SameChoice, TimelineOf
    <2>7. NoneChosen' BY <2>1, <2>2 DEF NoneChosen, SameChoice
    <2>. QED BY <2>4, <2>5, <2>6, <2>7
  <1>. QED BY <1>1, <1>2, <1>3, MovesLoad

\* A step of the page is a question, an answer, or nothing to the reader of the
\* timeline.
LEMMA MovesTimeline ==
  ASSUME TypeOK, TypeOK', LoadInv, Moves
  PROVE  [Timeline!Next]_Timeline!vars
  <1>0. ui' \in Page /\ ui \in Page BY DEF TypeOK
  <1>1. ui'.timelineLoading \in BOOLEAN /\ ui.timelineLoading \in BOOLEAN BY <1>0, Zenon DEF Page
  <1>2. CASE LoadStays BY <1>2 DEF LoadStays, SameTimeline, Timeline!vars
  <1>3. CASE LoadAsked
    <2>1. loaded' \in TimelineQuestion BY <1>0, <1>3, QuestionTypes DEF LoadAsked
    <2>2. Timeline!Ask BY <1>1, <1>3, <2>1 DEF LoadAsked, Timeline!Ask
    <2>. QED BY <2>2 DEF Timeline!Next
  <1>4. CASE LoadEnds
    <2>1. PICK r \in loads :
            /\ r.latest /\ loaded' = loaded
            /\ ui'.timeline \in {r.ask, Nothing} /\ ~ui'.timelineLoading
      BY <1>4 DEF LoadEnds
    <2>2. r.ask = loaded /\ ui.timelineLoading BY <2>1 DEF LoadInv, LatestAwaited
    <2>3. Timeline!Answer BY <1>1, <2>1, <2>2 DEF Timeline!Answer
    <2>. QED BY <2>3 DEF Timeline!Next
  <1>. QED BY <1>2, <1>3, <1>4, MovesLoad

\* The four facts about the timeline's loads hold in every state: no answer, no
\* command and no effect that is still due breaks them (loadTimeline).
THEOREM LoadInvariant == Spec => []LoadInv
  <1>1. InitPresets => LoadInv BY InitLoad DEF InitPresets, StartsWith
  <1>2. PresetsTypeOK /\ LoadInv /\ [NextPresets]_allVars => LoadInv'
    BY StepsMove, MovesKeepLoad DEF PresetsTypeOK
  <1>. QED BY <1>1, <1>2, PresetsTypeCorrect, PTL DEF Spec

\* Whenever no load runs or is due, the timeline on the screen is that of the
\* session and the filters the controls show, or the load failed.
THEOREM TimelineOfChoiceHolds == Spec => []TimelineOfChoice
  <1>1. LoadInv => TimelineOfChoice
    BY DEF LoadInv, LatestShown, ChoiceLoaded, TimelineOfChoice
  <1>. QED BY <1>1, LoadInvariant, PTL

\* The timeline pane implements LatestAnswer: of any number of overlapping loads
\* only the last one's answer is ever shown, whatever order they are answered in.
THEOREM TimelineImplementsLatest == Spec => TimelineLatest
  <1>1. InitPresets => Timeline!Init
    <2>1. InitialState.timeline = Nothing /\ InitialState.timelineLoading = FALSE
      BY Zenon DEF InitialState
    <2>. QED BY <2>1 DEF InitPresets, StartsWith, Init, Timeline!Init
  <1>2. PresetsTypeOK /\ PresetsTypeOK' /\ LoadInv /\ [NextPresets]_allVars
        => [Timeline!Next]_Timeline!vars
    BY StepsMove, MovesTimeline DEF PresetsTypeOK
  <1>. QED BY <1>1, <1>2, PresetsTypeCorrect, LoadInvariant, PTL DEF Spec, TimelineLatest, Timeline!Spec

-----------------------------------------------------------------------------
(* 6. The session list.  SearchInv: likewise, with the timer between the     *)
(* effect and the search, and with the page of the answer written back into  *)
(* the question.                                                             *)

LatestSearch == \A r \in searches : r.latest => r.ask = searched /\ ui.sessionsLoading
LatestListed == ~ui.sessionsLoading => ui.list.asked \in {searched, Nothing}
TimerAsks == "search" \notin due /\ timer # Nothing => timer = Search(ui)
ChoiceSearched == "search" \notin due /\ timer = Nothing => searched = Search(ui)
PageListed ==
  /\ ~ui.sessionsLoading /\ "search" \notin due
  /\ timer = Nothing /\ ui.list.asked # Nothing
  => ui.list.page = ui.page

SearchInv == LatestSearch /\ LatestListed /\ TimerAsks /\ ChoiceSearched /\ PageListed

\* The three things a step can do to the session list.
SearchStays ==
  /\ searches' \subseteq searches /\ searched' = searched /\ SameList(ui', ui)
  /\ "search" \notin due' => \/ timer' = Search(ui') /\ timer' # Nothing
                             \/ "search" \notin due /\ timer' = timer /\ SameSearch(ui', ui)

SearchAsked ==
  /\ searched' \in ListQuestion /\ searches' = Sent(searches, searched')
  /\ ui'.sessionsLoading /\ ui'.list = ui.list /\ SameSearch(ui', ui) /\ due' = due
  /\ \/ timer' = timer /\ searched' = Search(ui)
     \/ timer' = Nothing /\ timer # Nothing /\ searched' = timer

SearchEnds ==
  \E r \in searches :
    /\ r.latest
    /\ searches' = searches \ {r} /\ searched' = searched /\ timer' = timer
    /\ ~ui'.sessionsLoading /\ ui'.list.asked \in {r.ask, Nothing}
    /\ ui'.list.asked # Nothing => ui'.list.page = ui'.page
    /\ "search" \notin due' => "search" \notin due /\ SameSearch(ui', ui)

LEMMA EffectsSearch ==
  ASSUME NEW s \in Page, NEW d, Effects(s, d), UNCHANGED searchVars,
         SameList(s, ui),
         "search" \in d \/ ("search" \notin due /\ SameSearch(s, ui))
  PROVE  SearchStays
  <1>1. Search(s) \in ListQuestion BY QuestionTypes
  <1>2. SameSearch(ui', s) /\ SameList(ui', s)
    <2>1. CASE ui' = SelectSession(s, Head(s.list.items)) BY <2>1, SelectFields
    <2>2. CASE LoadTimeline(s) BY <2>2, LoadingFields DEF LoadTimeline
    <2>3. CASE ui' = s BY <2>3 DEF SameSearch, SameList
    <2>. QED BY <2>1, <2>2, <2>3, Zenon DEF Effects
  <1>3. SameList(ui', ui) BY <1>2 DEF SameList
  <1>4. CASE "search" \in d
    <2>1. timer' = Search(s) BY <1>4 DEF Effects
    <2>2. Search(ui') = Search(s) BY <1>2, SameSearchOf
    <2>. QED BY <1>1, <1>3, <2>1, <2>2, ReducerAssumption DEF SearchStays, searchVars
  <1>5. CASE "search" \notin d
    <2>1. timer' = timer BY <1>5 DEF Effects
    <2>2. "search" \notin due /\ SameSearch(ui', ui) BY <1>2, <1>5 DEF SameSearch
    <2>. QED BY <1>3, <2>1, <2>2 DEF SearchStays, searchVars
  <1>. QED BY <1>4, <1>5

LEMMA MovesSearch ==
  ASSUME TypeOK, Moves
  PROVE  SearchStays \/ SearchAsked \/ SearchEnds
  <1>0. ui \in Page BY DEF TypeOK
  <1>1. CASE Reading
    <2>1. PICK s \in Page, d \in SUBSET Effect :
            ByReader(s) /\ Changed(ui, s) \subseteq d /\ Command(s, d)
      BY <1>1 DEF Reading
    <2>2. SameList(s, ui) BY <2>1 DEF ByReader, SameList
    <2>3. "search" \in d \/ ("search" \notin due /\ SameSearch(s, ui))
      <3>1. due = {} BY <2>1 DEF Command, Ready
      <3>2. ~SameSearch(s, ui) => "search" \in Changed(ui, s) BY SameSearchOf DEF Changed
      <3>. QED BY <2>1, <3>1, <3>2
    <2>4. Effects(s, d) /\ UNCHANGED searchVars BY <2>1 DEF Command
    <2>. QED BY <2>2, <2>3, <2>4, EffectsSearch
  <1>2. ASSUME NEW q, LoadSessions(q)
        PROVE  /\ searches' = Sent(searches, q) /\ searched' = q
               /\ ui'.sessionsLoading /\ ui'.list = ui.list /\ SameSearch(ui', ui)
    BY <1>0, <1>2, SearchingFields DEF LoadSessions
  <1>3. CASE RefreshSessions
    <2>1. Search(ui) \in ListQuestion BY <1>0, QuestionTypes
    <2>2. LoadSessions(Search(ui)) /\ UNCHANGED <<due, timer>> BY <1>3 DEF RefreshSessions
    <2>. QED BY <1>2, <2>1, <2>2 DEF SearchAsked
  <1>4. CASE TimerFires
    <2>1. timer # Nothing /\ timer' = Nothing /\ LoadSessions(timer) /\ due' = due
      BY <1>4 DEF TimerFires
    <2>2. timer \in ListQuestion BY <2>1 DEF TypeOK
    <2>. QED BY <1>2, <2>1, <2>2 DEF SearchAsked
  <1>5. CASE RefreshTimeline
    <2>1. SameSearch(ui', ui) /\ SameList(ui', ui)
      BY <1>0, <1>5, LoadingFields DEF RefreshTimeline, LoadTimeline
    <2>. QED BY <1>5, <2>1 DEF RefreshTimeline, SearchStays, searchVars
  <1>6. CASE RunEffects
    <2>1. Effects(ui, due) /\ UNCHANGED searchVars BY <1>6 DEF RunEffects
    <2>2. SameList(ui, ui) BY DEF SameList
    <2>3. "search" \in due \/ ("search" \notin due /\ SameSearch(ui, ui)) BY DEF SameSearch
    <2>. QED BY <1>0, <2>1, <2>2, <2>3, EffectsSearch
  <1>7. ASSUME NEW r \in searches, SessionsAnswered(r) PROVE SearchStays \/ SearchEnds
    <2>1. searches' = searches \ {r} /\ UNCHANGED <<timer, searched>> BY <1>7 DEF SessionsAnswered
    <2>2. CASE UNCHANGED <<ui, due>>
      BY <2>1, <2>2 DEF SearchStays, SameList, SameSearch
    <2>3. CASE /\ Accepts(r)
               /\ \E s \in {SessionsLoaded(ui, Found(r.ask)), SessionsFailed(ui)} :
                    ui' = s /\ due' = due \cup Changed(ui, s) \cup {"select"}
      <3>1. PICK s \in {SessionsLoaded(ui, Found(r.ask)), SessionsFailed(ui)} :
              ui' = s /\ due' = due \cup Changed(ui, s) \cup {"select"}
        BY <2>3
      <3>2. r.ask \in ListQuestion BY DEF TypeOK
      <3>3. Found(r.ask).asked = r.ask BY <3>2, FoundTypes
      <3>4. NoList.asked = Nothing BY DEF NoList
      <3>5. /\ ~s.sessionsLoading /\ s.list.asked \in {r.ask, Nothing}
            /\ s.list.asked # Nothing => s.list.page = s.page
        <4>1. CASE s = SessionsLoaded(ui, Found(r.ask)) BY <1>0, <3>3, <4>1, FoundFields
        <4>2. CASE s = SessionsFailed(ui) BY <1>0, <3>4, <4>2, NotFoundFields
        <4>. QED BY <4>1, <4>2
      <3>6. "search" \notin due' => "search" \notin due /\ SameSearch(ui', ui)
        BY <3>1, SameSearchOf DEF Changed
      <3>7. r.latest BY <2>3 DEF Accepts
      <3>. QED BY <2>1, <3>1, <3>5, <3>6, <3>7 DEF SearchEnds
    <2>. QED BY <1>7, <2>2, <2>3, Zenon DEF SessionsAnswered
  <1>8. ASSUME NEW r \in loads, TimelineAnswered(r) PROVE SearchStays
    <2>1. UNCHANGED <<timer, searchVars>> BY <1>8 DEF TimelineAnswered
    <2>2. SameSearch(ui', ui) /\ SameList(ui', ui) /\ due \subseteq due'
      <3>1. CASE UNCHANGED <<ui, due>> BY <3>1 DEF SameSearch, SameList
      <3>2. CASE \E s \in {TimelineLoaded(ui, r.ask), TimelineFailed(ui)} : Dispatch(s)
        BY <1>0, <3>2, LoadedFields DEF Dispatch
      <3>. QED BY <1>8, <3>1, <3>2, Zenon DEF TimelineAnswered
    <2>. QED BY <2>1, <2>2 DEF SearchStays, searchVars
  <1>9. CASE Applies
    <2>1. PICK words \in Words : ui' = ApplyWords(words) BY <1>9 DEF Applies
    <2>2. SameSearch(ui', ui) /\ SameList(ui', ui) BY <1>0, <2>1, FilterFields DEF ApplyWords
    <2>. QED BY <1>9, <2>2 DEF Applies, SearchStays, searchVars
  <1>10. CASE UNCHANGED vars
    BY <1>10 DEF vars, SearchStays, SameSearch, SameList
  <1>. QED BY <1>1, <1>3, <1>4, <1>5, <1>6, <1>7, <1>8, <1>9, <1>10 DEF Moves

LEMMA InitSearch == Init => SearchInv
  <1>1. /\ InitialState.list = NoList /\ InitialState.sessionsLoading = FALSE
    BY Zenon DEF InitialState
  <1>2. Search(InitialState) # Nothing
    BY InitialPage, QuestionTypes, ReducerAssumption
  <1>3. NoList.asked = Nothing BY DEF NoList
  <1>. QED BY <1>1, <1>2, <1>3
       DEF Init, SearchInv, LatestSearch, LatestListed, TimerAsks, ChoiceSearched, PageListed

LEMMA MovesKeepSearch ==
  ASSUME TypeOK, SearchInv, Moves
  PROVE  SearchInv'
  <1>. USE DEF SearchInv
  <1>0. searches \in SUBSET [latest : BOOLEAN, ask : ListQuestion] BY DEF TypeOK
  <1>9. ASSUME SameSearch(ui', ui) PROVE Search(ui') = Search(ui) /\ Search(ui)' = Search(ui)
    BY <1>9 DEF SameSearch, Search
  <1>1. CASE SearchStays
    <2>1. LatestSearch' BY <1>1 DEF LatestSearch, SearchStays, SameList
    <2>2. LatestListed' BY <1>1 DEF LatestListed, SearchStays, SameList
    <2>3. TimerAsks' BY <1>1, <1>9 DEF TimerAsks, SearchStays, Search
    <2>4. ChoiceSearched' BY <1>1, <1>9 DEF ChoiceSearched, SearchStays, Search
    <2>5. PageListed' BY <1>1 DEF PageListed, SearchStays, SameList, SameSearch
    <2>. QED BY <2>1, <2>2, <2>3, <2>4, <2>5
  <1>2. CASE SearchAsked
    <2>1. LatestSearch' BY <1>0, <1>2, SentLatest DEF LatestSearch, SearchAsked
    <2>2. LatestListed' BY <1>2 DEF LatestListed, SearchAsked
    <2>3. TimerAsks' BY <1>2, <1>9 DEF TimerAsks, SearchAsked
    <2>4. ChoiceSearched' BY <1>2, <1>9 DEF ChoiceSearched, TimerAsks, SearchAsked
    <2>5. PageListed' BY <1>2 DEF PageListed, SearchAsked
    <2>. QED BY <2>1, <2>2, <2>3, <2>4, <2>5
  <1>3. CASE SearchEnds
    <2>1. PICK r \in searches :
            /\ r.latest
            /\ searches' = searches \ {r} /\ searched' = searched /\ timer' = timer
            /\ ~ui'.sessionsLoading /\ ui'.list.asked \in {r.ask, Nothing}
            /\ ui'.list.asked # Nothing => ui'.list.page = ui'.page
            /\ "search" \notin due' => "search" \notin due /\ SameSearch(ui', ui)
      BY <1>3 DEF SearchEnds
    <2>2. r.ask = searched /\ ui.sessionsLoading BY <2>1 DEF LatestSearch
    <2>3. \A t \in searches : t.latest => t = r
      BY <1>0, <2>1, <2>2, OneLatest DEF LatestSearch
    <2>4. LatestSearch' BY <2>1, <2>3 DEF LatestSearch
    <2>5. LatestListed' BY <2>1, <2>2 DEF LatestListed
    <2>6. TimerAsks' BY <1>9, <2>1 DEF TimerAsks
    <2>7. ChoiceSearched' BY <1>9, <2>1 DEF ChoiceSearched
    <2>8. PageListed' BY <2>1 DEF PageListed
    <2>. QED BY <2>4, <2>5, <2>6, <2>7, <2>8
  <1>. QED BY <1>1, <1>2, <1>3, MovesSearch

\* A step of the page is a question, an answer, or nothing to the reader of the
\* session list.
LEMMA MovesSessions ==
  ASSUME TypeOK, TypeOK', SearchInv, Moves
  PROVE  [SessionPages!Next]_SessionPages!vars
  <1>0. ui' \in Page /\ ui \in Page BY DEF TypeOK
  <1>1. ui'.sessionsLoading \in BOOLEAN /\ ui.sessionsLoading \in BOOLEAN BY <1>0, Zenon DEF Page
  <1>2. CASE SearchStays BY <1>2 DEF SearchStays, SameList, SessionPages!vars
  <1>3. CASE SearchAsked
    <2>1. SessionPages!Ask BY <1>1, <1>3 DEF SearchAsked, SessionPages!Ask
    <2>. QED BY <2>1 DEF SessionPages!Next
  <1>4. CASE SearchEnds
    <2>1. PICK r \in searches :
            /\ r.latest /\ searched' = searched
            /\ ui'.list.asked \in {r.ask, Nothing} /\ ~ui'.sessionsLoading
      BY <1>4 DEF SearchEnds
    <2>2. r.ask = searched /\ ui.sessionsLoading BY <2>1 DEF SearchInv, LatestSearch
    <2>3. SessionPages!Answer BY <1>1, <2>1, <2>2 DEF SessionPages!Answer
    <2>. QED BY <2>3 DEF SessionPages!Next
  <1>. QED BY <1>2, <1>3, <1>4, MovesSearch

\* Likewise for the session list's searches (loadSessions).
THEOREM SearchInvariant == Spec => []SearchInv
  <1>1. InitPresets => SearchInv BY InitSearch DEF InitPresets, StartsWith
  <1>2. PresetsTypeOK /\ SearchInv /\ [NextPresets]_allVars => SearchInv'
    BY StepsMove, MovesKeepSearch DEF PresetsTypeOK
  <1>. QED BY <1>1, <1>2, PresetsTypeCorrect, PTL DEF Spec

\* At rest, the list on the screen answers the query and the page number the
\* controls show, also when the server answered with another page than asked.
THEOREM ListOfChoiceHolds == Spec => []ListOfChoice
  <1>1. SearchInv => ListOfChoice
    BY DEF SearchInv, LatestListed, ChoiceSearched, PageListed, ListOfChoice
  <1>. QED BY <1>1, SearchInvariant, PTL

\* The session list implements LatestAnswer: no answer to an earlier query is
\* shown after or instead of the last one's.
THEOREM SessionsImplementLatest == Spec => SessionsLatest
  <1>1. InitPresets => SessionPages!Init
    <2>1. InitialState.list.asked = Nothing /\ InitialState.sessionsLoading = FALSE
      <3>1. InitialState.list = NoList /\ InitialState.sessionsLoading = FALSE
        BY Zenon DEF InitialState
      <3>. QED BY <3>1 DEF NoList
    <2>. QED BY <2>1 DEF InitPresets, StartsWith, Init, SessionPages!Init
  <1>2. PresetsTypeOK /\ PresetsTypeOK' /\ SearchInv /\ [NextPresets]_allVars
        => [SessionPages!Next]_SessionPages!vars
    BY StepsMove, MovesSessions DEF PresetsTypeOK
  <1>. QED BY <1>1, <1>2, PresetsTypeCorrect, SearchInvariant, PTL
       DEF Spec, SessionsLatest, SessionPages!Spec

-----------------------------------------------------------------------------
(* 7. The selected event.                                                    *)

\* A step keeps the selection in the timeline it was made in, makes one on a
\* board at rest, or drops it.
SelectionKept ==
  \/ ui'.event = NoEvent
  \/ /\ ui'.timeline = ui.timeline /\ SameChoice(ui', ui)
     /\ ui'.event = ui.event \/ (due = {} /\ ui'.event \in Board)

LEMMA EffectsSelection ==
  ASSUME NEW s \in Page, NEW d, Effects(s, d)
  PROVE  ui'.event = NoEvent \/ (ui'.timeline = s.timeline /\ SameChoice(ui', s) /\ ui'.event = s.event)
  <1>1. CASE ui' = SelectSession(s, Head(s.list.items)) BY <1>1, SelectFields
  <1>2. CASE LoadTimeline(s) BY <1>2, LoadingFields DEF LoadTimeline
  <1>3. CASE ui' = s BY <1>3 DEF SameChoice
  <1>. QED BY <1>1, <1>2, <1>3, Zenon DEF Effects

LEMMA MovesSelection ==
  ASSUME TypeOK, Moves
  PROVE  SelectionKept
  <1>0. ui \in Page BY DEF TypeOK
  <1>1. CASE Reading
    <2>1. PICK s \in Page, d \in SUBSET Effect : ByReader(s) /\ Command(s, d)
      BY <1>1 DEF Reading
    <2>2. Effects(s, d) /\ due = {} BY <2>1 DEF Command, Ready
    <2>3. CASE ui'.event = s.event /\ ui'.timeline = s.timeline /\ SameChoice(ui', s)
      BY <2>1, <2>2, <2>3 DEF ByReader, SelectionKept, SameChoice
    <2>. QED BY <2>2, <2>3, EffectsSelection DEF SelectionKept
  <1>2. ASSUME NEW q, LoadSessions(q) PROVE SelectionKept
    BY <1>0, <1>2, SearchingFields DEF LoadSessions, SelectionKept, SameTimeline
  <1>3. CASE RefreshSessions \/ TimerFires BY <1>2, <1>3 DEF RefreshSessions, TimerFires
  <1>4. CASE RefreshTimeline
    BY <1>0, <1>4, LoadingFields DEF RefreshTimeline, LoadTimeline, SelectionKept
  <1>5. CASE RunEffects
    <2>1. Effects(ui, due) BY <1>5 DEF RunEffects
    <2>. QED BY <1>0, <2>1, EffectsSelection DEF SelectionKept
  <1>6. CASE UNCHANGED ui BY <1>6 DEF SelectionKept, SameChoice
  <1>7. ASSUME NEW r \in searches, SessionsAnswered(r) PROVE SelectionKept
    <2>1. \/ ui' = ui
          \/ ui' \in {SessionsLoaded(ui, Found(r.ask)), SessionsFailed(ui)}
      BY <1>7, Zenon DEF SessionsAnswered
    <2>. QED BY <1>0, <1>6, <2>1, FoundFields, NotFoundFields DEF SelectionKept, SameTimeline
  <1>8. ASSUME NEW r \in loads, TimelineAnswered(r) PROVE SelectionKept
    <2>1. ui' = ui \/ ui' \in {TimelineLoaded(ui, r.ask), TimelineFailed(ui)}
      BY <1>8, Zenon DEF TimelineAnswered, Dispatch
    <2>. QED BY <1>0, <1>6, <2>1, LoadedFields DEF SelectionKept
  <1>9. CASE Applies
    <2>1. PICK words \in Words : ui' = ApplyWords(words) BY <1>9 DEF Applies
    <2>. QED BY <1>0, <2>1, FilterFields DEF ApplyWords, SelectionKept
  <1>10. CASE UNCHANGED vars BY <1>6, <1>10 DEF vars
  <1>. QED BY <1>1, <1>3, <1>4, <1>5, <1>7, <1>8, <1>9, <1>10 DEF Moves

\* Whatever board the reader can click on at rest is that of the choice.
LEMMA BoardOfChoice ==
  ASSUME TypeOK, LoadInv, due = {}, NEW event \in Board
  PROVE  event \in Rows(ui.timeline, ui.filters) /\ event.session = ui.selected
  <1>1. event \in Rows(ui.timeline, ui.filters) /\ ~ui.timelineLoading
    BY Zenon DEF Board
  <1>2. ui.timeline # Nothing BY <1>1, Zenon DEF Rows
  <1>3. ui.timeline = TimelineOf(ui)
    BY <1>1, <1>2 DEF LoadInv, LatestShown, ChoiceLoaded, NoneChosen
  <1>4. ui.timeline.session = ui.selected BY <1>3 DEF TimelineOf
  <1>5. event.session = ui.timeline.session
    <2>1. PICK f : event = [session |-> ui.timeline.session, form |-> f]
      BY <1>1, <1>2, Zenon DEF Rows
    <2>. QED BY <2>1
  <1>. QED BY <1>1, <1>4, <1>5

LEMMA MovesKeepSelection ==
  ASSUME TypeOK, LoadInv, SelectionShown, Moves
  PROVE  SelectionShown'
  <1>. SUFFICES ASSUME ui'.event # NoEvent
                PROVE  /\ ui'.event \in Rows(ui'.timeline, ui'.filters)
                       /\ ui'.event.session = ui'.selected
    BY DEF SelectionShown, Rows
  <1>1. /\ ui'.timeline = ui.timeline /\ SameChoice(ui', ui)
        /\ ui'.event = ui.event \/ (due = {} /\ ui'.event \in Board)
    BY MovesSelection DEF SelectionKept
  <1>2. ui'.event \in Rows(ui.timeline, ui.filters) /\ ui'.event.session = ui.selected
    BY <1>1, BoardOfChoice DEF SelectionShown
  <1>. QED BY <1>1, <1>2 DEF SameChoice

\* The selected event, whose details are fetched from the selected session, is
\* a row of that session's timeline under the filters the controls show.
THEOREM SelectionShownHolds == Spec => []SelectionShown
  <1>1. InitPresets => SelectionShown
    <2>1. InitialState.event = NoEvent BY Zenon DEF InitialState
    <2>. QED BY <2>1 DEF InitPresets, StartsWith, Init, SelectionShown
  <1>2. PresetsTypeOK /\ LoadInv /\ SelectionShown /\ [NextPresets]_allVars => SelectionShown'
    BY StepsMove, MovesKeepSelection DEF PresetsTypeOK
  <1>. QED BY <1>1, <1>2, PresetsTypeCorrect, LoadInvariant, PTL DEF Spec

-----------------------------------------------------------------------------
(* 8. The presets.  SettledInv: while the history is steady there is at most *)
(* one call, and what it will put on the page agrees with the file.          *)

ChosenListed == chosen \in Ids(presets) \cup {NoPreset}

\* The lone call c, as it travels, with the page's copy p and the file f.
Consistent(c, p, f) ==
  /\ c.at = "handled" => c.payload = Normalized(f)
  /\ c.kind # "update" => PickedBy(c) \in Ids(c.payload) \cup {NoPreset}
  /\ c.kind = "update" => Ids(c.payload) = Ids(p)

SettledInv ==
  steady => /\ ChosenListed
            /\ calls = {} => presets = Normalized(stored)
            /\ \A c \in calls : calls = {c} /\ Consistent(c, presets, stored)

LEMMA NormalizedIds ==
  ASSUME NEW p \in File
  PROVE  /\ Ids(Normalized(p)) = Ids(p)
         /\ Normalized(p).items = p.items
  BY DEF Normalized, Ids, File

LEMMA HeadListed ==
  ASSUME NEW p \in File, p.items # <<>>
  PROVE  Head(p.items).id \in Ids(p)
  <1>1. p.items \in Seq(Preset) BY DEF File
  <1>2. 1 \in DOMAIN p.items /\ Head(p.items) = p.items[1] BY <1>1
  <1>. QED BY <1>2 DEF Ids

\* What is picked is listed, if what a creation or a deletion picks is.
LEMMA PickListed ==
  ASSUME NEW c \in Call, c.kind # "load" => c.pick \in Ids(c.payload) \cup {NoPreset}
  PROVE  PickedBy(c) \in Ids(c.payload) \cup {NoPreset}
  <1>1. c.payload \in File BY DEF Call
  <1>. QED BY <1>1, HeadListed DEF PickedBy

LEMMA SaveSettles ==
  ASSUME PresetsTypeOK, SettledInv, NEW kind \in {"create", "update", "delete"},
         NEW payload \in File, NEW pick \in PresetId \cup {NoPreset},
         Save(kind, payload, pick),
         pick \in Ids(payload) \cup {NoPreset},
         kind = "update" => Ids(payload) = Ids(presets)
  PROVE  SettledInv'
  <1>. DEFINE c == [id |-> commands', kind |-> kind, at |-> "sent", payload |-> payload, pick |-> pick]
  <1>1. /\ calls' = calls \cup {c}
        /\ steady' = (steady /\ calls = {})
        /\ UNCHANGED <<presets, chosen, stored>>
    BY DEF Save
  <1>2. c.kind = kind /\ c.at = "sent" /\ c.payload = payload /\ c.pick = pick OBVIOUS
  <1>. HIDE DEF c
  <1>3. PickedBy(c) \in Ids(payload) \cup {NoPreset} BY <1>2 DEF PickedBy
  <1>4. Consistent(c, presets', stored') BY <1>1, <1>2, <1>3 DEF Consistent
  <1>5. SUFFICES ASSUME steady' PROVE ChosenListed' /\ calls' = {c}
    BY <1>4 DEF SettledInv
  <1>6. steady /\ calls = {} BY <1>1, <1>5
  <1>. QED BY <1>1, <1>6 DEF SettledInv, ChosenListed

LEMMA CreateSettles ==
  ASSUME PresetsTypeOK, SettledInv, NEW id \in PresetId, CreatePreset(id)
  PROVE  SettledInv'
  <1>1. presets.items \in Seq(Preset) BY DEF PresetsTypeOK, File
  <1>2. ui.filters.words \in Words BY Zenon DEF PresetsTypeOK, TypeOK, Page
  <1>. DEFINE preset == [id |-> id, words |-> ui.filters.words]
              items == Append(presets.items, preset)
              payload == [default |-> id, items |-> items]
  <1>3. preset \in Preset /\ preset.id = id BY <1>2 DEF Preset
  <1>4. Save("create", payload, id) BY DEF CreatePreset
  <1>. HIDE DEF preset
  <1>5. items \in Seq(Preset) /\ Len(items) \in DOMAIN items /\ items[Len(items)] = preset
    BY <1>1, <1>3
  <1>. HIDE DEF items
  <1>6. payload \in File BY <1>5 DEF File
  <1>7. id \in Ids(payload) BY <1>3, <1>5 DEF Ids
  <1>. HIDE DEF payload
  <1>. QED BY <1>4, <1>6, <1>7, SaveSettles

LEMMA UpdateSettles ==
  ASSUME PresetsTypeOK, SettledInv, UpdatePreset
  PROVE  SettledInv'
  <1>1. presets \in File /\ chosen \in PresetId \cup {NoPreset} BY DEF PresetsTypeOK
  <1>2. presets.items \in Seq(Preset) /\ presets.default \in PresetId \cup {NoPreset}
    BY <1>1 DEF File
  <1>3. ui.filters.words \in Words BY Zenon DEF PresetsTypeOK, TypeOK, Page
  <1>. DEFINE items == [i \in DOMAIN presets.items |->
                          IF presets.items[i].id = chosen
                          THEN [presets.items[i] EXCEPT !.words = ui.filters.words]
                          ELSE presets.items[i]]
              payload == [default |-> IF presets.default = NoPreset THEN chosen ELSE presets.default,
                          items |-> items]
  <1>4. ASSUME NEW i \in DOMAIN presets.items
        PROVE  items[i] \in Preset /\ items[i].id = presets.items[i].id
    <2>1. presets.items[i] \in Preset BY <1>2
    <2>2. /\ [presets.items[i] EXCEPT !.words = ui.filters.words] \in Preset
          /\ [presets.items[i] EXCEPT !.words = ui.filters.words].id = presets.items[i].id
      BY <1>3, <2>1 DEF Preset
    <2>. QED BY <2>1, <2>2
  <1>5. DOMAIN items = DOMAIN presets.items /\ DOMAIN items = 1..Len(presets.items) BY <1>2
  <1>9. Save("update", payload, chosen) BY DEF UpdatePreset
  <1>. HIDE DEF items
  <1>6. items = [i \in 1..Len(presets.items) |-> items[i]] BY <1>2, <1>5 DEF items
  <1>7. items \in Seq(Preset) BY <1>2, <1>4, <1>5, <1>6
  <1>8. payload \in File BY <1>1, <1>2, <1>7 DEF File
  <1>10. Ids(payload) = Ids(presets) BY <1>4, <1>5 DEF Ids
  <1>11. chosen \in Ids(presets) BY DEF UpdatePreset
  <1>. HIDE DEF payload
  <1>. QED BY <1>1, <1>8, <1>9, <1>10, <1>11, SaveSettles

LEMMA DeleteSettles ==
  ASSUME PresetsTypeOK, SettledInv, DeletePreset
  PROVE  SettledInv'
  <1>1. Remain \in Seq(Preset) BY RemainTypes DEF PresetsTypeOK
  <1>. DEFINE next == IF Remain = <<>> THEN NoPreset ELSE Head(Remain).id
              payload == [default |-> next, items |-> Remain]
  <1>2. next \in PresetId \cup {NoPreset} BY <1>1, HeadTypes
  <1>3. Save("delete", payload, next) BY DEF DeletePreset
  <1>4. payload \in File BY <1>1, <1>2 DEF File
  <1>5. payload.items = Remain OBVIOUS
  <1>6. next \in Ids(payload) \cup {NoPreset} BY <1>4, <1>5, HeadListed
  <1>. HIDE DEF next, payload
  <1>. QED BY <1>2, <1>3, <1>4, <1>6, SaveSettles

LEMMA CallSettles ==
  ASSUME PresetsTypeOK, SettledInv, CallStep
  PROVE  SettledInv'
  <1>1. PICK c \in calls : ServerHandles(c) \/ CallAnswered(c) \/ CallFails(c) BY DEF CallStep
  <1>2. PresetsTypes /\ c \in Call BY PresetsTypesEquiv DEF PresetsTypes
  <1>3. c.payload \in File /\ stored \in File BY <1>2 DEF Call, PresetsTypes
  <1>4. CASE CallFails(c) BY <1>4 DEF CallFails, SettledInv
  <1>. SUFFICES ASSUME ~CallFails(c), steady' PROVE SettledInv'
    BY <1>4 DEF SettledInv
  <1>5. steady BY <1>1 DEF ServerHandles, CallAnswered
  <1>6. calls = {c} /\ Consistent(c, presets, stored) /\ ChosenListed BY <1>5 DEF SettledInv
  <1>7. CASE ServerHandles(c)
    <2>. DEFINE d == [c EXCEPT !.at = "handled", !.payload = Normalized(stored')]
    <2>1. /\ calls' = {d} /\ UNCHANGED <<presets, chosen>>
          /\ stored' = IF c.kind = "load" THEN stored ELSE Normalized(c.payload)
      BY <1>6, <1>7 DEF ServerHandles
    <2>2. stored' \in File BY <1>3, <2>1, NormalizedTypes
    <2>3. Normalized(stored') \in File BY <2>2, NormalizedTypes
    <2>4. /\ d \in Call /\ d.kind = c.kind /\ d.pick = c.pick
          /\ d.payload = Normalized(stored')
      BY <1>2, <2>3 DEF Call
    <2>. HIDE DEF d
    <2>5. c.kind # "load" => Ids(d.payload) = Ids(c.payload)
      BY <1>3, <2>1, <2>2, <2>4, NormalizedIds
    <2>6. c.kind \notin {"load", "update"} => d.pick \in Ids(d.payload) \cup {NoPreset}
      BY <1>6, <2>4, <2>5 DEF Consistent, PickedBy
    <2>7. c.kind # "update" => PickedBy(d) \in Ids(d.payload) \cup {NoPreset}
      BY <2>4, <2>6, PickListed
    <2>8. c.kind = "update" => Ids(d.payload) = Ids(presets)
      BY <1>6, <2>5 DEF Consistent
    <2>9. Consistent(d, presets', stored') BY <2>1, <2>4, <2>7, <2>8 DEF Consistent
    <2>. QED BY <1>6, <2>1, <2>9 DEF SettledInv, ChosenListed
  <1>8. CASE CallAnswered(c)
    <2>1. /\ c.at = "handled" /\ calls' = {} /\ presets' = c.payload /\ stored' = stored
          /\ chosen' = IF c.kind = "update" THEN chosen ELSE PickedBy(c)
      BY <1>6, <1>8 DEF CallAnswered
    <2>2. presets' = Normalized(stored') BY <1>6, <2>1 DEF Consistent
    <2>3. chosen' \in Ids(presets') \cup {NoPreset}
      BY <1>6, <2>1 DEF Consistent, ChosenListed
    <2>. QED BY <2>1, <2>2, <2>3 DEF SettledInv, ChosenListed
  <1>. QED BY <1>1, <1>7, <1>8

LEMMA InitSettled == InitPresets => SettledInv
  <1>. SUFFICES ASSUME NEW file \in Files, StartsWith(file) PROVE SettledInv
    BY DEF InitPresets
  <1>. DEFINE c == [id |-> 0, kind |-> "load", at |-> "sent", payload |-> NoPresets, pick |-> NoPreset]
  <1>1. calls = {c} /\ presets = NoPresets /\ chosen = NoPreset BY DEF StartsWith
  <1>2. c \in Call /\ c.kind = "load" /\ c.at = "sent" BY NoPresetsType DEF Call
  <1>. HIDE DEF c
  <1>3. Consistent(c, presets, stored) BY <1>2, PickListed DEF Consistent
  <1>. QED BY <1>1, <1>3 DEF SettledInv, ChosenListed

LEMMA NextSettled == PresetsTypeOK /\ SettledInv /\ [NextPresets]_allVars => SettledInv'
  <1>. SUFFICES ASSUME PresetsTypeOK, SettledInv, [NextPresets]_allVars PROVE SettledInv'
    OBVIOUS
  <1>1. CASE UNCHANGED presetVars
    BY <1>1 DEF presetVars, SettledInv, ChosenListed
  <1>2. ASSUME NEW id, SelectPreset(id) PROVE SettledInv'
    <2>1. chosen' \in Ids(presets) \cup {NoPreset} /\ UNCHANGED <<presets, stored, calls, steady>>
      BY <1>2 DEF SelectPreset
    <2>. QED BY <2>1 DEF SettledInv, ChosenListed
  <1>3. CASE PresetStep
    BY <1>2, <1>3, CreateSettles, UpdateSettles, DeleteSettles DEF PresetStep
  <1>. QED BY <1>1, <1>3, CallSettles DEF NextPresets, allVars

\* When calls came one at a time and none failed, the page's presets are those
\* of the file and the chosen one is among them: no save loses or invents one.
THEOREM PresetsSettledHolds == Spec => []PresetsSettled
  <1>1. SettledInv => PresetsSettled BY DEF SettledInv, ChosenListed, PresetsSettled
  <1>. QED BY <1>1, InitSettled, NextSettled, PresetsTypeCorrect, PTL DEF Spec

-----------------------------------------------------------------------------
(* 9. The panes together.                                                    *)

\* What is on the screen is what the reader chose, once nothing that would
\* change it runs or is due.
THEOREM ShownIsChosenHolds == Spec => []ShownIsChosen
  <1>1. TimelineOfChoice /\ ListOfChoice => ShownIsChosen BY DEF ShownIsChosen
  <1>. QED BY <1>1, TimelineOfChoiceHolds, ListOfChoiceHolds, PTL

\* Each pane shows nothing but the answer to its latest question.
THEOREM PanesImplementLatest == Spec => PanesLatest
  <1>. QED BY TimelineImplementsLatest, SessionsImplementLatest DEF PanesLatest
=============================================================================
