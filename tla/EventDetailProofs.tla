-------------------------- MODULE EventDetailProofs --------------------------
(***************************************************************************)
(* What the detail panel shows is of the selected event, for any timelines *)
(* and any order in which requests are answered.  The invariant says whose *)
(* the requests are that may still change the panel:                       *)
(*   Selection     the selected event is on the board;                     *)
(*   DetailsLive   at most one detail request is live, and it is for the   *)
(*                 event as it is shown;                                   *)
(*   CountsLive    live token requests are for the event on display.       *)
(***************************************************************************)
EXTENDS EventDetail, SequenceTheorems, TLAPS

Detail == [event : Events, waiting : (SUBSET Ids) \ {{}}, live : BOOLEAN]

Selection == event \in board \cup {NoEvent} /\ (due => event = NoEvent)

DetailsLive ==
  /\ details \subseteq Detail
  /\ \A r \in details : r.live => r.event = resolved /\ (~due => r.event = event)
  /\ \A r, s \in details : r.live /\ s.live => r = s

OfDisplay(id) == displayEvent # NoEvent /\ id = ApiId(displayEvent)

CountsLive == \A r \in counts : r.live => OfDisplay(r.id)

Tokens == CountsLive /\ TokensOfEvent

IInv ==
  /\ TypeOK /\ commands \in Nat
  /\ Selection /\ DetailOfEvent /\ DetailComplete /\ DetailsLive /\ Tokens

-----------------------------------------------------------------------------
(* Events. *)

(* A completed event is the event, but for what is loaded. *)
LEMMA CompleteIs ==
  ASSUME NEW e \in Event
  PROVE  /\ Complete(e) \in Event /\ Complete(e).id = e.id
         /\ Complete(e).children = <<>> <=> e.children = <<>>
         /\ ApiId(Complete(e)) = ApiId(e)
<1> DEFINE c == [i \in DOMAIN e.children |-> [e.children[i] EXCEPT !.loaded = TRUE]]
<1>0. Complete(e) = [e EXCEPT !.loaded = TRUE, !.children = c]
  BY DEF Complete
<1>1. Complete(e) = [id |-> e.id, loaded |-> TRUE, children |-> c]
  <2> HIDE DEF c
  <2>1. e = [id |-> e.id, loaded |-> e.loaded, children |-> e.children]
    BY DEF Event
  <2>2. QED
    BY <1>0, <2>1
<1>2. e.children \in Seq(Part) /\ Len(e.children) \in Nat /\ DOMAIN e.children = 1..Len(e.children)
  BY LenProperties DEF Event
<1>3. ASSUME NEW i \in DOMAIN e.children
      PROVE  [e.children[i] EXCEPT !.loaded = TRUE] \in Part /\ c[i].id = e.children[i].id
  <2>1. e.children[i] \in Part
    BY <1>2, <1>3, ElementOfSeq
  <2>2. QED
    BY <2>1 DEF Part
<1>4. c \in [1..Len(e.children) -> Part]
  BY <1>2, <1>3
<1>5. c \in Seq(Part) /\ DOMAIN c = DOMAIN e.children
  BY <1>2, <1>4, SeqDef
<1> HIDE DEF c
<1>6. \A s \in Seq(Part) : s = <<>> <=> 1 \notin DOMAIN s
  <2> SUFFICES ASSUME NEW s \in Seq(Part) PROVE s = <<>> <=> 1 \notin DOMAIN s
    OBVIOUS
  <2>1. Len(s) \in Nat /\ DOMAIN s = 1..Len(s)
    BY LenProperties
  <2>2. s = <<>> <=> Len(s) = 0
    BY EmptySeq
  <2>3. QED
    BY <2>1, <2>2
<1>7. c = <<>> <=> e.children = <<>>
  BY <1>2, <1>5, <1>6
<1>8. e.children # <<>> => Head(c).id = Head(e.children).id
  <2> SUFFICES ASSUME e.children # <<>> PROVE Head(c).id = Head(e.children).id
    OBVIOUS
  <2>1. 1 \in DOMAIN e.children
    BY <1>2, <1>6
  <2>2. c[1].id = e.children[1].id
    BY <1>3, <2>1
  <2>3. Head(c) = c[1] /\ Head(e.children) = e.children[1]
    BY <1>2, <1>5, <1>7, HeadTailProperties
  <2>4. QED
    BY <2>2, <2>3
<1>9. Complete(e) \in Event
  BY <1>1, <1>5 DEF Event
<1>10. QED
  BY <1>1, <1>7, <1>8, <1>9 DEF ApiId

(* The events of the boards: they are not "none", and the server knows the *)
(* id that their tokens are asked for.                                     *)
LEMMA EventIs ==
  ASSUME NEW e \in Events
  PROVE  /\ e \in Event /\ e # NoEvent /\ Complete(e) # NoEvent
         /\ e.id \in Id /\ e.id # NoId /\ ApiId(e) \in Ids
<1>1. e \in Event /\ NoEvent \notin Event /\ NoId \notin Id
  BY EventAssumption DEF Events
<1>2. e.id \in Id
  BY <1>1 DEF Event
<1>3. Complete(e) \in Event
  BY <1>1, CompleteIs
<1>4. ApiId(e) \in Ids
  <2>1. CASE e.children = <<>>
    BY <2>1 DEF ApiId, Ids
  <2>2. CASE e.children # <<>>
    <3>1. e.children \in Seq(Part)
      BY <1>1 DEF Event
    <3>2. Head(e.children) = e.children[1] /\ Len(e.children) \in Nat /\ Len(e.children) # 0
      BY <2>2, <3>1, HeadTailProperties, LenProperties, EmptySeq
    <3>3. 1 \in DOMAIN e.children
      BY <3>1, <3>2, LenProperties
    <3>4. e.children[1].id \in Ids
      BY <3>3 DEF Ids
    <3>5. QED
      BY <2>2, <3>2, <3>4 DEF ApiId
  <2>3. QED
    BY <2>1, <2>2
<1>5. QED
  BY <1>1, <1>2, <1>3, <1>4

(* What is missing are ids that the server knows; where nothing is missing, *)
(* the event is complete.                                                   *)
LEMMA MissingIs ==
  ASSUME NEW e \in Events
  PROVE  /\ Missing(e) \subseteq Ids
         /\ Missing(e) = {} => Complete(e) = e
<1> DEFINE children ==
      {e.children[i].id : i \in {j \in DOMAIN e.children : ~e.children[j].loaded}}
<1>1. e \in Event /\ e.children \in Seq(Part) /\ e.loaded \in BOOLEAN
  BY EventIs DEF Event
<1>2. children \subseteq Ids
  BY DEF Ids
<1>3. ~e.loaded => e.id \in Ids
  BY GroupAssumption DEF Ids
<1>4. Missing(e) = IF children # {} THEN children ELSE IF e.loaded THEN {} ELSE {e.id}
  BY DEF Missing, MissingOfSingle
<1> HIDE DEF children
<1>5. ASSUME Missing(e) = {} PROVE Complete(e) = e
  <2>1. children = {} /\ e.loaded
    BY <1>4, <1>5
  <2>2. ASSUME NEW i \in DOMAIN e.children
        PROVE  [e.children[i] EXCEPT !.loaded = TRUE] = e.children[i]
    <3>1. e.children[i] \in Part
      BY <1>1, ElementOfSeq, LenProperties
    <3>2. e.children[i].loaded
      BY <2>1 DEF children
    <3>3. QED
      BY <3>1, <3>2 DEF Part
  <2>3. [i \in DOMAIN e.children |-> [e.children[i] EXCEPT !.loaded = TRUE]] = e.children
    <3>1. e.children = [i \in DOMAIN e.children |-> e.children[i]]
      BY <1>1, LenProperties, SeqDef
    <3>2. QED
      BY <2>2, <3>1
  <2>4. e = [id |-> e.id, loaded |-> TRUE, children |-> e.children]
    BY <1>1, <2>1 DEF Event
  <2>5. Complete(e) = [e EXCEPT !.loaded = TRUE, !.children = e.children]
    BY <2>3 DEF Complete
  <2>6. QED
    BY <2>4, <2>5
<1>6. QED
  BY <1>2, <1>3, <1>4, <1>5

-----------------------------------------------------------------------------
(* What the parts of an action keep. *)

Shown == Events \cup {Complete(e) : e \in Events} \cup {NoEvent}

BlockState == [data : Ids \cup {NoId}, loading : BOOLEAN, error : BOOLEAN]
Count == [block : Block, id : Ids, live : BOOLEAN]
TokenTypes == (\A b \in Block : blocks[b] \in BlockState) /\ counts \subseteq Count

LEMMA ShownIs ==
  ASSUME NEW s \in Shown, s # NoEvent
  PROVE  s \in Event /\ KeyOf(s) = s.id /\ s.id # NoId /\ ApiId(s) \in Ids
<1>1. PICK e \in Events : s = e \/ s = Complete(e)
  BY DEF Shown
<1>2. /\ e \in Event /\ e # NoEvent /\ Complete(e) # NoEvent
      /\ e.id \in Id /\ e.id # NoId /\ ApiId(e) \in Ids
  BY EventIs
<1>3. /\ Complete(e) \in Event /\ Complete(e).id = e.id
      /\ ApiId(Complete(e)) = ApiId(e)
  BY <1>2, CompleteIs
<1>4. QED
  BY <1>1, <1>2, <1>3 DEF KeyOf

(* A run of the effect: what is shown is the event, everything of it is    *)
(* there or on its way, and no request for another event is live.          *)
LEMMA ResolveFresh ==
  ASSUME NEW e \in Events \cup {NoEvent}, details \subseteq Detail, Resolve(e), event' = e
  PROVE  /\ resolved' = e /\ resolved' \in Shown /\ loading' \in BOOLEAN /\ error' = FALSE
         /\ DetailOfEvent' /\ DetailComplete' /\ DetailsLive'
<1>1. /\ resolved' = e /\ error' = FALSE
      /\ loading' = (e # NoEvent /\ Missing(e) # {})
      /\ details' = Cancelled(details) \cup
           (IF loading' THEN {[event |-> e, waiting |-> Missing(e), live |-> TRUE]} ELSE {})
  BY DEF Resolve
<1>2. resolved' \in Shown /\ loading' \in BOOLEAN /\ DetailOfEvent'
  BY <1>1 DEF Shown, DetailOfEvent
<1>3. e # NoEvent => Missing(e) \subseteq Ids /\ (Missing(e) = {} => Complete(e) = e)
  BY MissingIs
<1>4. DetailComplete'
  BY <1>1, <1>3 DEF DetailComplete
<1>5. \A r \in Cancelled(details) : r \in Detail /\ ~r.live
  BY DEF Cancelled, Detail
<1>6. ASSUME NEW r \in details', r \notin Cancelled(details)
      PROVE  r = [event |-> e, waiting |-> Missing(e), live |-> TRUE] /\ e \in Events
  BY <1>1, <1>6
<1>7. \A r \in details' : r \in Detail
  <2>1. ASSUME NEW r \in details', r \notin Cancelled(details) PROVE r \in Detail
    <3>1. e \in Events /\ e # NoEvent /\ Missing(e) # {}
      BY <1>1, <1>6, <2>1
    <3>2. Missing(e) \in (SUBSET Ids) \ {{}}
      BY <1>3, <3>1
    <3>3. [event |-> e, waiting |-> Missing(e), live |-> TRUE] \in Detail
      BY <3>1, <3>2 DEF Detail
    <3>4. QED
      BY <1>6, <2>1, <3>3
  <2>2. QED
    BY <1>5, <2>1
<1>8. \A r \in details' :
         r.live => r = [event |-> e, waiting |-> Missing(e), live |-> TRUE] /\ r.event = e
  BY <1>5, <1>6
<1>9. DetailsLive'
  <2>1. details' \subseteq Detail
    BY <1>7
  <2>2. \A r \in details' : r.live => r.event = resolved' /\ r.event = event'
    BY <1>1, <1>8
  <2>3. \A r, s \in details' : r.live /\ s.live => r = s
    BY <1>8
  <2>4. QED
    BY <2>1, <2>2, <2>3 DEF DetailsLive
<1>10. QED
  BY <1>1, <1>2, <1>4, <1>9

(* The token blocks after a render: of the same event, or new and empty. *)
LEMMA RemountFresh ==
  ASSUME TokenTypes, Tokens, Remount,
         KeyOf(displayEvent) = KeyOf(displayEvent')
           => \A id \in Ids : OfDisplay(id) => OfDisplay(id)'
  PROVE  TokenTypes' /\ Tokens'
<1>1. CASE KeyOf(displayEvent) = KeyOf(displayEvent')
  <2>1. blocks' = blocks /\ counts' = counts
    BY <1>1 DEF Remount, tokenVars
  <2>2. TokenTypes'
    BY <2>1 DEF TokenTypes
  <2>3. CountsLive'
    <3>1. \A r \in counts : r.id \in Ids
      BY DEF TokenTypes, Count
    <3>2. QED
      BY <1>1, <2>1, <3>1 DEF Tokens, CountsLive
  <2>4. TokensOfEvent'
    <3>1. \A b \in Block : blocks[b].data # NoId => blocks[b].data \in Ids
      BY DEF TokenTypes, BlockState
    <3>2. \A b \in Block : blocks[b].data # NoId => OfDisplay(blocks[b].data)
      BY DEF Tokens, TokensOfEvent, OfDisplay
    <3>3. \A b \in Block : blocks[b].data # NoId => OfDisplay(blocks[b].data)'
      BY <1>1, <2>1, <3>1, <3>2
    <3>4. QED
      BY <2>1, <3>3 DEF TokensOfEvent, OfDisplay
  <2>5. QED
    BY <2>2, <2>3, <2>4 DEF Tokens
<1>2. CASE KeyOf(displayEvent) # KeyOf(displayEvent')
  <2>1. blocks' = [b \in Block |-> NoBlock] /\ counts' = Cancelled(counts)
    BY <1>2 DEF Remount
  <2>2. \A b \in Block : blocks'[b] = NoBlock
    BY <2>1
  <2>3. \A r \in counts' : r \in Count /\ ~r.live
    BY <2>1 DEF TokenTypes, Cancelled, Count
  <2>4. TokenTypes'
    <3>1. NoBlock \in BlockState
      BY DEF NoBlock, BlockState
    <3>2. QED
      BY <2>2, <2>3, <3>1 DEF TokenTypes
  <2>5. CountsLive' /\ TokensOfEvent'
    BY <2>2, <2>3 DEF CountsLive, TokensOfEvent, NoBlock
  <2>6. QED
    BY <2>4, <2>5 DEF Tokens
<1>3. QED
  BY <1>1, <1>2

(* The invariant, in the parts that actions change. *)
Waits(r) == r.event \in Events /\ r.waiting \in (SUBSET Ids) \ {{}}
PanelTypes ==
  /\ board \in Boards /\ event \in Events \cup {NoEvent} /\ resolved \in Shown
  /\ due \in BOOLEAN /\ loading \in BOOLEAN /\ error \in BOOLEAN
  /\ \A r \in details : Waits(r)
CopyTypes ==
  /\ copied \in CopyKey \cup {NoKey}
  /\ copies \subseteq [n : Nat, key : CopyKey, left : 1..4]
  /\ commands \in Nat
Panel == PanelTypes /\ Selection /\ DetailOfEvent /\ DetailComplete /\ DetailsLive

LEMMA InParts == IInv <=> Panel /\ TokenTypes /\ Tokens /\ CopyTypes
BY DEF IInv, TypeOK, Panel, PanelTypes, TokenTypes, BlockState, Count, CopyTypes, Tokens, Shown,
       Waits

LEMMA InPartsNext == IInv' <=> Panel' /\ TokenTypes' /\ Tokens' /\ CopyTypes'
BY DEF IInv, TypeOK, Panel, PanelTypes, TokenTypes, BlockState, Count, CopyTypes, Tokens, Shown,
       Waits

(* While no effect is due, the display is of the selected event. *)
LEMMA DisplayIs ==
  ASSUME Panel
  PROVE  /\ displayEvent \in Shown
         /\ event = NoEvent => displayEvent = resolved
         /\ ~due => displayEvent = resolved /\ (displayEvent = NoEvent <=> event = NoEvent)
         /\ ~due /\ event # NoEvent => displayEvent.id = event.id
<1>1. event \in Shown /\ resolved \in Shown
  BY DEF Panel, PanelTypes, Shown
<1>2. displayEvent \in Shown
  BY <1>1 DEF displayEvent
<1>3. event = NoEvent => displayEvent = resolved
  BY DEF displayEvent
<1>4. event # NoEvent => event \in Events
  BY DEF Panel, PanelTypes
<1>5. event # NoEvent => /\ Complete(event) # NoEvent
                         /\ Complete(event).id = event.id
  BY <1>4, EventIs, CompleteIs
<1>6. ~due => resolved = event \/ (event # NoEvent /\ resolved = Complete(event))
  BY DEF Panel, DetailOfEvent
<1>7. QED
  BY <1>2, <1>3, <1>5, <1>6 DEF displayEvent

-----------------------------------------------------------------------------
(* Every action keeps the invariant. *)

LEMMA InitInv == Init => IInv
<1> SUFFICES ASSUME Init PROVE IInv
  OBVIOUS
<1>1. PanelTypes /\ CopyTypes
  BY DEF Init, PanelTypes, CopyTypes, Shown
<1>2. \A b \in Block : blocks[b] = NoBlock
  BY DEF Init
<1>3. NoBlock \in BlockState
  BY DEF NoBlock, BlockState
<1>4. TokenTypes
  BY <1>2, <1>3 DEF Init, TokenTypes
<1>5. Tokens
  BY <1>2 DEF Init, Tokens, CountsLive, TokensOfEvent, NoBlock
<1>6. Selection /\ DetailOfEvent /\ DetailComplete /\ DetailsLive
  BY DEF Init, Selection, DetailOfEvent, DetailComplete, DetailsLive
<1>7. QED
  BY <1>1, <1>4, <1>5, <1>6, InParts DEF Panel

(* A click selects another event, whose token blocks are new ones; or none. *)
LEMMA SelectInv ==
  ASSUME IInv, NEW e \in board \cup {NoEvent}, Select(e)
  PROVE  IInv'
<1>1. Panel /\ TokenTypes /\ Tokens /\ CopyTypes
  BY InParts
<1>2. /\ ~due /\ due' = due /\ e # event /\ event' = e
      /\ Resolve(e) /\ Remount /\ UNCHANGED <<copied, copies>>
      /\ commands' = commands + 1
      /\ e # NoEvent => board' = board
      /\ e = NoEvent => board' \in Boards
  BY DEF Select, Command, copyVars
<1>3. e \in Events \cup {NoEvent}
  BY <1>1 DEF Panel, PanelTypes, Events
<1>4. details \subseteq Detail
  BY <1>1 DEF Panel, DetailsLive
<1>5. /\ resolved' = e /\ resolved' \in Shown /\ loading' \in BOOLEAN /\ error' = FALSE
      /\ DetailOfEvent' /\ DetailComplete' /\ DetailsLive'
  BY <1>2, <1>3, <1>4, ResolveFresh
<1>6. PanelTypes'
  <2>1. board' \in Boards
    BY <1>1, <1>2 DEF Panel, PanelTypes
  <2>2. \A r \in details' : Waits(r)
    BY <1>5 DEF DetailsLive, Detail, Waits
  <2>3. due' \in BOOLEAN
    BY <1>1, <1>2 DEF Panel, PanelTypes
  <2>4. QED
    BY <1>2, <1>3, <1>5, <2>1, <2>2, <2>3 DEF PanelTypes
<1>7. Selection'
  BY <1>2 DEF Selection
<1>8. CopyTypes'
  BY <1>1, <1>2 DEF CopyTypes
<1>9. displayEvent' = e
  BY <1>2, <1>5 DEF displayEvent
<1>10. KeyOf(displayEvent) # KeyOf(displayEvent')
  <2>1. event \in board \cup {NoEvent} /\ event \in Events \cup {NoEvent} /\ board \in Boards
    BY <1>1 DEF Panel, Selection, PanelTypes
  <2>2. /\ displayEvent \in Shown
        /\ displayEvent = NoEvent <=> event = NoEvent
        /\ event # NoEvent => displayEvent.id = event.id
    BY <1>1, <1>2, DisplayIs
  <2>3. /\ displayEvent # NoEvent => KeyOf(displayEvent) = displayEvent.id /\ displayEvent.id # NoId
        /\ displayEvent = NoEvent => KeyOf(displayEvent) = NoId
    BY <2>2, ShownIs DEF KeyOf
  <2>4. /\ e # NoEvent => KeyOf(e) = e.id /\ e.id # NoId
        /\ e = NoEvent => KeyOf(e) = NoId
    BY <1>3, EventIs DEF KeyOf
  <2>5. e # NoEvent /\ event # NoEvent => e.id # event.id
    BY <1>2, <2>1, RowsAssumption
  <2>6. QED
    BY <1>2, <1>9, <2>2, <2>3, <2>4, <2>5
<1>11. TokenTypes' /\ Tokens'
  BY <1>1, <1>2, <1>10, RemountFresh
<1>12. QED
  BY <1>5, <1>6, <1>7, <1>8, <1>11, InPartsNext DEF Panel

(* A new timeline clears the selection; the panel shows the old event until *)
(* the effect has run, and what is live stays so.                           *)
LEMMA TimelineLoadedInv ==
  ASSUME IInv, TimelineLoaded
  PROVE  IInv'
<1>1. Panel /\ TokenTypes /\ Tokens /\ CopyTypes
  BY InParts
<1>2. /\ ~due /\ board' \in Boards /\ event' = NoEvent /\ due' = (event # NoEvent)
      /\ resolved' = resolved /\ loading' = loading /\ error' = error /\ details' = details
      /\ blocks' = blocks /\ counts' = counts /\ copied' = copied /\ copies' = copies
      /\ commands' = commands + 1
  BY DEF TimelineLoaded, Command, panelVars, tokenVars, copyVars
<1>3. PanelTypes' /\ Selection'
  BY <1>1, <1>2 DEF Panel, PanelTypes, Selection
<1>4. DetailOfEvent' /\ DetailComplete'
  BY <1>1, <1>2 DEF Panel, DetailOfEvent, DetailComplete
<1>5. DetailsLive'
  <2>1. /\ details \subseteq Detail
        /\ \A r \in details : r.live => r.event = resolved /\ r.event = event
        /\ \A r, s \in details : r.live /\ s.live => r = s
    BY <1>1, <1>2 DEF Panel, DetailsLive
  <2>2. QED
    BY <1>2, <2>1 DEF DetailsLive
<1>6. displayEvent' = displayEvent
  <2>1. displayEvent = resolved /\ displayEvent' = resolved
    BY <1>1, <1>2, DisplayIs DEF displayEvent
  <2>2. QED
    BY <2>1
<1>7. TokenTypes' /\ Tokens'
  BY <1>1, <1>2, <1>6 DEF TokenTypes, Tokens, CountsLive, TokensOfEvent, OfDisplay
<1>8. CopyTypes'
  BY <1>1, <1>2 DEF CopyTypes
<1>9. QED
  BY <1>3, <1>4, <1>5, <1>7, <1>8, InPartsNext DEF Panel

(* The effect runs for the cleared selection. *)
LEMMA RunEffectInv ==
  ASSUME IInv, RunEffect
  PROVE  IInv'
<1>1. Panel /\ TokenTypes /\ Tokens /\ CopyTypes
  BY InParts
<1>2. /\ due /\ due' = FALSE /\ board' = board /\ event' = event
      /\ copied' = copied /\ copies' = copies /\ commands' = commands
      /\ Resolve(event) /\ Remount
  BY DEF RunEffect, copyVars
<1>3. event = NoEvent /\ event' = NoEvent
  BY <1>1, <1>2 DEF Panel, Selection
<1>4. details \subseteq Detail /\ event \in Events \cup {NoEvent}
  BY <1>1, <1>3 DEF Panel, DetailsLive
<1>5. /\ resolved' = event /\ resolved' \in Shown /\ loading' \in BOOLEAN /\ error' = FALSE
      /\ DetailOfEvent' /\ DetailComplete' /\ DetailsLive'
  BY <1>2, <1>4, ResolveFresh
<1>6. PanelTypes' /\ Selection'
  <2>1. \A r \in details' : Waits(r)
    BY <1>5 DEF DetailsLive, Detail, Waits
  <2>2. QED
    BY <1>1, <1>2, <1>3, <1>5, <2>1 DEF Panel, PanelTypes, Selection
<1>7. displayEvent' = NoEvent
  BY <1>3, <1>5 DEF displayEvent
<1>8. ASSUME KeyOf(displayEvent) = KeyOf(displayEvent') PROVE displayEvent = NoEvent
  <2>1. KeyOf(displayEvent) = NoId
    BY <1>7, <1>8 DEF KeyOf
  <2>2. displayEvent \in Shown
    BY <1>1, DisplayIs
  <2>3. QED
    BY <2>1, <2>2, ShownIs
<1>9. KeyOf(displayEvent) = KeyOf(displayEvent') => \A id \in Ids : OfDisplay(id) => OfDisplay(id)'
  BY <1>8 DEF OfDisplay
<1>10. TokenTypes' /\ Tokens'
  BY <1>1, <1>2, <1>9, RemountFresh
<1>11. CopyTypes'
  BY <1>1, <1>2 DEF CopyTypes
<1>12. QED
  BY <1>5, <1>6, <1>10, <1>11, InPartsNext DEF Panel

(* The last part of the live request completes the selected event. *)
LEMMA DetailAnsweredInv ==
  ASSUME IInv, NEW r \in details, NEW id \in Ids, DetailAnswered(r, id)
  PROVE  IInv'
<1>1. Panel /\ TokenTypes /\ Tokens /\ CopyTypes
  BY InParts
<1> DEFINE rest == r.waiting \ {id}
           s == [r EXCEPT !.waiting = rest]
<1>2. /\ board' = board /\ event' = event /\ due' = due /\ error' = error
      /\ copied' = copied /\ copies' = copies /\ commands' = commands /\ Remount
  BY DEF DetailAnswered, copyVars
<1>3. /\ r \in Detail /\ r.event \in Events
      /\ r.live => r.event = resolved /\ (~due => r.event = event)
      /\ details \subseteq Detail
      /\ \A x \in details : x.live => x.event = resolved /\ (~due => x.event = event)
      /\ \A x, y \in details : x.live /\ y.live => x = y
  BY <1>1 DEF Panel, DetailsLive, Detail
<1>4. /\ resolved \in Shown /\ loading \in BOOLEAN /\ error \in BOOLEAN
      /\ board \in Boards /\ event \in Events \cup {NoEvent} /\ due \in BOOLEAN
  BY <1>1 DEF Panel, PanelTypes
<1>5. DetailOfEvent /\ DetailComplete /\ Selection
  BY <1>1 DEF Panel
<1>6. CASE rest # {}
  <2>1. /\ details' = (details \ {r}) \cup {s}
        /\ resolved' = resolved /\ loading' = loading
    BY <1>6 DEF DetailAnswered
  <2>2. s \in Detail /\ s.event = r.event /\ s.live = r.live
    <3>1. rest \in (SUBSET Ids) \ {{}}
      BY <1>3, <1>6 DEF Detail
    <3> HIDE DEF rest
    <3>2. QED
      BY <1>3, <3>1 DEF Detail
  <2> HIDE DEF s
  <2>3. DetailsLive'
    BY <1>2, <1>3, <2>1, <2>2 DEF DetailsLive
  <2>4. DetailOfEvent' /\ DetailComplete' /\ Selection'
    BY <1>2, <1>5, <2>1 DEF DetailOfEvent, DetailComplete, Selection
  <2>5. PanelTypes'
    <3>1. \A x \in details' : Waits(x)
      BY <2>3 DEF DetailsLive, Detail, Waits
    <3>2. QED
      BY <1>2, <1>4, <2>1, <3>1 DEF PanelTypes
  <2>6. \A x \in Ids : OfDisplay(x) => OfDisplay(x)'
    BY <1>2, <2>1 DEF OfDisplay, displayEvent
  <2>7. TokenTypes' /\ Tokens'
    BY <1>1, <1>2, <2>6, RemountFresh
  <2>8. QED
    BY <1>1, <1>2, <2>3, <2>4, <2>5, <2>7, InPartsNext DEF Panel, CopyTypes
<1>7. CASE rest = {} /\ ~r.live
  <2>1. details' = details \ {r} /\ resolved' = resolved /\ loading' = loading
    BY <1>7 DEF DetailAnswered
  <2>2. DetailsLive'
    BY <1>2, <1>3, <2>1 DEF DetailsLive
  <2>3. DetailOfEvent' /\ DetailComplete' /\ Selection'
    BY <1>2, <1>5, <2>1 DEF DetailOfEvent, DetailComplete, Selection
  <2>4. PanelTypes'
    <3>1. \A x \in details' : Waits(x)
      BY <2>2 DEF DetailsLive, Detail, Waits
    <3>2. QED
      BY <1>2, <1>4, <2>1, <3>1 DEF PanelTypes
  <2>5. \A x \in Ids : OfDisplay(x) => OfDisplay(x)'
    BY <1>2, <2>1 DEF OfDisplay, displayEvent
  <2>6. TokenTypes' /\ Tokens'
    BY <1>1, <1>2, <2>5, RemountFresh
  <2>7. QED
    BY <1>1, <1>2, <2>2, <2>3, <2>4, <2>6, InPartsNext DEF Panel, CopyTypes
<1>8. CASE rest = {} /\ r.live
  <2>1. /\ details' = details \ {r} /\ resolved' = Complete(r.event) /\ loading' = FALSE
    BY <1>8 DEF DetailAnswered
  <2>2. r.event = resolved /\ (~due => r.event = event)
    BY <1>3, <1>8
  <2>3. \A x \in details' : x \in Detail /\ ~x.live
    BY <1>3, <1>8, <2>1 DEF Detail
  <2>4. DetailsLive'
    BY <2>3 DEF DetailsLive
  <2>5. DetailOfEvent' /\ DetailComplete' /\ Selection'
    <3>1. event # NoEvent \/ due
      BY <1>3, <2>2, EventIs
    <3>2. QED
      BY <1>2, <1>5, <2>1, <2>2, <3>1 DEF DetailOfEvent, DetailComplete, Selection
  <2>6. PanelTypes'
    <3>1. resolved' \in Shown
      BY <1>3, <2>1 DEF Shown
    <3>2. \A x \in details' : Waits(x)
      BY <2>3 DEF Detail, Waits
    <3>3. QED
      BY <1>2, <1>4, <2>1, <3>1, <3>2 DEF PanelTypes
  <2>7. displayEvent = r.event /\ displayEvent' = Complete(r.event)
    <3>1. r.event # NoEvent /\ Complete(r.event) # NoEvent
      BY <1>3, EventIs
    <3>2. QED
      BY <2>1, <2>2, <3>1 DEF displayEvent
  <2>8. \A x \in Ids : OfDisplay(x) => OfDisplay(x)'
    <3>1. Complete(r.event) # NoEvent /\ ApiId(Complete(r.event)) = ApiId(r.event)
      BY <1>3, EventIs, CompleteIs
    <3>2. QED
      BY <2>7, <3>1 DEF OfDisplay
  <2>9. TokenTypes' /\ Tokens'
    BY <1>1, <1>2, <2>8, RemountFresh
  <2>10. QED
    BY <1>1, <1>2, <2>4, <2>5, <2>6, <2>9, InPartsNext DEF Panel, CopyTypes
<1>9. QED
  BY <1>3, <1>6, <1>7, <1>8 DEF Detail

(* A part that fails: the panel says so, if it still waits for it. *)
LEMMA DetailFailsInv ==
  ASSUME IInv, NEW r \in details, DetailFails(r)
  PROVE  IInv'
<1>1. Panel /\ TokenTypes /\ Tokens /\ CopyTypes
  BY InParts
<1>2. /\ details' = details \ {r}
      /\ IF r.live THEN error' = TRUE /\ loading' = FALSE ELSE error' = error /\ loading' = loading
      /\ board' = board /\ event' = event /\ due' = due /\ resolved' = resolved
      /\ blocks' = blocks /\ counts' = counts /\ copied' = copied /\ copies' = copies
      /\ commands' = commands
  BY DEF DetailFails, tokenVars, copyVars
<1>3. PanelTypes' /\ Selection' /\ DetailOfEvent'
  BY <1>1, <1>2 DEF Panel, PanelTypes, Selection, DetailOfEvent
<1>4. DetailComplete'
  BY <1>1, <1>2 DEF Panel, DetailComplete
<1>5. DetailsLive'
  BY <1>1, <1>2 DEF Panel, DetailsLive
<1>6. TokenTypes' /\ Tokens'
  BY <1>1, <1>2 DEF TokenTypes, Tokens, CountsLive, TokensOfEvent, OfDisplay, displayEvent
<1>7. QED
  BY <1>1, <1>2, <1>3, <1>4, <1>5, <1>6, InPartsNext DEF Panel, CopyTypes

(* The actions of the token blocks and of the copies leave the panel alone. *)
LEMMA PanelStays ==
  ASSUME Panel, UNCHANGED <<board, event, due, panelVars>>
  PROVE  Panel' /\ displayEvent' = displayEvent
BY DEF Panel, panelVars, PanelTypes, Selection, DetailOfEvent, DetailComplete, DetailsLive,
       displayEvent

(* A token block is opened, and asks for the event on display. *)
LEMMA OpenBlockInv ==
  ASSUME IInv, NEW b \in Block, OpenBlock(b)
  PROVE  IInv'
<1>1. Panel /\ TokenTypes /\ Tokens /\ CopyTypes
  BY InParts
<1> DEFINE new == [block |-> b, id |-> ApiId(displayEvent), live |-> TRUE]
<1>2. /\ displayEvent # NoEvent /\ blocks[b] = NoBlock
      /\ blocks' = [blocks EXCEPT ![b].loading = TRUE]
      /\ counts' = counts \cup {new}
      /\ UNCHANGED <<board, event, due, panelVars>>
      /\ copied' = copied /\ copies' = copies /\ commands' = commands + 1
  BY DEF OpenBlock, Command, copyVars
<1>3. Panel' /\ displayEvent' = displayEvent
  BY <1>1, <1>2, PanelStays
<1>4. ApiId(displayEvent) \in Ids
  BY <1>1, <1>2, DisplayIs, ShownIs
<1>5. new \in Count /\ new.id = ApiId(displayEvent)
  BY <1>4 DEF Count
<1>6. \A c \in Block : blocks'[c] \in BlockState /\ blocks'[c].data = blocks[c].data
  <2>1. TAKE c \in Block
  <2>2. blocks[c] \in BlockState
    BY <1>1 DEF TokenTypes
  <2>3. CASE c \notin DOMAIN blocks \/ c # b
    <3>1. blocks'[c] = blocks[c]
      BY <1>2, <2>3
    <3>2. QED
      BY <2>2, <3>1
  <2>4. CASE c \in DOMAIN blocks /\ c = b
    <3>1. blocks'[c] = [blocks[c] EXCEPT !.loading = TRUE]
      BY <1>2, <2>4
    <3>2. QED
      BY <2>2, <3>1 DEF BlockState
  <2>5. QED
    BY <2>3, <2>4
<1> HIDE DEF new
<1>7. TokenTypes'
  BY <1>1, <1>2, <1>5, <1>6 DEF TokenTypes
<1>8. Tokens'
  <2>1. CountsLive'
    BY <1>1, <1>2, <1>3, <1>5 DEF Tokens, CountsLive, OfDisplay
  <2>2. TokensOfEvent'
    BY <1>1, <1>3, <1>6 DEF Tokens, TokensOfEvent
  <2>3. QED
    BY <2>1, <2>2 DEF Tokens
<1>9. CopyTypes'
  BY <1>1, <1>2 DEF CopyTypes
<1>10. QED
  BY <1>3, <1>7, <1>8, <1>9, InPartsNext

(* Token data arrive, for the block that still shows their event. *)
LEMMA TokensAnsweredInv ==
  ASSUME IInv, NEW r \in counts, TokensAnswered(r)
  PROVE  IInv'
<1>1. Panel /\ TokenTypes /\ Tokens /\ CopyTypes
  BY InParts
<1>2. PICK state \in {[NoBlock EXCEPT !.data = r.id], [NoBlock EXCEPT !.error = TRUE]} :
         blocks' = IF r.live THEN [blocks EXCEPT ![r.block] = state] ELSE blocks
  BY DEF TokensAnswered
<1>3. /\ counts' = counts \ {r} /\ UNCHANGED <<board, event, due, panelVars>>
      /\ copied' = copied /\ copies' = copies /\ commands' = commands
  BY DEF TokensAnswered, copyVars
<1>4. Panel' /\ displayEvent' = displayEvent
  BY <1>1, <1>3, PanelStays
<1>5. r.id \in Ids
  BY <1>1 DEF TokenTypes, Count
<1>6. state \in BlockState /\ (state.data # NoId => state.data = r.id)
  <2>1. CASE state = [NoBlock EXCEPT !.data = r.id]
    BY <1>5, <2>1 DEF NoBlock, BlockState
  <2>2. CASE state = [NoBlock EXCEPT !.error = TRUE]
    BY <2>2 DEF NoBlock, BlockState
  <2>3. QED
    BY <1>2, <2>1, <2>2
<1>7. \A c \in Block : blocks'[c] = blocks[c] \/ (r.live /\ blocks'[c] = state)
  BY <1>2
<1>8. TokenTypes'
  BY <1>1, <1>3, <1>6, <1>7 DEF TokenTypes
<1>9. Tokens'
  <2>1. CountsLive'
    BY <1>1, <1>3, <1>4 DEF Tokens, CountsLive, OfDisplay
  <2>2. r.live => OfDisplay(r.id)
    BY <1>1 DEF Tokens, CountsLive
  <2>3. TokensOfEvent'
    BY <1>1, <1>4, <1>6, <1>7, <2>2 DEF Tokens, TokensOfEvent, OfDisplay
  <2>4. QED
    BY <2>1, <2>3 DEF Tokens
<1>10. CopyTypes'
  BY <1>1, <1>3 DEF CopyTypes
<1>11. QED
  BY <1>4, <1>8, <1>9, <1>10, InPartsNext

(* Copies. *)
LEMMA CopyInv ==
  ASSUME IInv, UNCHANGED <<board, event, due, panelVars, tokenVars>>, CopyTypes'
  PROVE  IInv'
<1>1. Panel /\ TokenTypes /\ Tokens /\ CopyTypes
  BY InParts
<1>2. Panel' /\ displayEvent' = displayEvent
  BY <1>1, PanelStays
<1>3. TokenTypes' /\ Tokens'
  BY <1>1, <1>2 DEF tokenVars, TokenTypes, Tokens, CountsLive, TokensOfEvent, OfDisplay
<1>4. QED
  BY <1>2, <1>3, InPartsNext

LEMMA CopyActionsInv ==
  ASSUME IInv, (\E key \in CopyKey : Copy(key)) \/ CopyStep \/ LabelExpires
  PROVE  IInv'
<1> DEFINE Job == [n : Nat, key : CopyKey, left : 1..4]
<1>1. CopyTypes /\ copies \subseteq Job
  BY InParts DEF CopyTypes
<1>2. ASSUME NEW key \in CopyKey, Copy(key) PROVE IInv'
  <2>1. PICK files \in IF key = Compressed THEN {2, 3} ELSE {0} :
           copies' = copies \cup {[n |-> commands', key |-> key, left |-> files + 1]}
    BY <1>2 DEF Copy
  <2>2. commands' = commands + 1 /\ copied' = copied
    BY <1>2 DEF Copy, Command
  <2>3. files \in {0, 2, 3}
    BY <2>1
  <2>4. files + 1 \in 1..4 /\ commands' \in Nat
    BY <1>1, <2>2, <2>3 DEF CopyTypes
  <2>5. [n |-> commands', key |-> key, left |-> files + 1] \in Job
    BY <2>4
  <2>6. CopyTypes'
    BY <1>1, <2>1, <2>2, <2>4, <2>5 DEF CopyTypes
  <2>7. QED
    BY <1>2, <2>6, CopyInv DEF Copy
<1>3. ASSUME NEW c \in copies, CopyContinues(c) PROVE IInv'
  <2>1. c \in Job /\ c.left \in 1..4 /\ c.key \in CopyKey
    BY <1>1
  <2>2. c.left > 1 => [c EXCEPT !.left = @ - 1] \in Job
    <3> DEFINE l == c.left
    <3>1. l > 1 => l - 1 \in 1..4
      BY <2>1
    <3>2. c.left > 1 => [c EXCEPT !.left = l - 1] \in Job
      BY <2>1, <3>1
    <3>3. QED
      BY <3>2
  <2>3. /\ copies' = (copies \ {c}) \cup (IF c.left > 1 THEN {[c EXCEPT !.left = @ - 1]} ELSE {})
        /\ copied' = IF c.left > 1 THEN copied ELSE c.key
        /\ commands' = commands
    BY <1>3 DEF CopyContinues
  <2>4. CopyTypes'
    BY <1>1, <2>1, <2>2, <2>3 DEF CopyTypes
  <2>5. QED
    BY <1>3, <2>4, CopyInv DEF CopyContinues
<1>4. ASSUME NEW c \in copies, CopyFails(c) PROVE IInv'
  <2>1. CopyTypes'
    BY <1>1, <1>4 DEF CopyFails, CopyTypes
  <2>2. QED
    BY <1>4, <2>1, CopyInv DEF CopyFails
<1>5. CASE LabelExpires
  <2>1. CopyTypes'
    BY <1>1, <1>5 DEF LabelExpires, CopyTypes
  <2>2. QED
    BY <1>5, <2>1, CopyInv DEF LabelExpires
<1>6. QED
  BY <1>2, <1>3, <1>4, <1>5 DEF CopyStep

-----------------------------------------------------------------------------
(* The invariant holds in every state. *)
THEOREM Invariant == Spec => []IInv
<1>1. IInv /\ [Next]_vars => IInv'
  <2> SUFFICES ASSUME IInv, [Next]_vars PROVE IInv'
    OBVIOUS
  <2>1. ASSUME NEW e \in board \cup {NoEvent}, Select(e) PROVE IInv'
    BY <2>1, SelectInv
  <2>2. ASSUME NEW b \in Block, OpenBlock(b) PROVE IInv'
    BY <2>2, OpenBlockInv
  <2>3. CASE TimelineLoaded
    BY <2>3, TimelineLoadedInv
  <2>4. CASE RunEffect
    BY <2>4, RunEffectInv
  <2>5. CASE DetailStep
    BY <2>5, DetailAnsweredInv, DetailFailsInv DEF DetailStep
  <2>6. CASE TokenStep
    BY <2>6, TokensAnsweredInv DEF TokenStep
  <2>7. CASE (\E key \in CopyKey : Copy(key)) \/ CopyStep \/ LabelExpires
    BY <2>7, CopyActionsInv
  <2>8. CASE UNCHANGED vars
    <3>1. CopyTypes'
      BY <2>8, InParts DEF vars, CopyTypes
    <3>2. QED
      BY <2>8, <3>1, CopyInv DEF vars, panelVars, tokenVars
  <2>9. QED
    BY <2>1, <2>2, <2>3, <2>4, <2>5, <2>6, <2>7, <2>8 DEF Next
<1>2. QED
  BY <1>1, InitInv, PTL DEF Spec

(* The panel's state has its shape, and requests are only made for ids that *)
(* the server knows (fetchTimelineEventDetail, fetchTokenBreakdown).        *)
THEOREM TypeCorrect == Spec => []TypeOK
<1>1. IInv => TypeOK
  BY DEF IInv
<1>2. QED
  BY <1>1, Invariant, PTL

(* What the panel shows is the selected event, with all its details unless *)
(* it says that it is loading or failed, and token counts are that event's *)
(* (the detail effect of DetailPanel and its token blocks).                *)
THEOREM PanelShowsEvent == Spec => []PanelOfEvent
<1>1. IInv => PanelOfEvent
  BY DEF IInv, PanelOfEvent, Tokens
<1>2. QED
  BY <1>1, Invariant, PTL
=============================================================================
