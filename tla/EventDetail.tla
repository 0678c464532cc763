----------------------------- MODULE EventDetail -----------------------------
(* The detail panel of the inspector (DetailPanel.tsx): it shows the event    *)
(* selected on the board, fetches the details a timeline leaves out, counts   *)
(* tokens when one of its two token blocks is opened, and copies texts.       *)
(*                                                                            *)
(* As in Inspector, the effect of a render that a click caused runs with it;  *)
(* after an answer it runs in a later task ("due").  A request in flight      *)
(* belongs to a run of the effect, or to a mounted token block, and is "live" *)
(* while that is.  An event is abstracted to its ids and to what is loaded.   *)
(* Bound: MaxCommands, of the reader's clicks and reloads of the timeline.    *)
EXTENDS Naturals, Sequences

CONSTANTS
  Id,             \* ids of events and of groups
  Boards,         \* sets of events that a timeline may offer
  Block,          \* the token blocks of the panel
  CopyKey,        \* texts with a copy button
  Compressed,     \* the key of the copy that is built from log files
  NoEvent, NoId, NoKey, MaxCommands

VARIABLES
  board,          \* the events on the board
  event,          \* prop: the selected event
  due,            \* the effect on [event, sessionId] did not run yet
  resolved,       \* resolvedEvent
  loading, error, \* eventLoading, eventError
  details,        \* detail requests in flight
  blocks,         \* per token block: the id its data are of, loading, error
  counts,         \* token requests in flight
  copied,         \* copiedState.key: where "copied" is shown for 3 seconds
  copies,         \* copies in progress
  commands

vars == <<board, event, due, resolved, loading, error, details, blocks, counts,
          copied, copies, commands>>
panelVars == <<resolved, loading, error, details>>
tokenVars == <<blocks, counts>>
copyVars == <<copied, copies>>

\* A row of the timeline: an event, or a group with the events in it.
Part == [id : Id, loaded : BOOLEAN]
Event == [id : Id, loaded : BOOLEAN, children : Seq(Part)]

Events == UNION Boards

ASSUME EventAssumption ==
  /\ Boards \subseteq SUBSET Event
  /\ NoEvent \notin Event /\ NoId \notin Id

\* The rows of one timeline have ids of their own.
ASSUME RowsAssumption == \A B \in Boards : \A e, f \in B : e.id = f.id => e = f

\* The page makes up groups, and nothing of the group itself is left out.
ASSUME GroupAssumption == \A e \in Events : e.children # <<>> => e.loaded

\* The ids the server knows: not those the page makes up for groups.
Ids == {e.id : e \in {f \in Events : f.children = <<>>}}
       \cup UNION {{e.children[i].id : i \in DOMAIN e.children} : e \in Events}

NoBlock == [data |-> NoId, loading |-> FALSE, error |-> FALSE]

Init ==
  /\ board \in Boards
  /\ event = NoEvent /\ due = FALSE
  /\ resolved = NoEvent /\ loading = FALSE /\ error = FALSE /\ details = {}
  /\ blocks = [b \in Block |-> NoBlock] /\ counts = {}
  /\ copied = NoKey /\ copies = {}
  /\ commands = 0
-----------------------------------------------------------------------------
\* Ids of the parts of an event whose details the timeline left out: unloaded
\* children of a group, or else the event itself.  A bug: groups are forgotten.
MissingOfSingle(e) == IF e.loaded THEN {} ELSE {e.id}
Missing(e) ==
  LET children == {e.children[i].id : i \in {j \in DOMAIN e.children : ~e.children[j].loaded}}
  IN  IF children # {} THEN children ELSE MissingOfSingle(e)

Complete(e) ==
  [e EXCEPT !.loaded = TRUE,
            !.children = [i \in DOMAIN e.children |-> [e.children[i] EXCEPT !.loaded = TRUE]]]

displayEvent == IF resolved = NoEvent THEN event ELSE resolved

\* The cleanup of the effect, and of a token block; a bug: it is forgotten.
NotCancelled(requests) == requests
Cancelled(requests) == {[r EXCEPT !.live = FALSE] : r \in requests}

\* A bug of the effect: an event with nothing to fetch leaves "loading" as it is.
ResolveStillLoading(e) ==
  /\ resolved' = e
  /\ error' = FALSE
  /\ loading' = (loading \/ (e # NoEvent /\ Missing(e) # {}))
  /\ details' = Cancelled(details) \cup
       (IF e # NoEvent /\ Missing(e) # {}
        THEN {[event |-> e, waiting |-> Missing(e), live |-> TRUE]} ELSE {})

\* The effect runs for the event e.
Resolve(e) ==
  /\ resolved' = e
  /\ error' = FALSE
  /\ loading' = (e # NoEvent /\ Missing(e) # {})
  /\ details' = Cancelled(details) \cup
       (IF loading' THEN {[event |-> e, waiting |-> Missing(e), live |-> TRUE]} ELSE {})

\* The React key of the token blocks; a bug: one for all events.
OneKey(e) == e # NoEvent
KeyOf(e) == IF e = NoEvent THEN NoId ELSE e.id

\* Blocks with another key are new ones: closed, and nothing is on its way.
Remount ==
  IF KeyOf(displayEvent) = KeyOf(displayEvent') THEN UNCHANGED tokenVars
  ELSE blocks' = [b \in Block |-> NoBlock] /\ counts' = Cancelled(counts)

Command == ~due /\ commands < MaxCommands /\ commands' = commands + 1
-----------------------------------------------------------------------------
\* A click on a card, or one that clears the selection (another session, a
\* filter) and may put other rows on the board.  The effect depends on the
\* event's identity: clicking the selected one again does nothing.
Select(e) ==
  /\ Command
  /\ e # event
  /\ event' = e
  /\ IF e = NoEvent THEN board' \in Boards ELSE UNCHANGED board
  /\ Resolve(e)
  /\ Remount
  /\ UNCHANGED <<due, copyVars>>

\* A load of the timeline is answered and clears the selection.
TimelineLoaded ==
  /\ Command
  /\ board' \in Boards
  /\ event' = NoEvent
  /\ due' = (event # NoEvent)
  /\ UNCHANGED <<panelVars, tokenVars, copyVars>>

RunEffect ==
  /\ due
  /\ due' = FALSE
  /\ UNCHANGED <<board, event, copyVars, commands>>
  /\ Resolve(event)
  /\ Remount

\* One part is answered; the event is completed when the last one is.
DetailAnswered(r, id) ==
  LET rest == r.waiting \ {id}
  IN  /\ id \in r.waiting
      /\ IF rest # {}
         THEN /\ details' = (details \ {r}) \cup {[r EXCEPT !.waiting = rest]}
              /\ UNCHANGED <<resolved, loading, error>>
         ELSE /\ details' = details \ {r}
              /\ IF r.live THEN resolved' = Complete(r.event) /\ loading' = FALSE
                           ELSE UNCHANGED <<resolved, loading>>
              /\ UNCHANGED error
      /\ UNCHANGED <<board, event, due, copyVars, commands>>
      /\ Remount

\* The first part that fails ends the request, and it is not made again.
DetailFails(r) ==
  /\ details' = details \ {r}
  /\ IF r.live THEN error' = TRUE /\ loading' = FALSE ELSE UNCHANGED <<error, loading>>
  /\ UNCHANGED <<board, event, due, resolved, tokenVars, copyVars, commands>>

\* getEventApiId: a group's tokens are those of its first event.  A bug: the
\* group's own id is sent.
ApiIdOfGroup(e) == e.id
ApiId(e) == IF e.children = <<>> THEN e.id ELSE Head(e.children).id

\* A token block is opened.  After an error it asks no more.
OpenBlock(b) ==
  /\ Command
  /\ displayEvent # NoEvent
  /\ blocks[b] = NoBlock
  /\ blocks' = [blocks EXCEPT ![b].loading = TRUE]
  /\ counts' = counts \cup {[block |-> b, id |-> ApiId(displayEvent), live |-> TRUE]}
  /\ UNCHANGED <<board, event, due, panelVars, copyVars>>

TokensAnswered(r) ==
  /\ counts' = counts \ {r}
  /\ \E state \in {[NoBlock EXCEPT !.data = r.id], [NoBlock EXCEPT !.error = TRUE]} :
       blocks' = IF r.live THEN [blocks EXCEPT ![r.block] = state] ELSE blocks
  /\ UNCHANGED <<board, event, due, panelVars, copyVars, commands>>
-----------------------------------------------------------------------------
\* Requests a copy waits for, one after the other: the compressed one for the
\* compression, the request's file and perhaps the answer's; every copy last for
\* the clipboard, while a count of tokens that fails is left out of the label.
Copy(key) ==
  /\ Command
  /\ displayEvent # NoEvent
  /\ \E files \in IF key = Compressed THEN {2, 3} ELSE {0} :
       copies' = copies \cup {[n |-> commands', key |-> key, left |-> files + 1]}
  /\ UNCHANGED <<board, event, due, panelVars, tokenVars, copied>>

CopyContinues(c) ==
  /\ copies' = (copies \ {c}) \cup (IF c.left > 1 THEN {[c EXCEPT !.left = @ - 1]} ELSE {})
  /\ copied' = IF c.left > 1 THEN copied ELSE c.key
  /\ UNCHANGED <<board, event, due, panelVars, tokenVars, commands>>

\* Any failure takes away the label, another copy's too.
CopyFails(c) ==
  /\ copies' = copies \ {c}
  /\ copied' = NoKey
  /\ UNCHANGED <<board, event, due, panelVars, tokenVars, commands>>

LabelExpires ==
  /\ copied # NoKey
  /\ copied' = NoKey
  /\ UNCHANGED <<board, event, due, panelVars, tokenVars, copies, commands>>

DetailStep == \E r \in details : DetailFails(r) \/ \E id \in Ids : DetailAnswered(r, id)
TokenStep == \E r \in counts : TokensAnswered(r)
CopyStep == \E c \in copies : CopyContinues(c) \/ CopyFails(c)

Next ==
  \/ \E e \in board \cup {NoEvent} : Select(e)
  \/ TimelineLoaded
  \/ \E b \in Block : OpenBlock(b)
  \/ \E key \in CopyKey : Copy(key)
  \/ RunEffect
  \/ DetailStep
  \/ TokenStep
  \/ CopyStep
  \/ LabelExpires

\* Every request ends and every task of the page runs.
Fairness ==
  /\ WF_vars(RunEffect) /\ WF_vars(DetailStep) /\ WF_vars(TokenStep)
  /\ WF_vars(CopyStep) /\ WF_vars(LabelExpires)

Spec == Init /\ [][Next]_vars /\ Fairness
-----------------------------------------------------------------------------
\* The panel's state has its shape, and the server is only asked for ids it knows.
TypeOK ==
  LET Shown == Events \cup {Complete(e) : e \in Events} \cup {NoEvent}
  IN  /\ board \in Boards
      /\ event \in Events \cup {NoEvent}
      /\ resolved \in Shown
      /\ {due, loading, error} \subseteq BOOLEAN
      /\ \A r \in details : r.event \in Events /\ r.waiting \in (SUBSET Ids) \ {{}}
      /\ \A b \in Block : blocks[b] \in [data : Ids \cup {NoId}, loading : BOOLEAN, error : BOOLEAN]
      /\ counts \subseteq [block : Block, id : Ids, live : BOOLEAN]
      /\ copied \in CopyKey \cup {NoKey}
      /\ copies \subseteq [n : Nat, key : CopyKey, left : 1..4]

\* The panel shows the event that is selected, whatever requests for events
\* selected before are still answered.
DetailOfEvent == ~due => resolved \in {event} \cup (IF event = NoEvent THEN {} ELSE {Complete(event)})

\* When the panel neither says that it is loading nor that loading failed, all
\* details of the selected event are there: no child of a group is left out.
DetailComplete ==
  ~due /\ ~loading /\ ~error /\ event # NoEvent => resolved = Complete(event)

\* Token counts are those of the event on display, also when the board offers
\* another group under an id it had before.
TokensOfEvent ==
  \A b \in Block : blocks[b].data # NoId
                   => displayEvent # NoEvent /\ blocks[b].data = ApiId(displayEvent)

\* The three: all that the panel shows is of the selected event, and all of it
\* is there unless the panel says otherwise.
PanelOfEvent == DetailOfEvent /\ DetailComplete /\ TokensOfEvent

\* In the end the panel waits for nothing and says so: cancelled requests leave
\* no "loading" behind and a failed part of a group does not either.
DetailSettles ==
  <>[](~due /\ ~loading /\ copied = NoKey /\ \A b \in Block : ~blocks[b].loading)
=============================================================================
