--------------------------- MODULE SessionTimeline --------------------------
(* The server's side of a timeline (inspector/service.py): the log files of   *)
(* one session, read into records and kept in two caches, the assignment of   *)
(* turns to lanes (agents), and the statistics of the turns that pass the     *)
(* keywords.                                                                  *)
(*                                                                            *)
(* Log writes and timelines run on the event loop, one after the other; only  *)
(* the cleanup thread (LogCleanup) removes files while a timeline is built.   *)
(* The directory's signature is its modification time, which every new or     *)
(* removed file changes: "version" counts these changes.  A request is the    *)
(* fixed part of its context, the items before what the user said last        *)
(* ("prefix"), and what was said, which with the tools called later is all    *)
(* that keywords look at.                                                     *)
(* Bounds: the turns of the session, Len(Requests); MaxRemoved, the files     *)
(* removed; MaxAnswers, the timelines asked for.                              *)
EXTENDS Naturals, FiniteSets, Sequences, SequencesExt, FiniteSetsExt

CONSTANTS
  Requests,       \* per turn the requests it may be for: [static, prefix, word]
  Fallback,       \* static parts of requests no context can be made of
  Calls,          \* sequences of tools that an answer may call
  Writes,         \* files of an answer that are written
  Filters,        \* what a reader may ask for
  AnyLane, AnyTool, NoStatic, NoWord, NoTool, NoBundle, NoTimeline, NoFilters,
  MaxRemoved, MaxAnswers

ASSUME CallsAssumption == \A c \in Calls : c \in Seq(Range(c))

ASSUME RequestsAssumption ==
  /\ Requests \in Seq(Range(Requests))
  /\ \A r \in UNION Range(Requests) : r.prefix \in Seq(Range(r.prefix)) /\ r.word # NoWord /\ r.static # NoStatic

\* What is read of a turn.
Asked == UNION Range(Requests)
Static == {r.static : r \in Asked} \cup {NoStatic}
Item == UNION {Range(r.prefix) : r \in Asked}
ReadState == {"absent", "listed", "gone", "read"}
Record == [turn : Nat, tools : Calls \cup {<<>>}, static : Static, prefix : Seq(Item),
           word : {r.word : r \in Asked} \cup {NoWord}, non_stream : ReadState, downstream : ReadState]

ASSUME BundleAssumption == NoBundle \notin [signature : Nat, records : Seq(Record)]

VARIABLES
  turns,          \* by time stamp: request, tools called, is it open, files written
  files,          \* per turn: those of its session files that exist
  version,        \* the directory's modification time
  bundle,         \* _RAW_TIMELINE_CACHE of the session
  filtered,       \* _FILTERED_TIMELINE_CACHE: filters, signature, payload
  build,          \* get_timeline under way: its step and what it has read
  answer          \* the last answer: its number, filters and payload

serverVars == <<turns, files, version, bundle, filtered, build, answer>>
logVars == <<turns, files, version>>
cacheVars == <<bundle, filtered, answer>>

Response == {"downstream", "non_stream"}

ASSUME WritesAssumption == Writes \subseteq SUBSET Response

ServerInit ==
  /\ turns = <<>> /\ files = <<>> /\ version = 0
  /\ bundle = NoBundle /\ filtered = {}
  /\ build = [step |-> "none", filters |-> NoFilters, records |-> <<>>]
  /\ answer = [n |-> 0, filters |-> NoFilters, timeline |-> NoTimeline]
-----------------------------------------------------------------------------
\* Prefix-chain matching.  A lane's key is its static part and a number; "last"
\* is the longest prefix of the lane, which the next one has to extend.
Extends(lane, r) == lane.static = r.static /\ IsPrefix(lane.last, r.prefix)

\* The index of the lane with the longest of those that fit, the first of equals;
\* 0 if none fits.
BestLane(lanes, r) ==
  LET fits == {i \in DOMAIN lanes : Extends(lanes[i], r)}
      longest == {i \in fits : \A j \in fits : Len(lanes[j].last) <= Len(lanes[i].last)}
  IN  IF fits = {} THEN 0 ELSE Min(longest)

\* A bug: the lane keeps the prefix it was opened with.
LaneJoinedUnchanged(lanes, i, r) == lanes
LaneJoined(lanes, i, r) == [lanes EXCEPT ![i].last = r.prefix]

\* acc.of is the lane of each record so far.
Matched(acc, r) ==
  LET best == BestLane(acc.lanes, r)
  IN  IF r.static \in Fallback THEN [acc EXCEPT !.of = Append(@, <<r.static, 0>>)]
      ELSE IF best # 0
           THEN [lanes |-> LaneJoined(acc.lanes, best, r),
                 of |-> Append(acc.of, <<r.static, best>>)]
           ELSE [lanes |-> Append(acc.lanes, [static |-> r.static, last |-> r.prefix]),
                 of |-> Append(acc.of, <<r.static, Len(acc.lanes) + 1>>)]

\* The lane of each record.  Labels number the lanes as they first appear.
LanesOf(records) ==
  LET acc[i \in 0..Len(records)] ==
        IF i = 0 THEN [lanes |-> <<>>, of |-> <<>>] ELSE Matched(acc[i - 1], records[i])
  IN  acc[Len(records)].of

ByLabel(lanes, chosen) ==
  LET shown[i \in 0..Len(lanes)] ==
        IF i = 0 THEN <<>>
        ELSE IF lanes[i] \in chosen \ Range(shown[i - 1]) THEN Append(shown[i - 1], lanes[i])
        ELSE shown[i - 1]
  IN  shown[Len(lanes)]
-----------------------------------------------------------------------------
\* A record says of each response file "absent", "gone" (it could not be read,
\* which counts as an empty object) or "read".
Shown(r) == IF r.non_stream # "absent" THEN r.non_stream ELSE r.downstream

\* The events of a turn: kind and tool.  An error, or an answer that is gone and
\* has a downstream file, is a status.
RequestEvents(r) == IF r.word = NoWord THEN <<>> ELSE <<[kind |-> "request", tool |-> NoTool]>>
ResponseEvents(r) ==
  IF Shown(r) = "read"
  THEN IF r.tools = <<>> THEN <<[kind |-> "text", tool |-> NoTool]>>
       ELSE [i \in DOMAIN r.tools |-> [kind |-> "tool_call", tool |-> r.tools[i]]]
  ELSE IF r.downstream # "absent" THEN <<[kind |-> "status", tool |-> NoTool]>> ELSE <<>>

Words(r) ==
  ({r.word} \ {NoWord}) \cup (IF Shown(r) = "read" THEN Range(r.tools) ELSE {})

\* _turn_passes_keyword_filter; a turn without events is in no scope.
Passes(r, f) ==
  /\ RequestEvents(r) \o ResponseEvents(r) # <<>>
  /\ Words(r) \cap f.qNot = {}
  /\ f.q = {} \/ Words(r) \cap f.q # {}

TurnEvents(r, lane) ==
  LET all == RequestEvents(r) \o ResponseEvents(r)
  IN  [i \in DOMAIN all |-> [turn |-> r.turn, n |-> i, lane |-> lane,
                             kind |-> all[i].kind, tool |-> all[i].tool]]

\* The elements of s that are in S, in their order.
Among(s, S) ==
  LET kept[i \in 0..Len(s)] ==
        IF i = 0 THEN <<>>
        ELSE IF s[i] \in S THEN Append(kept[i - 1], s[i]) ELSE kept[i - 1]
  IN  kept[Len(s)]

Scope(records, lanes, f) ==
  FlattenSeq([i \in DOMAIN records |->
                IF Passes(records[i], f) THEN TurnEvents(records[i], lanes[i]) ELSE <<>>])

\* The filters on single events.
Wanted(e, f) ==
  /\ f.nonTool \/ e.kind = "tool_call"
  /\ f.agent \in {AnyLane, e.lane}
  /\ f.tool = AnyTool \/ e.tool = f.tool

Board(scope, f) == Among(scope, {e \in Range(scope) : Wanted(e, f)})

\* Response files whose usage is counted: one kind for the whole session.
Counted(records, r) ==
  IF \E i \in DOMAIN records : records[i].non_stream # "absent"
  THEN r.non_stream # "absent" ELSE r.downstream # "absent"

\* Events that tool statistics are made of; a bug: those of the board.
StatsOfBoard(events, f) == Among(events, {e \in Range(events) : e.kind = "tool_call" /\ Wanted(e, f)})
StatsEvents(events, f) == Among(events, {e \in Range(events) : e.kind = "tool_call"})

OfLane(events, lane) == Among(events, {e \in Range(events) : e.lane = lane})
OfTool(events, tool) == Among(events, {e \in Range(events) : e.tool = tool})

Tally(events) == [tool \in {e.tool : e \in Range(events)} |-> Len(OfTool(events, tool))]

\* Lanes with statistics: those of counted turns and of tool calls.  A bug: only
\* the former.
AgentIdsCounted(ofCounted, ofCalls) == ofCounted
AgentIds(ofCounted, ofCalls) == ofCounted \cup ofCalls

\* The payload of get_timeline.
Timeline(records, f) ==
  LET lanes == LanesOf(records)
      scope == Scope(records, lanes, f)
      events == Board(scope, f)
      calls == StatsEvents(scope, f)
      counted == {i \in DOMAIN records : Passes(records[i], f) /\ Counted(records, records[i])}
      agent(l) == [lane |-> l,
                   turns |-> Cardinality({i \in counted : lanes[i] = l}),
                   calls |-> Tally(OfLane(calls, l))]
      agents == ByLabel(lanes, AgentIds({lanes[i] : i \in counted}, {e.lane : e \in Range(calls)}))
  IN  [events |-> events,
       lanes |-> ByLabel(lanes, {e.lane : e \in Range(events)}),
       turns |-> Cardinality(counted),
       calls |-> Tally(calls),
       agents |-> [i \in DOMAIN agents |-> agent(agents[i])]]
-----------------------------------------------------------------------------
Idle == build.step = "none"

\* log_request_phase
BeginTurn(r) ==
  /\ Idle
  /\ turns' = Append(turns, [request |-> r, tools |-> <<>>, open |-> TRUE, written |-> {"req"}])
  /\ files' = Append(files, {"req"})
  /\ version' = version + 1
  /\ UNCHANGED <<cacheVars, build>>

\* log_response_phase; the write of either file may fail.
Respond(t, tools, kinds) ==
  /\ Idle /\ turns[t].open
  /\ turns' = [turns EXCEPT ![t].tools = tools, ![t].open = FALSE, ![t].written = @ \cup kinds]
  /\ files' = [files EXCEPT ![t] = @ \cup kinds]
  /\ version' = IF kinds = {} THEN version ELSE version + 1
  /\ UNCHANGED <<cacheVars, build>>

\* A failed request is taken out of the session's log.
Discard(t) ==
  /\ Idle /\ turns[t].open
  /\ turns' = [turns EXCEPT ![t].open = FALSE, ![t].written = {}]
  /\ files' = [files EXCEPT ![t] = {}]
  /\ version' = version + 1
  /\ UNCHANGED <<cacheVars, build>>

\* The cleanup thread, at any time: a turn that is not open loses its files.
Removed == UNION {{t} \X (turns[t].written \ files[t]) : t \in DOMAIN turns}

RemoveFile(t, f) ==
  /\ ~turns[t].open
  /\ Cardinality(Removed) < MaxRemoved
  /\ f \in files[t]
  /\ files' = [files EXCEPT ![t] = @ \ {f}]
  /\ version' = version + 1
  /\ UNCHANGED <<turns, cacheVars, build>>
-----------------------------------------------------------------------------
\* The entry of the second cache that get_timeline may use.  A bug: the
\* signature is not part of the key.
EntriesAnySignature(f, signature) == {e \in filtered : e.filters = f}
Entries(f, signature) == {e \in filtered : e.filters = f /\ e.signature = signature}

\* The end of get_timeline, given the bundle.
Answer(f, b) ==
  LET cached == Entries(f, b.signature)
      timeline == IF cached # {} THEN (CHOOSE e \in cached : TRUE).timeline
                  ELSE Timeline(b.records, f)
  IN  /\ filtered' = IF cached # {} THEN filtered
                     ELSE filtered \cup {[filters |-> f, signature |-> b.signature,
                                          timeline |-> timeline]}
      /\ answer' = [n |-> answer.n + 1, filters |-> f, timeline |-> timeline]

\* May the cached bundle be used?  A bug: always.
AlwaysValid(b) == b # NoBundle
Valid(b) == b # NoBundle /\ b.signature = version

\* The listing of the directory: turns with a request file.
ListedFile(t, kind) == IF kind \in files[t] THEN "listed" ELSE "absent"

Listing ==
  LET listed[t \in 0..Len(files)] ==
        IF t = 0 THEN <<>>
        ELSE IF "req" \notin files[t] THEN listed[t - 1]
        ELSE Append(listed[t - 1],
               [turn |-> t, tools |-> turns[t].tools,
                static |-> NoStatic, prefix |-> <<>>, word |-> NoWord,
                non_stream |-> ListedFile(t, "non_stream"),
                downstream |-> ListedFile(t, "downstream")])
  IN  listed[Len(files)]

\* get_timeline with a valid bundle, or without one.
Ask(f) ==
  /\ Idle /\ answer.n < MaxAnswers
  /\ \/ /\ Valid(bundle)
        /\ Answer(f, bundle)
        /\ UNCHANGED <<logVars, bundle, build>>
     \/ /\ ~Valid(bundle)
        /\ build' = [step |-> "listed", filters |-> f,
                     records |-> Listing]
        /\ UNCHANGED <<logVars, cacheVars>>

\* A request that has been removed since then is an empty object.
ReadRequests ==
  /\ build.step = "listed"
  /\ build' = [build EXCEPT !.step = "requests", !.records =
       [i \in DOMAIN build.records |->
          LET r == build.records[i]
              request == turns[r.turn].request
          IN  IF "req" \in files[r.turn]
              THEN [r EXCEPT !.static = request.static, !.prefix = request.prefix,
                             !.word = request.word]
              ELSE r]]
  /\ UNCHANGED <<logVars, cacheVars>>

ReadFile(state, there) == IF state = "absent" THEN "absent" ELSE IF there THEN "read" ELSE "gone"

ReadResponses ==
  /\ build.step = "requests"
  /\ build' = [build EXCEPT !.step = "responses", !.records =
       [i \in DOMAIN build.records |->
          LET r == build.records[i]
          IN  [r EXCEPT !.non_stream = ReadFile(@, "non_stream" \in files[r.turn]),
                        !.downstream = ReadFile(@, "downstream" \in files[r.turn])]]]
  /\ UNCHANGED <<logVars, cacheVars>>

\* The signature is taken after all has been read.
Finish ==
  /\ build.step = "responses"
  /\ bundle' = [signature |-> version, records |-> build.records]
  /\ Answer(build.filters, bundle')
  /\ build' = [build EXCEPT !.step = "none", !.filters = NoFilters, !.records = <<>>]
  /\ UNCHANGED logVars

LogStep ==
  \/ Len(turns) < Len(Requests) /\ \E r \in Requests[Len(turns) + 1] : BeginTurn(r)
  \/ \E t \in DOMAIN turns, c \in Calls, kinds \in Writes : Respond(t, c, kinds)
  \/ \E t \in DOMAIN turns : Discard(t)
  \/ \E t \in DOMAIN turns, f \in Response \cup {"req"} : RemoveFile(t, f)

TimelineStep ==
  \/ \E f \in Filters : Ask(f)
  \/ ReadRequests
  \/ ReadResponses
  \/ Finish
-----------------------------------------------------------------------------
\* Turns that nothing was removed of.
Kept(t) == "req" \in files[t] /\ files[t] = turns[t].written

KeptFile(t, kind) == IF kind \in files[t] THEN "read" ELSE "absent"
KeptRecord(t) ==
  [turn |-> t, tools |-> turns[t].tools, word |-> turns[t].request.word,
   non_stream |-> KeptFile(t, "non_stream"), downstream |-> KeptFile(t, "downstream")]

OfTurn(events, t) == Among(events, {e \in Range(events) : e.turn = t})

\* The lane a timeline shows a turn in.
LaneOf(timeline, t) ==
  LET own == OfTurn(timeline.events, t)
  IN  IF own = <<>> THEN AnyLane ELSE Head(own).lane

\* Of each turn that is whole on disk and passes the keywords, a timeline has the
\* events of its request and answer.
ShowsTurns(timeline, f) ==
  \A t \in DOMAIN turns : Kept(t) /\ Passes(KeptRecord(t), f) =>
    OfTurn(timeline.events, t) = Board(TurnEvents(KeptRecord(t), LaneOf(timeline, t)), f)

\* An answer without a filter for an agent or a tool has, of each turn that is
\* whole on disk and passes the keywords, the events of its request and answer:
\* whatever was cached before, under whichever filters, and whatever the cleanup
\* removes while the directory is read.
TimelineWhole ==
  [][LET f == answer'.filters
     IN  answer'.n > answer.n /\ answer'.timeline # NoTimeline /\ f.agent = AnyLane /\ f.tool = AnyTool =>
           ShowsTurns(answer.timeline, answer.filters)']_serverVars

\* Turn j and the turns before it in a lane.
Earlier(of, j, lane) == {i \in 1..j - 1 : of[i] = lane}
Continues(rs, of, j, lane) ==
  \A i \in Earlier(of, j, lane) : rs[i].static = rs[j].static /\ IsPrefix(rs[i].prefix, rs[j].prefix)
SharedWith(rs, of, j, lane) == Max({Len(rs[i].prefix) : i \in Earlier(of, j, lane)})
InChain(rs, of, j) ==
  /\ Continues(rs, of, j, of[j])
  /\ \A lane \in {of[i] : i \in 1..j - 1} :
       Continues(rs, of, j, lane) =>
         Earlier(of, j, of[j]) # {} /\ SharedWith(rs, of, j, lane) <= SharedWith(rs, of, j, of[j])

\* The lanes of the bundle: the prefixes of a lane grow; a turn that opens a lane
\* extends no lane there was, and one that joins a lane joins the one that shares
\* most with it.
LanesAreChains ==
  bundle # NoBundle =>
    LET rs == bundle.records
    IN  \A j \in DOMAIN rs : rs[j].static \notin Fallback => InChain(rs, LanesOf(rs), j)

\* The sum of a sequence of numbers.
Total(counts) ==
  LET sum[i \in 0..Len(counts)] == IF i = 0 THEN 0 ELSE sum[i - 1] + counts[i]
  IN  sum[Len(counts)]

\* Every tool call on the board is counted for its agent; so are those that the
\* filters for agents and tools keep off the board, but no others.
CallsCounted(t, f) ==
  LET Called(lane, tool) ==
        {e \in Range(t.events) : e.kind = "tool_call" /\ e.lane = lane /\ e.tool = tool}
      OnBoard(lane, tool) == Len(Among(t.events, Called(lane, tool)))
  IN  /\ \A e \in Range(t.events) : e.kind = "tool_call" =>
           \E a \in Range(t.agents) : a.lane = e.lane /\ e.tool \in DOMAIN a.calls
      /\ \A a \in Range(t.agents) : \A tool \in DOMAIN a.calls :
           /\ OnBoard(a.lane, tool) <= a.calls[tool]
           /\ f.agent = AnyLane /\ f.tool = AnyTool => OnBoard(a.lane, tool) = a.calls[tool]

\* There is one line of statistics for an agent, and the lines add up.
StatsAddUp(t) ==
  LET CallsOf(a, tool) == IF tool \in DOMAIN a.calls THEN a.calls[tool] ELSE 0
  IN  /\ \A i, j \in DOMAIN t.agents : t.agents[i].lane = t.agents[j].lane => i = j
      /\ \A tool \in DOMAIN t.calls :
           t.calls[tool] = Total([i \in DOMAIN t.agents |-> CallsOf(t.agents[i], tool)])
      /\ t.turns = Total([i \in DOMAIN t.agents |-> t.agents[i].turns])

\* They are the same for all boards of one state of the log and the same keywords.
StatsOfScope ==
  \A d, e \in filtered :
    d.signature = e.signature /\ d.filters.q = e.filters.q /\ d.filters.qNot = e.filters.qNot
    => d.timeline.calls = e.timeline.calls /\ d.timeline.agents = e.timeline.agents

\* The statistics beside a board.
StatsCoverBoard ==
  /\ answer.timeline # NoTimeline =>
       CallsCounted(answer.timeline, answer.filters) /\ StatsAddUp(answer.timeline)
  /\ StatsOfScope
=============================================================================
