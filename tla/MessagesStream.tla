---------------------------- MODULE MessagesStream ----------------------------
(***************************************************************************)
(* One streamed answer on the Anthropic endpoint over an OpenAI upstream   *)
(* (build_openai_bridge_streaming_response of                              *)
(* src/handlers/messages_stream.py), and the message that is logged of it  *)
(* (_build_anthropic_non_stream_from_events of proxy_logging.py).          *)
(*                                                                         *)
(* The chunks of a chat completion carry deltas of reasoning, text and     *)
(* tool calls; the Anthropic stream has numbered content blocks, opened    *)
(* and closed one after the other.  The handler keeps the open block, two  *)
(* flags and a map of tool calls to block numbers.  A Codex upstream is    *)
(* collected first and streamed from the result.                           *)
(*                                                                         *)
(* The contents of a delta are named by the number of the chunk they came  *)
(* in.  A chunk has at most one tool call delta: the loop over several     *)
(* does what as many chunks would do.                                      *)
(***************************************************************************)
EXTENDS Integers, Sequences, FiniteSets

CONSTANTS
    Tool,       \* tool call indexes of the upstream
    NoTool,     \* a chunk without a tool call
    MaxChunks   \* bound on the model

ASSUME ToolAssumption == IsFiniteSet(Tool) /\ NoTool \notin Tool
ASSUME BoundAssumption == MaxChunks \in Nat

VARIABLES
    pc,             \* where the handler is
    upstream,       \* upstream_protocol
    exposeThinking, \* expose_thinking
    sent,           \* the chunks the upstream has sent
    writer,         \* the handler's local variables and the events it emitted
    error,          \* the error response, if one was set
    logged          \* non_stream_resp, as it is logged in the end

settings == <<upstream, exposeThinking>>
vars == <<pc, settings, sent, writer, error, logged>>

Chunk == {c \in [reasoning : BOOLEAN, text : {"none", "empty", "some"},
                 tool : Tool \cup {NoTool}, args : BOOLEAN] :
              c.args => c.tool # NoTool}
Silent == [reasoning |-> FALSE, text |-> "none", tool |-> NoTool, args |-> FALSE]

NoIndex == -1
Empty == 0      \* the contents of an empty delta

NoLog == [kind |-> "nothing", content |-> <<>>, stop |-> "none"]
ErrorLog == [NoLog EXCEPT !.kind = "error"]

(* type and index are current_block_type and current_block_index, thinking  *)
(* and text the flags thinking_started and text_started, tools is tool_map, *)
(* finish final_finish_reason and events down_events.                       *)
Init ==
    /\ pc = "posting"
    /\ upstream \in {"chat", "codex"}
    /\ exposeThinking \in BOOLEAN
    /\ sent = <<>>
    /\ writer = [type |-> "none", index |-> 0, thinking |-> FALSE, text |-> FALSE,
                 tools |-> {}, finish |-> "none", events |-> <<>>]
    /\ error = "none"
    /\ logged = NoLog

-----------------------------------------------------------------------------
(* What the handler emits. *)

Emit(w, event, index, type, piece) ==
    [w EXCEPT !.events = Append(@,
        [event |-> event, index |-> index, type |-> type, piece |-> piece])]

(* The message starts with the first chunk. *)
Started(w) ==
    IF w.events = <<>> THEN Emit(w, "message_start", NoIndex, "none", Empty) ELSE w

(* The open block is closed, if there is one. *)
Stopped(w) ==
    IF w.type = "none" THEN w
    ELSE [Emit(w, "content_block_stop", w.index, "none", Empty) EXCEPT !.type = "none"]

StartBlock(w, type, index) ==
    [Emit(w, "content_block_start", index, type, Empty)
        EXCEPT !.type = type, !.index = index]

(* A block of that type is open: the open one, or a new one at index. *)
\* slip: the block before is left open
OpenedOver(w, type, index) ==
    IF w.type = type THEN w ELSE StartBlock(w, type, index)
Opened(w, type, index) ==
    IF w.type = type THEN w ELSE StartBlock(Stopped(w), type, index)

Delta(w, type, piece) == Emit(w, "content_block_delta", w.index, type, piece)

ThinkingIndex(w) == IF w.thinking THEN w.index ELSE 0

AfterReasoning(w, c, piece) ==
    IF ~c.reasoning \/ ~exposeThinking THEN w
    ELSE Delta(Opened([w EXCEPT !.thinking = TRUE], "thinking", ThinkingIndex(w)),
               "thinking", piece)

One(b) == IF b THEN 1 ELSE 0

ToolIndexes(w) == {m.index : m \in w.tools}

(* The index of a text block that has to be opened. *)
TextIndex(w) ==
    IF ~w.text THEN One(w.thinking)
    ELSE IF w.tools # {}
    THEN 1 + (CHOOSE i \in ToolIndexes(w) : \A j \in ToolIndexes(w) : j <= i)
    ELSE w.index

(* An empty text is passed on once there is text. *)
AfterText(w, c, piece) ==
    IF c.text = "none" \/ (c.text = "empty" /\ ~w.text) THEN w
    ELSE Delta(Opened([w EXCEPT !.text = TRUE], "text", TextIndex(w)), "text",
               IF c.text = "some" THEN piece ELSE Empty)

(* The index of a new tool call's block. *)
\* slip: counted from the last block that was open
ToolIndexNext(w) == IF w.tools = {} THEN w.index + One(w.text) ELSE w.index + 1
ToolIndex(w) ==
    IF w.tools = {} THEN One(w.thinking) + One(w.text) ELSE w.index + 1

NewTool(w, tool) ==
    LET index == ToolIndex(w)
    IN  [StartBlock(Stopped(w), "tool_use", index)
            EXCEPT !.tools = @ \cup {[tool |-> tool, index |-> index]}]

(* The arguments of a call go to the block of its index, open or not. *)
\* slip: they go to the block that is open
AfterToolInOpen(w, c, piece) ==
    LET v == IF c.tool \in {m.tool : m \in w.tools} THEN w ELSE NewTool(w, c.tool)
    IN  IF c.tool = NoTool THEN w
        ELSE IF ~c.args THEN v ELSE Delta(v, "tool_use", piece)
AfterTool(w, c, piece) ==
    LET known == {m \in w.tools : m.tool = c.tool}
        v == IF known = {} THEN NewTool(w, c.tool) ELSE w
    IN  IF c.tool = NoTool THEN w
        ELSE IF ~c.args THEN v
        ELSE LET m == CHOOSE m \in v.tools : m.tool = c.tool
             IN  Emit(v, "content_block_delta", m.index, "tool_use", piece)

(* Reasoning after text makes the handler leave out the rest of its chunk. *)
AfterChunk(w, c, piece) ==
    LET s == Started(w)
    IN  IF c.reasoning /\ exposeThinking /\ w.text THEN s
        ELSE AfterTool(AfterText(AfterReasoning(s, c, piece), c, piece), c, piece)

StopReason(w) == IF w.finish = "tool_calls" THEN "tool_use" ELSE "end_turn"

Finished(w, stop) ==
    Emit(Emit(w, "message_delta", NoIndex, stop, Empty),
         "message_stop", NoIndex, "none", Empty)

-----------------------------------------------------------------------------
(* The message that is logged for the events. *)

Starts(events) == {k \in DOMAIN events : events[k].event = "content_block_start"}

(* What f has at the places ks, up to n, in order. *)
Gathered(f, ks, n) ==
    LET g[k \in 0..n] ==
            IF k = 0 THEN <<>>
            ELSE IF k \in ks THEN Append(g[k - 1], f[k]) ELSE g[k - 1]
    IN  g[n]

Pieces(events) == [k \in DOMAIN events |-> events[k].piece]

(* The deltas of the block that is started by event s. *)
DeltasOf(events, s) ==
    {k \in DOMAIN events :
        /\ k > s /\ events[k].event = "content_block_delta"
        /\ events[k].index = events[s].index /\ events[k].type = events[s].type
        /\ events[k].piece # Empty}

BlockFrom(events, s) ==
    [type |-> events[s].type,
     pieces |-> Gathered(Pieces(events), DeltasOf(events, s), Len(events))]

(* A block that is started again replaces the one before; deltas go to the *)
(* block of their index, where only those of its type show.                *)
BlockAt(events, i) ==
    BlockFrom(events, CHOOSE k \in Starts(events) :
                          /\ events[k].index = i
                          /\ \A l \in Starts(events) : events[l].index = i => l <= k)

(* The blocks in the order of their indexes. *)
Content(events) ==
    LET used == {events[k].index : k \in Starts(events)}
        nth(n) == CHOOSE i \in used : Cardinality({j \in used : j < i}) = n - 1
    IN  [n \in 1..Cardinality(used) |-> BlockAt(events, nth(n))]

StopOf(events) ==
    LET ends == {k \in DOMAIN events : events[k].event = "message_delta"}
    IN  IF ends = {} THEN "none" ELSE events[CHOOSE k \in ends : TRUE].type

NonStream(events) ==
    [kind |-> "message", content |-> Content(events), stop |-> StopOf(events)]

-----------------------------------------------------------------------------
(* The handler. *)

(* Everything the client needs has been emitted: the generator ends. *)
Close(w) ==
    /\ pc' = "closed"
    /\ writer' = w
    /\ logged' = NonStream(w.events)
    /\ UNCHANGED <<settings, error>>

(* The client goes away at one of the yields between writer and w. *)
CutShort(w) ==
    \E n \in Len(writer.events) + 1 .. Len(w.events) - 1 :
        Close([w EXCEPT !.events = SubSeq(@, 1, n)])

(* set_error_response.  The client gets it as the response when nothing has *)
(* been emitted; otherwise its stream just ends.                            *)
Fail(kind) ==
    /\ pc' = "closed"
    /\ error' = kind
    /\ logged' = ErrorLog
    /\ UNCHANGED <<settings, sent, writer>>

(* 406 and 429, after the report to the pool: the loop over attempts is    *)
(* left at once.                                                           *)
RateLimited == pc = "posting" /\ upstream = "chat" /\ Fail("limited")

(* Another status of 400 or more, or a collected call that failed. *)
Rejected == pc = "posting" /\ Fail("failed")

(* httpx.HTTPError, before or in the stream. *)
BreaksOff == pc # "closed" /\ upstream = "chat" /\ Fail("broken")

Connect ==
    /\ pc = "posting" /\ upstream = "chat"
    /\ pc' = "streaming"
    /\ UNCHANGED <<settings, sent, writer, error, logged>>

ReceiveChunk(c) ==
    LET w == AfterChunk(writer, c, Len(sent) + 1)
    IN  /\ pc = "streaming"
        /\ Len(sent) < MaxChunks
        /\ sent' = Append(sent, c)
        /\ \/ writer' = w /\ UNCHANGED <<pc, settings, error, logged>>
           \/ CutShort(w)

(* A finish reason; what else is in its chunk does what a chunk of its own *)
(* would do.  The last one counts.                                         *)
ReceiveFinish(reason) ==
    /\ pc = "streaming"
    /\ writer' = [Started(writer) EXCEPT !.finish = reason]
    /\ UNCHANGED <<pc, settings, sent, error, logged>>

(* [DONE], or the end of the upstream's answer. *)
EndOfStream ==
    LET w == Finished(Stopped(writer), StopReason(writer))
    IN  /\ pc = "streaming"
        /\ \/ writer.events = <<>> /\ Fail("empty")
           \/ /\ writer.events # <<>>
              /\ UNCHANGED sent
              /\ Close(w) \/ CutShort(w)

(* The client goes away while the handler waits for a chunk. *)
ClientGone ==
    /\ pc = "streaming"
    /\ writer.events # <<>>
    /\ UNCHANGED sent
    /\ Close(writer)

(* One tool call of a collected response, at index i. *)
WholeTool(w, i, piece) ==
    Stopped(Delta(StartBlock(w, "tool_use", i), "tool_use", piece))

(* A Codex response has been collected: its text, if any, is one block and  *)
(* so is each tool call.  text tells whether there is any.                  *)
Streamed(text, tools) ==
    LET first == Started(writer)
        told == IF text THEN Stopped(Delta(StartBlock(first, "text", 0), "text", 1))
                ELSE first
        after[n \in 0..Len(tools)] ==
            IF n = 0 THEN told
            ELSE WholeTool(after[n - 1], One(text) + n - 1, One(text) + n)
    IN  Finished(after[Len(tools)],
                 IF tools = <<>> THEN "end_turn" ELSE "tool_use")

Collected(text, tools) ==
    LET w == Streamed(text, tools)
        head == IF text THEN <<[Silent EXCEPT !.text = "some"]>> ELSE <<>>
    IN  /\ pc = "posting" /\ upstream = "codex"
        /\ sent' = head \o [n \in DOMAIN tools |->
               [Silent EXCEPT !.tool = tools[n], !.args = TRUE]]
        /\ Close(w) \/ CutShort(w)

(* A truncated answer without text and tool calls. *)
CollectedNothing == pc = "posting" /\ upstream = "codex" /\ Fail("empty")

ToolCalls ==
    {q \in UNION {[1..n -> Tool] : n \in 0..Cardinality(Tool)} :
        \A i, j \in DOMAIN q : q[i] = q[j] => i = j}

Next ==
    \/ RateLimited \/ Rejected \/ BreaksOff \/ Connect
    \/ \E c \in Chunk : ReceiveChunk(c)
    \/ \E reason \in {"stop", "tool_calls"} : ReceiveFinish(reason)
    \/ EndOfStream \/ ClientGone
    \/ \E text \in BOOLEAN, tools \in ToolCalls : Collected(text, tools)
    \/ CollectedNothing

Spec == Init /\ [][Next]_vars

-----------------------------------------------------------------------------
(* Properties. *)

Before(events, k, event) == {l \in 1..(k - 1) : events[l].event = event}
OpenAt(events, k) ==
    Cardinality(Before(events, k, "content_block_start"))
        - Cardinality(Before(events, k, "content_block_stop"))

(* The block started last before event k. *)
LastStart(events, k) ==
    CHOOSE l \in Before(events, k, "content_block_start") :
        \A m \in Before(events, k, "content_block_start") : m <= l

(* Whatever the order of the deltas, the stream is one message: started    *)
(* first and ended last, with blocks that open and close in turn, each     *)
(* closed under the number it was opened with and none left open.          *)
StreamWellFormed ==
    LET events == writer.events
    IN  \A k \in DOMAIN events :
          /\ events[k].event = "message_start" <=> k = 1
          /\ events[k].event = "message_stop" =>
                k = Len(events) /\ events[k - 1].event = "message_delta"
          /\ events[k].event \in {"content_block_start", "message_delta"} =>
                OpenAt(events, k) = 0
          /\ events[k].event = "content_block_stop" =>
                /\ OpenAt(events, k) = 1
                /\ events[k].index = events[LastStart(events, k)].index

(* Reasoning comes before text, and text before the tool calls. *)
PartsInOrder(chunks) ==
    \A j \in DOMAIN chunks : \A i \in 1..(j - 1) :
        /\ chunks[j].reasoning =>
              chunks[i].text # "some" /\ chunks[i].tool = NoTool
        /\ chunks[j].text # "none" /\ (\E h \in 1..j : chunks[h].text = "some") =>
              chunks[i].tool = NoTool

(* The deltas of a tool call come together. *)
ToolsInTurn(chunks) ==
    \A k \in DOMAIN chunks : \A j \in 1..(k - 1) : \A i \in 1..(j - 1) :
        chunks[i].tool = chunks[k].tool => chunks[j].tool \in {chunks[i].tool, NoTool}

(* For an upstream that sends its parts in order, the blocks are numbered  *)
(* from 0 without a gap, and every delta goes to the block that is open    *)
(* and is of its type.                                                     *)
BlocksNumbered ==
    LET events == writer.events
    IN  PartsInOrder(sent) /\ ToolsInTurn(sent) => \A k \in DOMAIN events :
          /\ events[k].event = "content_block_start" =>
                events[k].index = Cardinality(Before(events, k, "content_block_start"))
          /\ events[k].event = "content_block_delta" =>
                /\ OpenAt(events, k) = 1
                /\ events[k].index = events[LastStart(events, k)].index
                /\ events[k].type = events[LastStart(events, k)].type

(* What the upstream said: its reasoning, its text, and its tool calls in  *)
(* the order they first appeared, each with the numbers of its chunks.     *)
ReasoningIn(chunks) == {k \in DOMAIN chunks : exposeThinking /\ chunks[k].reasoning}
TextIn(chunks) == {k \in DOMAIN chunks : chunks[k].text = "some"}
CallsIn(chunks) ==
    {k \in DOMAIN chunks : /\ chunks[k].tool # NoTool
                           /\ \A l \in 1..(k - 1) : chunks[l].tool # chunks[k].tool}
ArgumentsIn(chunks, tool) == {k \in DOMAIN chunks : chunks[k].tool = tool /\ chunks[k].args}

Numbers(chunks, ks) == Gathered([k \in DOMAIN chunks |-> k], ks, Len(chunks))

BlockOf(type, pieces) ==
    IF pieces = <<>> THEN <<>> ELSE <<[type |-> type, pieces |-> pieces]>>
ToolBlocks(chunks) ==
    LET calls == Numbers(chunks, CallsIn(chunks))
    IN  [n \in DOMAIN calls |->
            [type |-> "tool_use",
             pieces |-> Numbers(chunks, ArgumentsIn(chunks, chunks[calls[n]].tool))]]
Message(chunks) ==
    BlockOf("thinking", Numbers(chunks, ReasoningIn(chunks)))
        \o BlockOf("text", Numbers(chunks, TextIn(chunks)))
        \o ToolBlocks(chunks)

(* A message that was streamed to its end is logged as the upstream said   *)
(* it, also when the deltas of several tool calls alternate: nothing is    *)
(* lost, repeated or put into another block, and the stop reason is right. *)
LoggedIsSent ==
    LET events == writer.events
        complete == events # <<>> /\ events[Len(events)].event = "message_stop"
        calls == IF upstream = "chat" THEN writer.finish = "tool_calls"
                 ELSE \E k \in DOMAIN sent : sent[k].tool # NoTool
    IN  complete /\ PartsInOrder(sent) =>
            logged = [kind |-> "message", content |-> Message(sent),
                      stop |-> IF calls THEN "tool_use" ELSE "end_turn"]
=============================================================================
