# LLM_Bridge in TLA+

LLM_Bridge is a proxy between LLM clients (Claude Code, Codex, OpenCode, OpenClaw)
and LLM upstreams. It accepts the Anthropic Messages, OpenAI Chat Completions and
OpenAI Responses protocols, converts them, forwards each request to the upstream of
its profile, and streams the answer back. For Codex upstreams it keeps a pool of
ChatGPT accounts, and puts encrypted reasoning back into later requests of a
conversation. It logs every turn to disk, and a local web page inspects the logs.

This directory models the parts of it in which interleaving, failure and ordering
decide whether the program is right. `PROJECT.json` maps every definition to its source
lines, lists the hazards and the model-checking runs, and names the theorems.

## Inventory

The proxy is one Python process: an asyncio event loop that serves requests, worker
threads for blocking calls, and one thread that cleans up logs. A second process, the
command line `manage_codex_accounts.py`, writes the same account file. The frontend is
a React program in the browser. Within the event loop a coroutine runs alone until its
next `await`: that is the grain of atomicity of the models.

| part | state | operations | interacts with |
|---|---|---|---|
| account pool (`token_auth.py`) | `codex_oauth.json`: accounts with tokens, expiry, cooldown, priority, enabled flag; default label; `_store_lock` | hand out headers (select, walk, refresh, write back), mark a rate limit, mark a rejected token, add, remove, switch, enable, disable, reorder, login-all | the OAuth server, calls, command line, start-up |
| codex calls (`codex_oauth_adapter.py`, `upstream_executor.py`) | per call: attempts with the current account, failovers | post, classify the answer, mark, back off, fail over, retry, give up | pool, upstream |
| streaming handlers (`handlers/*`) | per stream: attempt, emitted events, open content blocks | retry loops, error events, block machine, end of stream | upstream, pool, reinjection, logs |
| reinjection (`reasoning/reinject.py`, `state/memory_store.py`) | cache of decorated prefixes by session, provider, model and fingerprint | look up before the call, update after it | handlers of all protocols |
| turn logs (`turn_logging.py`, `proxy_logging.py`) | files under `logs/raw` and `logs/session`; the counter `_active` of open turns | name and register a turn, write request and response, discard a failed session, unregister | handlers, cleanup, inspector, metrics |
| log cleanup (`log_cleanup.py`) | a snapshot of `_active`, what a scan found, the bytes counted | scan, then remove from the oldest, every five minutes | turn logs |
| session inspector (`inspector/*`) | caches of summaries and timelines by directory signature; keyword presets file | list sessions, build timelines, lanes and statistics, read and write presets | logs on disk, cleanup, frontend |
| inspector page (`use-session-inspector-controller.ts`, `state/*`, `SessionList.tsx`) | query, page number, selected session and event, filters, latest request ids, a debounce timer, a copy of the presets | search, load, turn pages, select, filter, create, update and delete presets | inspector API, board, detail panel |
| inspector board (`TimelineLanes.tsx`, `EventCard.tsx`, `timeline-parser.ts`, `timeline-cluster.ts`) | scroll position and height as last measured, memoized cards, the statistics dialog | group tool events, draw a window of rows, open statistics | page |
| inspector detail panel (`DetailPanel.tsx`) | the event with its details, token blocks, copies, the viewer of log files | fetch details, count tokens, copy, open files as text or tree | inspector API, page |
| session metrics, token statistics | none (they fold over files and payloads) | | logs |
| converters (`proxy_converters.py`, `bridge/*`) | none | convert requests, responses and stream events | handlers |
| upstream routing (`upstream_config.py`) | parsed configuration | choose profile, model, effort | handlers |
| session id plugins, start and wiring, log splitting tool, client plugins | none | | |

What is hard in it:

- A refresh of an account is awaited outside the lock: two requests may spend the same
  rotating refresh token, and an operator may change or remove the account meanwhile.
- A report of a failed answer finds its account by the headers that were sent, which
  may be old.
- A call has two budgets in one loop, attempts and failovers, over a pool that other
  calls change.
- The cleanup thread looks at `_active` and at the directories at different moments,
  while requests open, write and finish; its clock is finer than the file names.
- The reinjection cache is read before an upstream call and written after it, with
  other conversations in between, and clients fork, retry and respell what they echo.
- Streams are retried after part of the answer may have gone out; events of a stream
  arrive in orders the usual upstream does not send.
- The account file is written in place and shared by two processes with a lock each.
- Caches of the inspector are keyed by a directory state that moves while it is read,
  and lanes are found by a fold over the prefixes of requests.
- The inspector page never aborts a request: answers come late, out of order, and for
  what the reader has left; the answer to a search is written into state that starts
  searches. Effects that an answer causes run in a later task, with others in between.
- Every change of a preset sends the whole list.
- A card is redrawn only when the id of its event changes; the board learns of scrolling
  later than it happens; editors and parsers are imported while what they are for moves on.

What makes each part correct:

- **Account pool**: a refresh never loses the account's grant; a report changes the
  account whose headers were used, and only it; requests never undo an operator's
  command; the default label names an account; a limited account is left.
- **Codex calls**: bounded posts; with enough failovers the upstream's limit is not passed
  on; every call ends.
- **Log cleanup**: files of an open request stay; files of a turn go together; the
  oldest go first; when a cleanup is over the limits hold; expired turns go in the end.
- **Reinjection**: the upstream is asked what the client asked; reasoning goes only
  where it came from; no turn of a lone conversation is left without its reasoning.
- **Anthropic bridge stream**: one message with blocks that open and close in turn and
  are numbered without a gap; what is logged is what the upstream said.
- **Other streaming handlers** (not modelled yet): one terminal event, the upstream's
  status kept, bounded posts.
- **Session inspector**: a timeline has all of every turn that is whole on disk; the turns
  of a lane extend one another; statistics cover the board they stand beside.
- **Inspector page**: each pane shows the latest question's answer and no other; what is
  shown is what the controls say; the page comes to rest; presets are not lost.
- **Inspector board**: rows are the timeline, cards are their rows, every row in sight
  has its card as far as the overscan goes; the dialog shows the agent that was picked.
- **Inspector detail panel**: what is shown is of the selected event and complete, or
  says that it is not; path, text and editor belong together; a copy loses nothing.

## Modules

| module | models | kind |
|---|---|---|
| `CodexAccountPool` | the pool, requests for headers, operator commands, the OAuth server | specification |
| `CodexFailover` | `collect_with_retry` over the pool (`EXTENDS CodexAccountPool`) | composition |
| `LogCleanup` | turn logging and the cleanup thread | specification |
| `ReasoningReinject` | lookup and update of the reasoning cache by overlapping conversations | specification |
| `MessagesStream` | one streamed answer on the Anthropic endpoint, and the message logged of it | specification |
| `SessionTimeline` | `get_timeline`: records, lanes, two caches, filters, statistics, with log writes and the cleanup beside it | specification |
| `StatsDialog` | the board's statistics dialog over the server's timelines (`EXTENDS SessionTimeline`) | composition |
| `LatestAnswer` | what a pane that asks a server promises, whatever order answers come in | abstract specification |
| `InspectorReducer` | the reducer of the inspector page, one operator per action | operators |
| `Inspector` | the page: effects, debounce timer, requests in flight, commands; each pane implements `LatestAnswer` | specification |
| `KeywordPresets` | the presets file, the page's copy and overlapping saves (`EXTENDS Inspector`) | composition |
| `TimelineView` | grouping of tool events, virtual window, memoized cards | specification |
| `EventDetail` | the detail panel: details, token blocks, copies | specification |
| `RequestCopy` | the path at the top of a file's text, the compressed copy of a request | operators |
| `LogFileView` | the viewer of log files with its two viewers (`EXTENDS RequestCopy`) | specification |
| `MC...` | values for the constants of TLC's instances | model checking |
| `...Proofs` | theorems and their proofs | proofs |

### CodexAccountPool

`accounts` is the list of the file as a function of labels, with the place in the list
in `pos` (0: no such account); `defaultLabel` is `default_account`. `req[r]` is the
coroutine of a request: which candidate it is at, the ones left, the tokens it read
before the refresh, the reply it got. `live` is what the OAuth server would honour,
`serial` numbers the tokens it issues. The `Priority` order and the label order are the
sort key of `_select_candidate_labels`.

One action runs from one `await` to the next. `GetHeaders` is the selection and the
walk up to the first refresh call; `ServerGrants`, `ServerRefuses`, `CallFails` and
`ReplyWithoutToken` are how that call ends; `WriteBack` is the second half of
`_get_or_refresh_account_token`, on what the file holds *then*, with the next steps of
the walk; `RefreshFailed` is its `except`, which marks a rate limit by headers read
before the call. `RateLimited` and `AuthRejected` are the two marks with the backoff
that follows. `BeginAdd`/`FinishAdd` are the two halves of a login with the minutes
between them; the other commands are one locked step each.

`limited`, `until` and `rejected` in a request, and `lost`, are history: what the
request has reported, and tokens whose reply was lost on the way. They are read by
properties and by no guard.

### CodexFailover

`loop[r]` holds the local variables of `collect_with_retry`. Each action is an action
of the pool together with what the loop does in that step, so that the calls run over
the pool's real interleavings. The upstream is a set of accounts it limits
(`Exhausted`), and may reject a token or fail otherwise at any post. `result` is how a call
ended: "served", the upstream's limit ("limited") or failure ("failed"), or the pool's
refusal: its own 429 when all enabled accounts cool down ("cooling"), its 503 when there is none
("unavailable"), and the `RuntimeError` of a walk that got no headers ("error"). `calls` and
`excused` are history: the posts so far, and whether a failover went to a rejection or
an operator put an account back into service during the call (`Excuse`).

### LogCleanup

`active` is the counter `_active`, `disk` the files, `stage` and `written` the progress
of each request through its log writes; `phase`, `begun`, `protected`, `listing`,
`seen`, `queue` and `total` are the local variables of `cleanup_logs`, and `removing` the
files its inner loop has still to unlink. A turn takes its time stamp (`Stamp`,
`turn_logging.py:83`) before it registers under the lock (`Register`, `:85-86`): the cleanup
thread may take its snapshot between the two, though nothing else of the event loop runs
(`LoopFree`). `missed` is history, the stamps that a snapshot caught there. Reading a
directory takes time: `listing` is what was there when it was opened, and the scan
finds all files that stay, and any of those that come or go meanwhile. `late` is the
part of the clock below a millisecond: `now` in `cleanup_logs` has microseconds, the
time stamps of files have not, and a comparison sees the difference. `Evict` takes the lock
and looks at `_active` again; `Unlink` then removes file by file, each of which may fail,
and lets the lock go after the last. A crash may come between any two of these steps.

### ReasoningReinject

An input is its sequence of visible items with marks that say where a reasoning item
stands. `Ask` is `_maybe_reinject_codex_reasoning` and its variant for the responses
path; `Answered` is the cache update: the key is the fingerprint of the input the
client is *expected* to send next, the value is what was sent with the answer and its
reasoning. `Fork` and `Spelt` are the client: it drops turns and sends tool calls back in JSON of
its own. The fingerprint is modelled as injective on the normalised input (SHA-256);
the store has no bound in the code and none in the model.

The two paths differ in one respect, and the model keeps it: the chat path takes the
expected input from what the client sent, the responses path from what was sent
upstream (`reinject.py:328`). A client of the responses path that does not echo
reasoning therefore stops hitting the cache from its third turn on. Nothing in the
repository promises otherwise, so `ReasoningKept` is stated for the chat path only.

### MessagesStream

`writer` holds the local variables of the handler with the events it has emitted
(`down_events`); each `After...` operator is one part of the loop's body over a chunk, in its order,
and `AfterChunk` is the body, with the `continue` that leaves out the rest of a chunk
when reasoning comes after text. `Close` is the `finally` clause with the fold that
rebuilds a message from the events; `CutShort` is a client that goes away at a `yield`
inside the step. A chunk has at most one tool call delta: the code's loop over several
does what several chunks would do. `Collected` streams a Codex answer that was collected first;
how it was collected is `CodexFailover`. Pieces of text are known by the number of the chunk they
came in, so that loss, repetition and misplacement show.

The upstream may send its deltas in any order. `StreamWellFormed` holds for all;
`BlocksNumbered` for reasoning, text and tool calls in that order, one call after the
other; `LoggedIsSent` also when the deltas of several calls alternate, since the fold
goes by index. An upstream that returns to text after tool calls, or sends an empty text along
with tool call deltas, gets blocks reopened: that is where the handler's promise ends.

### SessionTimeline and StatsDialog

`turns` is what was logged, `files` what is left on disk, `version` the modification
time of the session's directory, which is all that `session_dir_signature` looks at.
`bundle` and `filtered` are the two caches. All handlers and log writes share the event
loop and none of them awaits in between, so that `build`, a `get_timeline` under way, is
interleaved with `RemoveFile` of the cleanup thread only, between listing the directory,
reading requests, reading responses and taking the signature. (Removals *within* one of
these passes give the same outcomes as removals before it or after it.) `Matched` is the
body of the lane loop, `Timeline` the rest of `get_timeline` as operators over records.

A request is what decides its lane and whether keywords find it: the static part of its
context, the sequence of items before the last user message, and a word. Durations and
token amounts are left out: they are sums of fields nothing else depends on. A turn has at
most one event of its request. Two changes of a directory have different modification
times; on a file system with coarse clocks two changes within a tick would not.
`StatsDialog` adds the component's state (`open`, `picked`) to that; the answer is the
page's timeline at once, as late answers are `Inspector`'s subject. Clicks come between
timelines, since a click has no effect on one that is being built.

### Inspector, InspectorReducer and KeywordPresets

`ui` is the reducer's state and `due` the effects whose dependencies have changed and that
have not run. A command of the reader is rendered with its effects before the browser handles
another event: one action. After an answer the effects run in a later task, `RunEffects`,
and other answers and the timer may come first. `searches` and `loads` are the requests in
flight, each with whether its request id is still the latest. `words` stand for the five
filters that are sent; `nonTool` is applied to what was loaded. The server's listing does
not change during a run; a page number beyond its end is answered with the last page, as
`service.py` does, and the answer's number is written back.

`KeywordPresets` adds the file and the saves in flight: a call is handled by the server
(`at`) before the page handles its answer, and other saves may lie between. Ids of presets
are unique. `steady` is history: no call failed and no two overlapped. Without it presets are
lost by the design of the API, which has no version and no call for a single preset.

### TimelineView

Rows are what `groupToolEvents` makes of the timeline the server sent under the filter. The
container's `top` and `height` move at once; the component's `scrollTop` and
`viewportHeight` follow in a later event. A card is drawn again only when the id of its
event changes (the comparison given to `memo`), and cards of rows that stay keep their content.
The events of a turn are in one lane, as the server puts them. A reload may bring another
session's log, or more of this one's (`OtherLogs`). `above` is the height of what the scroll
container holds above the rows, the warnings of the load (`TimelineLanes.tsx:357-359`) and the
lane headings, which the window takes for rows (`:196`); it changes with a load and a resize.
Lengths are scaled down: rows of 2 with 2 overscan rows, for 56 and 10, below contents of 1 or 5, the
latter more than the overscan. Failures of a load are in `Inspector`.

### EventDetail, RequestCopy and LogFileView

An event of `EventDetail` is its ids and whether its details are loaded; a group has
several. Each run of the effect owns its requests, and its cleanup makes them stale.
A copy goes through stages with answers awaited in between. In `LogFileView` a file is the set of its JSON values with their lines;
`mounted` is what the effects of the viewer on screen last ran for, `imports` the modules
under way. A read goes on when the modal closes. Answers are rendered only after the
effects of the ones before; an import for a viewer that is gone is dropped by the code's flag;
log files do not change; a copy is one step there. Which of two values of one level on one line
comes first is left open, as the sort does not say.

## Runs

| run | instance | what it shows |
|---|---|---|
| `PoolRaces` | 2 labels (one listed at first), 2 requests, 1 operator with 2 commands, 2 priorities, replies may be lost; 1.4 million states | no grant is lost, a limited account is left, marks hit their sender only, commands are kept, the default is valid |
| `PoolAuthRace` | 2 labels, 2 requests | a finding, see below |
| `FailoverCalls` | 2 accounts, one limited, 2 calls, rejections, failed refreshes, 1 failover of 2 attempts each, one operator command or login-all, fairness; 227 thousand | posts are bounded, every call ends, and no client is handed the upstream's 429 unless a failover went to a rejected account or an operator put an account back into service (when all accounts cool down, the pool refuses with a 429 of its own) |
| `CleanupRaces` | 2 turns, one with session copies, limits of one file and one millisecond, failures; 4.7 million | open requests keep their files; turns that were not caught between stamp and registration go whole and oldest first, and the limits hold at the end |
| `CleanupExpiry` | 2 turns, one crash, retention 0, fairness; 617 thousand | expired turns go, also those of a process that crashed, be it while it removed them |
| `Reinject` | 2 chat conversations and one of the responses path, two of them in one context, 5 items, 3 answers, one restart; 618 thousand | requests are faithful, reasoning stays in its context, and none of a lone chat's is missing |
| `StreamBlocks` | 3 chunks of any parts, 2 tool calls, both upstreams, reasoning exposed or not, errors, breaks, clients that leave; 632 thousand | well-formed stream, numbered blocks, faithful log |
| `StatsDialog` | 3 turns of two conversations that begin alike and one without a context, every answer with two tool calls and in both forms, 2 boards of the same keywords, 2 timelines, 2 clicks, 1 removed file; 1.2 million | whole turns are shown whole, the turns of a lane extend one another, statistics cover the board and stay with the agent picked |
| `Inspector` | 2 sessions on 2 pages, 2 queries, 2 words, 2 preset ids, a file with a default that does not exist, 3 commands, fairness; 439 thousand | both panes implement `LatestAnswer`, panes agree with controls, the selection is on the board, presets settle, the page comes to rest |
| `TimelineView` | all logs of up to 4 events over 3 turns, of 5 in one turn, and one of 9, two of them to turn to later, contents of 1 or 5 above the rows; 2 commands; 2.2 million | rows, options, fresh cards, a window that covers what the overscan makes up for |
| `EventDetail` | 2 boards with a group whose members differ, both token blocks, 2 kinds of copy, 4 commands, fairness; 40 thousand | the panel is of its event and complete, and stops loading |
| `LogFileView` | 3 files, two of them JSON with images, long results and shared lines, 7 commands; 91 thousand | path, contents, editor and entries belong together; copies lose nothing |

The bounds. A refresh race needs two requests and one account, an overwritten command
one operator, a failover two accounts, and one more account than failovers to tell an
off-by-one from the right count; a token is refreshed at least once after its first
reply, so `MaxSerial` is two or three
above the first tokens. Two commands are enough to remove
an account and add its label again while a refresh is under way. The cooldown is one
tick, so that it is over within the run; in `FailoverCalls` time stands still, as
`LimitNotPassedOn` is about cooldowns that outlast a call. Cleanup needs two turns to have an
order and one file of each kind to be torn apart, and one millisecond to be before the
cleanup's own. A conversation of five items holds two answered turns and the question
of a third, so that a prefix with reasoning is found, decorated again and found again;
with several conversations each prefix may come from either, and three answers are spread over
them in every way. Three chunks
of several parts each are enough for reasoning, text, two calls, the return to any of
them and the alternation of two calls.

A lane needs a first turn, one that extends it and one that could extend either; a stale
cache needs two timelines with a change between them, and filters that differ. The dialog
needs a pick, a board that comes after it, and another click. On the page, three commands
are a choice, a second one that overtakes it and one that comes back; two questions in
flight can be answered in both orders, more add no new pair. `MaxCommands` also bounds how
often the debounce timer overtakes the effect that would replace it: without that bound
two pages of the list can replace each other for ever, each by the answer to the other,
which takes a timer that wins every time. A window has at most six rows of the nine
when overscan is on both sides; groups, their neighbours and a filter that regroups them fit
in four events. Four commands let the detail panel leave an event, come back and open a block; seven
open, close and reopen the viewer with a change of mode between.
Symmetry is used for requests and for tool call
indexes (the code compares them for equality only), and in runs without liveness.

`CHECK_DEADLOCK FALSE` is set where the model may stop as the program waits:
in the cleanup runs at the clock's bound with no request left, in the stream runs when the stream has ended, in the inspector's
runs when the reader's clicks or the timelines are used up.

Every property has a mutant in `PROJECT.json`: an operator next to the mapped one,
marked `slip:` or "A bug", with a plausible mistake in it, for which TLC finds the property
violated.

### Fairness

`FFairSpec`: a call's next step is taken in the end. Refresh calls have a client timeout
of 30 seconds, posts one of their own, and sleeps end; the event loop resumes every
coroutine. Nothing is assumed of the operator or of the clock, nor of *which* answer
comes. `FairSpec` of the cleanup: the worker thread wakes up every five minutes and
runs on, time passes, and a response ends, by a timeout or a closed connection at the
latest. Writes are not fair: a request may end before any of them. `Fairness` of
`Inspector` (in `KeywordPresets`) and of `EventDetail`: each task of the page runs (effects, timers, the label
that expires), and some request in flight is answered or fails, as a browser's requests do.
Nothing is assumed of the reader, or of the order of answers.

### Findings

- `PoolAuthRace`: the comment on `CODEX_AUTH_STATUS_CODES` (`upstream_executor.py:24`)
  says that 401 and 403 must not cool an account down. Two requests rejected on one
  account refresh it together; the second is refused for a refresh token the first has
  just spent, and `token_auth.py:839-846` marks the account that is good again as
  rate limited.

### Known cases

Cases the properties leave out by their statements, seen in the models:

- Two labels may share a ChatGPT account id. Marks find an account by id before token
  (`token_auth.py:792`), so a mark of the second label changes the first. The runs
  give each label an id of its own.
- A request stamped within the cleanup's own millisecond, and registered after the snapshot, is
  neither protected nor in the future. Answered during the scan, it may lose the files the scan met and
  keep the others. So may a request of any earlier time that has its stamp when the snapshot is taken and
  is not registered yet (`turn_logging.py:83-86` against `log_cleanup.py:81-85`): its raw request
  is written after the raw directories were read, its session copy before the session directories are. One that is still
  open at the removal is passed over (`log_cleanup.py:120`) while newer turns go. `README.md:231` of the
  repository promises "Request and response files are removed together" and "the oldest turns are
  removed until they fit" without these exceptions. `EarlierRemovedTogether`, `OldestFirst` and
  `CleanupDelivers` are what holds: of turns stamped before that millisecond and not in `missed`. Without
  `missed` in them, TLC finds the traces above. The window is a few instructions wide.
- A process that dies within the loop over the files of a turn (`log_cleanup.py:122-132`) leaves the turn half
  removed until a cleanup of the next process takes the rest (`ExpiredTurnsGo`).
- The window of the board counts what lies above the rows as rows (`TimelineLanes.tsx:196`). Every turn
  whose request has no canonical context adds a warning there (`service.py:276`). When these are taller
  than the overscan, ten rows of 56 pixels, the first rows in sight have no cards once the reader has scrolled
  that far. `WindowCovers` says how far the overscan goes, lag and contents together.
- Two conversations with one static part share a lane until they differ: lanes are
  found by prefixes alone (`service.py:300-318`), and a conversation whose turns have an empty prefix is
  joined by any other. `LanesAreChains` says what the matching does guarantee.
- Lanes are numbered by the turns on disk. After a cleanup the agent that was picked in the dialog may be
  the number of another lane; `StatsShown` compares ids only.
- Text that begins after a tool call on a stream takes the call's index
  (`messages_stream.py:420`), so the call is lost to clients and in the log.
- A turn that is cleaned up while a timeline is built may be shown until the
  directory changes again, as the signature is taken after the files were read.
- The viewer shows the log file answered last, which may be one opened before; the path says so.
- A list that is answered while the reader's next page waits for the debounce sets the page
  number back (`use-session-inspector-controller.ts:70`): the reader's click is undone.
- A lane's heading is titled "点击查看该 Agent 统计", click to see this agent's statistics
  (`TimelineLanes.tsx:377`). A lane whose only turn has no answer yet is on the board and not
  among the agents with statistics (`service.py:747`), so that its dialog falls back to the
  first agent (`TimelineLanes.tsx:83-84`) and shows another's. `StatsShown` is about agents with a tool call.
- A select whose value is not among the options of a new timeline shows its first option,
  while the filter stays as it was.
- Two operators who add one label at the same time are
  both let through, because the label is looked up before the login and not again when its
  tokens are saved (`token_auth.py:472`, `:594`); `FinishAdd` models it.

## Proofs

TLC checks the instances above; the theorems hold for all values of the constants under
the `ASSUME`s of the modules (finite sets of turns, natural bounds, account ids as a
function of labels).

- **Pool** (`CodexProofs`, with the calls over it). `TypeCorrect`. `DefaultCorrect`: the default names an account; inductive
  with the types. `CommandsKept`: no request changes place, priority or enabled flag or
  shortens a cooldown; this needs the invariant `CooldownBound` (no cooldown ends later
  than `now + Cooldown`), because a new mark overwrites a running cooldown and would
  shorten a longer one.
- **Pool, tokens and marks**. `LimitedAccountLeft` and
  `MarksHitSender` assume `DistinctIds`, that every label has an account id of its own
  (what a shared id does is under the known cases). The first rests on
  `LimitInv`: while the cooldown a request reported lasts, the pool knows of it, and neither
  the account the request is at nor those it would try next is the one it reported. The second rests on
  `TokensOwned`: a token was given to one label, whoever carries or stores it, so that the
  fallback by access token finds no other. `GrantsKept` adds `RepliesLive`: the refresh
  token of a reply on its way is honoured and, where tokens rotate, held by nothing else.
- **Failover**. `CallsUsePool`: the calls implement the pool's specification, so the
  pool's theorems hold beneath them. `PostsBounded`: with `LoopInv`, in which posts so
  far are at most `failovers * MaxRetries + attempts`, and the two counters are within
  their budgets. `FTypeCorrect`. `LimitsNotPassedOn`, under `DistinctIds`: by `SpentInv` the
  failovers of a call that is not excused were spent on as many different limited accounts,
  none of which it can be handed again; so when none remains, the account it holds is not limited. It
  covers any number of commands, where the run has one.
- **Cleanup**. The inductive invariant is `TypeOK`, `Counted` (`_active` is the number
  of open turns at each time stamp), `Stamped` (no stamp is ahead of the clock, and only turns that
  were registered have files), `Unlinking` (the files being removed are of one stamp, older than those still
  to consider, at which no request is open) and `Covered` (a request
  stamped before the running cleanup's millisecond, neither in its snapshot nor missed by it, is over, and the cleanup has
  found every file of it that is left, in what it has read or opened so far). `InFlight` follows from `Counted` alone: the
  removal looks at `_active` under the lock. `EarlierTogether` needs `Covered`, which
  is where the snapshot before the scan matters. `OldestGoFirst` too:
  an older file that is left was passed over because it was open, or stamped and not registered, at the snapshot, or is stuck.
  `CleanupDelivered` adds `Past` (a file is of a write its turn has done, so that it is not
  written again) and `Weighed` (what is left of the files seen is counted in `total`; one file
  is one byte), and that the queue of the last round is empty or below the limit.
- **Reinjection**. The inductive invariant is `TypeOK`, `CallsMatch` (a call under way
  sends what it was asked), `ClientsPlaced` (reasoning in a client's own history is in
  place) and `StoreSound` (a cached prefix has the visible items of its fingerprint,
  and its reasoning is in place for that key and context). `RequestsFaithful` and
  `ReasoningPlaced` follow. It rests on lemmas about normalised sequences, which do not
  need induction: `Normal` works item by item and commutes with concatenation and prefixes.
  `ReasoningComesBack` has an invariant of its own, `Kept`: for a conversation alone in its
  context, the cache still holds, for each answer of its history, a prefix with all marks
  up to it, or a request under way will store one. Of the prefixes that fit a request the
  code takes the longest; that there is one is shown by the well-founded order of lengths.
- **Anthropic stream** (`MessagesStreamProofs`). `StreamIsWellFormed` for chunks in any order,
  `BlocksAreNumbered` for chunks in turn, `LoggedIsWhatWasSent` for parts in order, for any number
  of chunks and tools and either upstream. The first rests on `Tracks`: the open block and its
  type, as the writer keeps them, are those of the last block begun in the events and not ended. The
  second adds `Shape` (the flags, the map of tool calls and the block number agree with the
  number of blocks begun) and `Remembers` (what flags and map say was in the chunks). Both
  properties hold of every beginning of a stream they hold of, which covers a client that
  goes away at any yield. A collected answer is streamed by a recursive function; that it has
  a value, and what it is, is shown by the least position where it would not.
  The third has an invariant of its own, `MInv`: there are a reasoning, a text and a list of calls
  that are at once what the chunks say (`Names` and the numbers gathered from them), what the events tell (`Tells`: each start
  of a block is the only one of its index, and what is gathered of its deltas is the block), and what the
  flags, the map and the open block imply (`Says`). One chunk adds the same to all three
  (`ChunkSays` for the handler, `SaidMore` for the upstream), so that the fold over the events and the message the chunks spell meet at the
  end. `Gathered` is a recursive function; lemmas give its value for one more element.
- **Inspector's detail panel** (`EventDetailProofs`). `PanelShowsEvent` for any boards and any
  number of requests, under the named assumptions of `EventDetail`: rows of one timeline differ
  in their ids (which the server derives from log file and position), and a group,
  which the page makes up, has nothing of its own to load. The invariant adds to the property that the one live request for details is
  of the selected event and waits for what is missing of it, and that live token requests carry the id of the event on display.
- **Inspector** (`InspectorProofs`; for every listing, presets file, query, set of words and number of
  commands). `PresetsTypeCorrect`. Three inductive invariants above it: `LoadInv` (a load
  marked latest is the only one and asks what was asked last; what is shown was asked;
  unless the load effect is due, it was asked for the present choice), `SearchInv` (the same for the list, with the
  debounce timer, and the page number of the list), and `SettledInv` (while calls about
  presets come one at a time, the one under way carries the list that follows from copy and
  file). Every action is first reduced to what it does to a pane: nothing, a question, or an
  answer (`MovesLoad`, `MovesSearch`), and the invariants are shown for these. From them
  `PanesImplementLatest` (the refinement), `ShownIsChosenHolds`,
  `SelectionShownHolds`, `PresetsSettledHolds`.
- **Viewer of log files** (`LogFileViewProofs`). `PathIsContents` and `ViewersAreFaithful`, for
  any files, clicks and orders of answers. The invariant says what viewer an import under way is for
  (that of the effects that ran last), that the tree has an editor or waits for one module, and
  that the raw view has the entries of its contents, none, or waits for them; a raw view that was taken
  off the screen before its effects were cleaned up may have lost its module, which is harmless as nothing but those effects comes next.
  `LaidOutAssumption` is what the path at the top of a text rests on: only the root starts on
  its first line, as `json.dump(..., indent=2)` of `proxy_logging.py` writes it, or all is on one line.
  `CopiesAreFaithful` says what a compressed copy is, value by value (`FaithfulCopy`), for any choice of
  long results. Placeholders are put in one after the other, by a fold over a set; its lemma
  (`FoldIs`) says what the copy is after any part of the set, whichever was taken first: a placeholder inside a longer one
  goes with it, or finds no object or array to be put into. So the order in which the server names the results does not matter.
  Images are replaced before, and an image inside the source of another is left (`ImagesReplaced`).
  `TreeAssumption` is that `JSON.parse` makes a tree with one value at each path.
- **Inspector's board** (`TimelineProofs`, with the lanes). `RowsAreTimeline`, `CardsAreFresh` and
  `WindowCoversSight`, for logs, runs, heights and overscans of any size. `groupToolEvents` is a
  fold; what it has made of the first `i` events (`Good`: closed rows and the open run together are
  those events, each row a run, row ids the positions they are made from) is shown of all `i` by the least position where
  it would not hold. Row ids and event ids being unique is why a card that was kept is its row's:
  the comparison given to `memo` sees the id only, and a reload draws no cards until it is over. The window is
  arithmetic of quotients, with the lag and the height above the rows as one offset that is within the overscan. `NumberedAssumption` is that `events.py` numbers the events of a kind in a turn.
- **Lanes** (`TimelineProofs`). `LanesChain`, for logs of any length with any prefixes.
  `Chained` says what the matching of the first `i` turns knows: each turn is in a lane of its
  fixed part and begins what the lane ends with, and each lane ends with the prefix of one of its turns. So
  looking at the end of a lane alone, as the code does, decides for all its turns. `LogIsTyped` says what is logged,
  read and cached; `WritesAssumption` that an answer writes response files only.
- **Timelines** (`TimelineProofs`). `TimelinesAreWhole`, for any turns, filters, removals and readers.
  `CachesAreFresh` is its invariant: a bundle or an answer whose signature is the directory's comes of
  records that have every whole turn as it is on disk (`Fresh`), once; a build under way has read
  such turns right so far (`SaysSoFar`), because a turn that is whole when the build ends was whole all
  along. The signature cannot be that of a later log: each write or removal changes it, except
  for an answer both of whose files fail, and then the turn has no tools to show (`RespondWhole`). The rest is
  about `Timeline`: the events of one turn in a flattened board are the wanted events of its record (`BoardShows`).
- **Statistics** (`TimelineProofs`). `StatsAreShown`, for any records, filters, lanes and clicks. Two parts.
  What a timeline counts: `Describes` names the scope, the lanes, the counted turns and the agents a timeline
  is made of, and from it a board has no call that is not counted for its agent
  (`CallsAreCounted`), and the sums over agents, taken one after the other, are the totals (`ToolsAddUp`, `TurnsAddUp`), because each
  lane with a call or a counted turn has one agent (`ByLabelIs`). What is cached: statistics depend on the
  keywords only (`SameKeywords`), so boards of one signature agree if they are of the same records. That is
  `CachesAgree`, with an invariant of its own: no entry is newer than the bundle, entries as new as the bundle are
  made of it, and while a directory is read the bundle is of an older one. So a build, which takes its signature last, never finds an
  entry under it. `BundleAssumption` is that no bundle is none. It says nothing of a lane without calls or counted turns, see the known cases.

Induction over data: the library's theorems of induction take an operator and cannot be used, so
`TimelineProofs` and `LogFileViewProofs` prove their own for sets (`Climbing`, `RecursionExists`, `FoldExists`, `FoldIs`, and
`SeqInduction` for sequences) from the well-founded order of the naturals; the fold of a recursive function is then within reach.

Only model-checked: everything under fairness (`CallEnds`, `ExpiredTurnsGo`, `Settles`,
`DetailSettles`), because the prover has no rule for liveness here. Every invariant and action property
of a passing run is also a theorem; `FTypeOK` is shown by its theorem only.

## What is left out, and why

- In `MessagesStream`: usage counts, message ids and the other stop reasons.
- Contents: texts, token counts, model names, HTTP headers. No property is about them.
- The OAuth dialogues (device code, browser, callback server): external; a login ends
  with tokens or fails.
- A damaged or partly written account file and the two processes that share it: planned.
- Failures of the lock or of the file system for the account file: an exception there
  ends the request and changes nothing in memory.
- Two turns in one millisecond with the same session and format, which get the same
  file names: planned with `TurnLog`. The cleanup sees them as one group already.
- Clocks set back. The log cleanup uses local time; the model's clock only advances.
- In the inspector: the texts of warnings and of failed or empty loads on the board, token breakdowns and their charts, the choice of what a compressed copy
  leaves out (the server names it, the copy is checked for any), `canonicalize.py` (how a body becomes a context), the
  widths of the side panels, texts and layout. `event-display.ts` formats texts.
- Caches that grow without a bound (`_FILTERED_TIMELINE_CACHE`, the reasoning store): the models keep
  every entry, as the code does.
- Static assets, start-up scripts, client plugins, the log splitting tool: no state that
  is shared, nothing concurrent.

## Plan

The core came first: the pool and the calls over it, whose races decide whether accounts stay
usable; the log cleanup; the reasoning cache; the Anthropic stream. The inspector, which is most of the repository's JavaScript, came second: page, presets, board, detail panel, and the server's timelines. What follows, in this order; each module comes with its MC module, a run and, where marked, proofs.

1. `StreamRetry`: the retry loops of the four streaming paths and of `post_with_retry`,
   as one machine with a profile per path: posts, emitted events, marks, terminal
   events, status. Properties: posts bounded, one terminal event, the status of the last answer
   is the client's, nothing is emitted before a retry, a limit is retried as
   `README.md:33` promises. Composed with `CodexAccountPool` for the responses path, whose loop
   fetches headers inside the stream. *Proofs*: bounded posts, type.
2. An abstract `ContentBlocks` (open, delta, close in index order) that `MessagesStream` implements.
3. `StoreFile`: two processes, a file written in place, crashes; against an abstract
   atomic store as PROPERTY.
4. `TurnLog`: names, collisions, discards, what metrics read.
5. `StartupLogin`, `ProfileResolution`, the pairing of tool calls in the converters:
   smaller machines and operators checked over bounded inputs.
