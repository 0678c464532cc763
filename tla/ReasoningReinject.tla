-------------------------- MODULE ReasoningReinject --------------------------
(***************************************************************************)
(* How encrypted reasoning comes back into later requests                  *)
(* (src/reasoning/reinject.py with src/state/memory_store.py).             *)
(*                                                                         *)
(* Clients of the chat and messages endpoints never see the reasoning      *)
(* items a Codex upstream returns; clients of the responses endpoint see   *)
(* them and may send them back or not.  The proxy remembers, for the       *)
(* context a client is expected to send next, the input with the reasoning *)
(* in it, and sends that instead when the client's context matches: the    *)
(* fingerprint is taken of everything before the trailing user items.  The *)
(* lookup happens before the upstream call and the update after it, so     *)
(* calls of several clients on one key overlap in any order.               *)
(*                                                                         *)
(* An input is the sequence of its visible items together with its marks:  *)
(* a mark says that reasoning number serial stands after the first at      *)
(* visible items.                                                          *)
(***************************************************************************)
EXTENDS Integers, Sequences, FiniteSets

CONSTANTS
    Thread,      \* client conversations
    KeyOf,       \* (session, provider, model) of a conversation
    NoSession,   \* the key of a conversation without a session id
    ContextOf,   \* its instructions, tools, tool choice, effort and include
    PathOf,      \* "chat" (and messages) or "responses"
    Text,        \* what users and the upstream say
    MaxItems, MaxAnswers, MaxRestarts   \* bounds on the model

ASSUME PathAssumption == PathOf \in [Thread -> {"chat", "responses"}]
ASSUME BoundAssumption ==
    MaxItems \in Nat /\ MaxAnswers \in Nat /\ MaxRestarts \in Nat

VARIABLES
    hist,     \* the conversation, as the client has it
    call,     \* the request of a conversation that is under way
    store,    \* _REASONING_STORE
    issued,   \* reasoning the upstream has returned, in order
    mine,     \* marks of the turns in hist that were answered since the start
    answers,   \* answers and restarts so far
    restarts

counters == <<answers, restarts>>
vars == <<hist, call, store, issued, mine, counters>>

(* A client may spell the JSON of a tool call in another way than the      *)
(* upstream did.                                                           *)
Item == [role : {"user", "assistant"}, text : Text, spelling : {"as sent", "respelt"}]
Mark == [at : Nat, serial : Nat]
Input == [visible : Seq(Item), marks : SUBSET Mark]
NoInput == [visible |-> <<>>, marks |-> {}]

Call == [on : BOOLEAN, asked : Input, sent : Input]
NoCall == [on |-> FALSE, asked |-> NoInput, sent |-> NoInput]

(* One cached prefix: what the fingerprint was taken of, and the prefix    *)
(* with its reasoning.                                                     *)
Fingerprint == [context : {ContextOf[t] : t \in Thread}, prefix : Input]
Entry == [key : {KeyOf[t] : t \in Thread}, fp : Fingerprint, decorated : Input]

Issue == [key : {KeyOf[t] : t \in Thread},
          context : {ContextOf[t] : t \in Thread}, visible : Seq(Item)]

TypeOK ==
    /\ hist \in [Thread -> Input]
    /\ call \in [Thread -> Call]
    /\ store \subseteq Entry
    /\ \A e, f \in store : e.key = f.key /\ e.fp = f.fp => e = f
    /\ issued \in Seq(Issue)
    /\ mine \in [Thread -> SUBSET Mark]
    /\ answers \in Nat /\ restarts \in Nat

Init ==
    /\ hist = [t \in Thread |-> NoInput]
    /\ call = [t \in Thread |-> NoCall]
    /\ store = {}
    /\ issued = <<>>
    /\ mine = [t \in Thread |-> {}]
    /\ answers = 0 /\ restarts = 0

-----------------------------------------------------------------------------
(* _codex_context_fingerprint: tool arguments and outputs are re-encoded. *)
Plain(item) == [item EXCEPT !.spelling = "as sent"]
Normal(s) == [i \in 1..Len(s) |-> Plain(s[i])]
\* slip: the JSON of tool calls is compared as it is
FingerprintAsSpelt(t, prefix) == [context |-> ContextOf[t], prefix |-> prefix]
\* slip: only the input is looked at
FingerprintOfInput(t, prefix) ==
    [context |-> ContextOf[CHOOSE u \in Thread : TRUE],
     prefix |-> [prefix EXCEPT !.visible = Normal(@)]]
FingerprintOf(t, prefix) ==
    [context |-> ContextOf[t],
     prefix |-> [prefix EXCEPT !.visible = Normal(@)]]

(* The input without its trailing user items ends with an answer or with a *)
(* reasoning item.                                                         *)
Ends(in) ==
    {0} \cup {i \in 1..Len(in.visible) : in.visible[i].role = "assistant"}
        \cup {m.at : m \in in.marks}
PrefixLens(in) == {n \in Ends(in) : \A i \in Ends(in) : i <= n}
Prefix(in, n) == [in EXCEPT !.visible = SubSeq(@, 1, n)]
Suffix(in, n) == SubSeq(in.visible, n + 1, Len(in.visible))

(* get_decorated_prefix for a prefix of n items. *)
Cached(t, in, n) ==
    {e \in store : e.key = KeyOf[t] /\ e.fp = FingerprintOf(t, Prefix(in, n))}

(* set_decorated_prefix. *)
\* slip: what was there is kept
RememberAlso(e) == store \cup {e}
Remember(e) == {f \in store : f.key # e.key \/ f.fp # e.fp} \cup {e}

(* What is sent for an input: the cached prefix and the user suffix, or    *)
(* the input as it is.                                                     *)
Hits(t, in) ==
    UNION {{[e.decorated EXCEPT !.visible = @ \o Suffix(in, n)] :
                e \in Cached(t, in, n)} : n \in PrefixLens(in)}
Reinjected(t, in) ==
    IF KeyOf[t] = NoSession \/ Hits(t, in) = {} THEN {in} ELSE Hits(t, in)

(* The input the next request is expected to start with: the chat path     *)
(* starts from what the client sent, the responses path from what was sent *)
(* upstream.                                                               *)
\* slip: always from what was sent upstream
ExpectedFromSent(t) == call[t].sent
Expected(t) == IF PathOf[t] = "chat" THEN call[t].asked ELSE call[t].sent

(* The prefix with the reasoning of the answer, marks M.                   *)
\* slip: the answer itself is forgotten
DecoratedWithoutAnswer(t, answer, M) ==
    [call[t].sent EXCEPT !.marks = @ \cup M]
Decorated(t, answer, M) ==
    [visible |-> call[t].sent.visible \o answer,
     marks |-> call[t].sent.marks \cup M]

-----------------------------------------------------------------------------
(* The client asks: _maybe_reinject_codex_reasoning, or its variant for    *)
(* the responses path, and the upstream call begins.                       *)
Ask(t) ==
    /\ ~call[t].on
    /\ Len(hist[t].visible) < MaxItems
    /\ \E x \in Text :
         LET in == [hist[t] EXCEPT !.visible =
                        @ \o <<[role |-> "user", text |-> x, spelling |-> "as sent"]>>]
         IN  \E s \in Reinjected(t, in) :
                call' = [call EXCEPT ![t] = [on |-> TRUE, asked |-> in, sent |-> s]]
    /\ UNCHANGED <<hist, store, issued, mine, counters>>

(* The client gets the answer, and sends its tool calls back in a spelling *)
(* of its own.                                                             *)
Spelt(answer, spelling) ==
    [i \in 1..Len(answer) |-> [answer[i] EXCEPT !.spelling = spelling]]

(* The upstream answers with a text, or with nothing visible, and with a   *)
(* reasoning item or none.  The cache is updated, and the client has the *)
(* answer; on the responses path it may keep the reasoning as well.        *)
Answered(t, answer, M) ==
    /\ call[t].on
    /\ answers < MaxAnswers
    /\ answers' = answers + 1
    /\ store' = IF KeyOf[t] = NoSession THEN store
                ELSE Remember(
                  [key |-> KeyOf[t],
                   fp |-> FingerprintOf(t,
                             [Expected(t) EXCEPT !.visible = @ \o answer]),
                   decorated |-> Decorated(t, answer, M)])
    /\ mine' = IF answer = <<>> THEN mine
               ELSE [mine EXCEPT ![t] = @ \cup M]
    /\ call' = [call EXCEPT ![t] = NoCall]
    /\ \E spelling \in {"as sent", "respelt"}, echo \in BOOLEAN :
         /\ echo => PathOf[t] = "responses"
         /\ hist' = [hist EXCEPT ![t] =
                [visible |-> call[t].asked.visible \o Spelt(answer, spelling),
                 marks |-> call[t].asked.marks \cup (IF echo THEN M ELSE {})]]
    /\ UNCHANGED restarts

AnswerItems == {<<>>} \cup
    {<<[role |-> "assistant", text |-> x, spelling |-> "as sent"]>> : x \in Text}

AnswerReasoned(t) ==
    /\ issued' = Append(issued, [key |-> KeyOf[t], context |-> ContextOf[t],
                                 visible |-> call[t].asked.visible])
    /\ \E answer \in AnswerItems :
         Answered(t, answer, {[at |-> Len(call[t].asked.visible),
                               serial |-> Len(issued) + 1]})

AnswerPlain(t) ==
    /\ \E answer \in AnswerItems : Answered(t, answer, {})
    /\ UNCHANGED issued

(* An error, or a client that goes away: nothing is remembered. *)
Fail(t) ==
    /\ call[t].on
    /\ call' = [call EXCEPT ![t] = NoCall]
    /\ UNCHANGED <<hist, store, issued, mine, counters>>

(* The client takes back its last turns. *)
UpTo(M, n) == {m \in M : m.at < n}
Fork(t) ==
    /\ ~call[t].on
    /\ \E n \in 0..Len(hist[t].visible) :
         /\ n > 0 => hist[t].visible[n].role = "assistant"
         /\ n < Len(hist[t].visible)
         /\ hist' = [hist EXCEPT ![t] = [visible |-> SubSeq(@.visible, 1, n),
                                         marks |-> UpTo(@.marks, n)]]
         /\ mine' = [mine EXCEPT ![t] = UpTo(@, n)]
    /\ UNCHANGED <<call, store, issued, counters>>

(* The store is in memory only. *)
Restart ==
    /\ restarts < MaxRestarts
    /\ restarts' = restarts + 1
    /\ store' = {}
    /\ call' = [t \in Thread |-> NoCall]
    /\ mine' = [t \in Thread |-> {}]
    /\ UNCHANGED <<hist, issued, answers>>

ThreadStep(t) ==
    Ask(t) \/ AnswerReasoned(t) \/ AnswerPlain(t) \/ Fail(t) \/ Fork(t)

Next == (\E t \in Thread : ThreadStep(t)) \/ Restart

Spec == Init /\ [][Next]_vars

-----------------------------------------------------------------------------
(* Properties. *)

(* Whatever prefix the cache supplied, the upstream is asked what the      *)
(* client asked: the same visible items in the same order, but for the     *)
(* spelling of tool calls, with none of the client's own reasoning lost.   *)
SentIsAsked ==
    \A t \in Thread :
        /\ Normal(call[t].sent.visible) = Normal(call[t].asked.visible)
        /\ call[t].asked.marks \subseteq call[t].sent.marks

(* Reasoning goes back only where it came from: to the session, provider,  *)
(* model and context it was returned in, after exactly the items it was    *)
(* the answer to.                                                          *)
Placed(returned, key, context, visible, m) ==
    LET origin == returned[m.serial]
    IN  /\ m.serial \in 1..Len(returned)
        /\ origin.key = key
        /\ origin.context = context
        /\ m.at = Len(origin.visible)
        /\ m.at <= Len(visible)
        /\ Normal(SubSeq(visible, 1, m.at)) = Normal(origin.visible)
ReasoningInPlace ==
    \A t \in Thread : \A m \in call[t].sent.marks :
        Placed(issued, KeyOf[t], ContextOf[t], call[t].sent.visible, m)

(* On the chat path no turn is left without its reasoning: when the client *)
(* comes back with a history, after forks, errors and respelt tool calls,  *)
(* every answer given since the proxy started has its reasoning in place,  *)
(* provided that no other conversation in the same context competes for    *)
(* the cache.                                                              *)
Alone(t) ==
    \A u \in Thread \ {t} : KeyOf[u] # KeyOf[t] \/ ContextOf[u] # ContextOf[t]
ReasoningKept ==
    \A t \in Thread :
        PathOf[t] = "chat" /\ KeyOf[t] # NoSession /\ Alone(t) /\ call[t].on
            => mine[t] \subseteq call[t].sent.marks
=============================================================================
