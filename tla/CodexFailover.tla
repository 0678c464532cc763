---------------------------- MODULE CodexFailover ----------------------------
(***************************************************************************)
(* Clients' calls over the account pool: collect_with_retry of             *)
(* src/adapters/codex_oauth_adapter.py on top of CodexAccountPool, with    *)
(* the classification of answers of src/adapters/upstream_executor.py.     *)
(*                                                                         *)
(* A call takes headers from the pool, posts, and looks at the answer: an  *)
(* account that is limited or rejected is reported to the pool and left    *)
(* for what the pool hands out next, as long as failovers remain; other    *)
(* retryable answers, and these once no failover remains, are retried with *)
(* the same headers.  What happens to the pool in each step is an action   *)
(* of CodexAccountPool.                                                    *)
(***************************************************************************)
EXTENDS CodexAccountPool

CONSTANTS
    MaxRetries,   \* max_retries: attempts with one set of headers
    MaxFailovers, \* max_failovers: times a call leaves an account
    Exhausted,    \* labels whose accounts the upstream limits, always; it
                  \* does not limit the others
    MayReject     \* the upstream may answer 401 or 403

ASSUME RetryAssumption == MaxRetries \in Nat \ {0} /\ MaxFailovers \in Nat
ASSUME UpstreamAssumption == Exhausted \subseteq Label /\ MayReject \in BOOLEAN

VARIABLES
    loop    \* the loop of each call, and how the last call ended

(* attempts is current_account_attempts and failovers failover_count; calls *)
(* counts all posts of the call.  excused tells that a post met a          *)
(* rejection, or that an operator gave an account a fresh start during the *)
(* call (history).                                                         *)
Loop == [on : BOOLEAN, attempts : Nat, failovers : Nat, calls : Nat,
         excused : BOOLEAN,
         result : {"none", "served", "cooling", "unavailable", "error",
                   "limited", "failed"}]

NoLoop == [on |-> FALSE, attempts |-> 0, failovers |-> 0, calls |-> 0,
           excused |-> FALSE, result |-> "none"]

fvars == <<vars, loop>>

FTypeOK == TypeOK /\ loop \in [Request -> Loop]

FInit == Init /\ loop = [r \in Request |-> NoLoop]

(* The loop of a call that ends with result res; nothing else is needed of *)
(* it.                                                                     *)
Ended(res) == [NoLoop EXCEPT !.result = res]
End(r, res) == loop' = [loop EXCEPT ![r] = Ended(res)]

(* failover_count < max_failovers. *)
\* slip: one failover too few
FailoverOneShort(r) == loop[r].failovers + 1 < MaxFailovers
\* slip: one failover too many
FailoverOneMore(r) == loop[r].failovers <= MaxFailovers
FailoverLeft(r) == loop[r].failovers < MaxFailovers

(* CodexAccountUnavailableError of _select_candidate_labels: the pool's own *)
(* 429 when all enabled accounts are cooling down, or else its 503.        *)
Unavailable ==
    IF \E l \in ListedLabels(accounts) : accounts[l].enabled
    THEN "cooling" ELSE "unavailable"

(* A call that is given no headers ends: by that error when there is no    *)
(* candidate, by RuntimeError at the end of a walk over candidates.        *)
Walked(r, started, refusal) ==
    loop' = [loop EXCEPT ![r] =
        IF req'[r].pc = "idle" THEN Ended(refusal) ELSE started]

-----------------------------------------------------------------------------
(* A call begins and asks for its first headers. *)
StartCall(r) ==
    /\ ~loop[r].on
    /\ req[r].pc = "idle"
    /\ GetHeaders(r) \/ NoneAvailable(r)
    /\ Walked(r, [NoLoop EXCEPT !.on = TRUE], Unavailable)

(* refresh_headers, after the backoff. *)
RefreshHeaders(r) ==
    /\ loop[r].on
    /\ req[r].pc = "backoff"
    /\ GetHeaders(r) \/ NoneAvailable(r)
    /\ Walked(r, loop[r], Unavailable)

(* The walk of a call, or of a login-all, goes on. *)
WalkOn(r) ==
    /\ Acquire(r)
    /\ IF loop[r].on THEN Walked(r, loop[r], "error") ELSE UNCHANGED loop

StartLoginAll(r, mode) ==
    /\ ~loop[r].on
    /\ LoginAll(r, mode)
    /\ UNCHANGED loop

-----------------------------------------------------------------------------
(* The answers to a post, by what collect_with_retry does with them. *)

(* Success, or an error that is not retried. *)
Accepted(r) ==
    /\ loop[r].on
    /\ req[r].label \notin Exhausted
    /\ Answered(r)
    /\ \E res \in {"served", "failed"} : End(r, res)

(* should_failover: the account is reported, the attempts start again. *)
Failover(r) ==
    /\ loop[r].on
    /\ FailoverLeft(r)
    /\ \/ req[r].label \in Exhausted /\ RateLimited(r)
       \/ req[r].label \notin Exhausted /\ MayReject /\ AuthRejected(r)
    /\ loop' = [loop EXCEPT ![r].failovers = @ + 1,
                            ![r].attempts = 0,
                            ![r].excused = @ \/ req[r].label \notin Exhausted,
                            ![r].calls = @ + 1]

(* What an answer that is not reported to the pool amounts to: a 5xx, or a *)
(* limit or a rejection when no failover remains.                          *)
Unreported(r, res) ==
    /\ loop[r].on
    /\ req[r].pc = "holding"
    /\ \/ res = "failed" /\ req[r].label \notin Exhausted
       \/ res = "limited" /\ req[r].label \in Exhausted /\ ~FailoverLeft(r)

(* It is retried with the same headers, up to max_retries. *)
Retry(r) ==
    /\ \E res \in {"failed", "limited"} : Unreported(r, res)
    /\ loop[r].attempts + 1 < MaxRetries
    /\ loop' = [loop EXCEPT ![r].attempts = @ + 1, ![r].calls = @ + 1]
    /\ UNCHANGED vars

GiveUp(r) ==
    /\ loop[r].attempts + 1 >= MaxRetries
    /\ Answered(r)
    /\ \E res \in {"failed", "limited"} : Unreported(r, res) /\ End(r, res)

-----------------------------------------------------------------------------
(* An operator's step may end a cooldown or change which accounts there are. *)
Restarted ==
    \E l \in Label : \/ accounts'[l].cooldown < accounts[l].cooldown
                     \/ Listed(accounts', l) # Listed(accounts, l)
Excuse ==
    loop' = [r \in Request |->
        [loop[r] EXCEPT !.excused = @ \/ (loop[r].on /\ Restarted)]]

CallStep(r) ==
    \/ RefreshHeaders(r) \/ WalkOn(r)
    \/ Accepted(r) \/ Failover(r) \/ Retry(r) \/ GiveUp(r)

FNext ==
    \/ \E r \in Request : StartCall(r) \/ CallStep(r)
    \/ \E r \in Request, mode \in Mode : StartLoginAll(r, mode)
    \/ (OperatorStep \/ Tick) /\ Excuse

FSpec == FInit /\ [][FNext]_fvars

(* The upstream answers or its client times out, and sleeps end, so a call *)
(* is never left waiting for its next step.                                *)
FFairSpec == FSpec /\ \A r \in Request : WF_fvars(CallStep(r))

-----------------------------------------------------------------------------
(* Properties. *)

(* A call posts at most max_retries times for each of the max_failovers+1  *)
(* sets of headers it may go through: no mix of limits, rejections and     *)
(* server errors makes it hammer the upstream.                             *)
CallsBounded ==
    \A r \in Request :
        loop[r].on => loop[r].calls < (MaxFailovers + 1) * MaxRetries

(* With a failover for every exhausted account and cooldowns that outlast  *)
(* a call, no client is handed the 429 of the upstream: the call reaches   *)
(* an account that is not limited, or the pool itself refuses it (with a   *)
(* 429 of its own when all its accounts are cooling down).  For that the   *)
(* report must hit the right account, the selection respect it and the     *)
(* count be right, also when calls report the same account at the same     *)
(* time, and rejections of other calls and operators change the pool.      *)
(* Excused is a call that spent a failover on a rejection, or during which *)
(* an operator put an account back into service.                           *)
LimitNotPassedOn ==
    [][MaxTime < Cooldown /\ Cardinality(Exhausted) <= MaxFailovers
       => \A r \in Request :
            loop[r].on /\ ~loop[r].excused => loop'[r].result # "limited"]_fvars

(* Every call ends, with an answer or an error. *)
CallEnds == \A r \in Request : loop[r].on ~> ~loop[r].on
=============================================================================
