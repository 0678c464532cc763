-------------------------- MODULE CodexAccountPool --------------------------
(***************************************************************************)
(* The pool of Codex OAuth accounts of token_auth.py: the accounts and the *)
(* default label kept in .codex_oauth.json, the requests that take headers *)
(* from the pool and report what the upstream answered, the login-all      *)
(* sweeps, and the operator's commands.                                    *)
(*                                                                         *)
(* Every section under _lock reads, changes and writes the file without an *)
(* await, so one action stands for one section, or for the run of sections *)
(* a coroutine goes through before it next suspends.  The suspensions that *)
(* matter are the refresh call to the authorization server and the call to *)
(* the upstream: what a request read before one of them may be stale after *)
(* it.                                                                     *)
(*                                                                         *)
(* An account is known by its label key.  A login or a refresh issues one  *)
(* access and one refresh token, both named by the serial number of the    *)
(* issue, so two tokens are the same exactly when their numbers are.       *)
(***************************************************************************)
EXTENDS Integers, FiniteSets

CONSTANTS
    NumLabels,    \* account labels are numbered in the order of their names
    Request,      \* coroutines that use the pool
    Admin,        \* operators that run manage_codex_accounts.py
    Priority,     \* priorities an operator can give; the lowest goes first
    AccountIdOf,  \* the ChatGPT account id behind a label, 0 when it has none
    InitListed,   \* labels in the store at the start
    Cooldown,     \* accountPoolPolicy.cooldownSeconds
    TokenTTL,     \* expires_in of an issued token
    Margin,       \* REFRESH_MARGIN_SECONDS
    Rotating,     \* a refresh replaces the refresh token
    MayLoseReply, \* a refresh may take effect and its reply be lost
    MaxTime, MaxSerial, MaxCommands   \* bounds on the model

Label == 1..NumLabels

ASSUME LabelAssumption == NumLabels \in Nat
ASSUME PriorityAssumption == Priority \subseteq Nat /\ Priority # {}
ASSUME AccountIdAssumption == AccountIdOf \in [Label -> Nat]
ASSUME InitAssumption == InitListed \subseteq Label
ASSUME TimingAssumption == Cooldown \in Nat /\ TokenTTL \in Nat /\ Margin \in Nat
ASSUME ServerAssumption == Rotating \in BOOLEAN /\ MayLoseReply \in BOOLEAN
ASSUME BoundAssumption ==
    MaxTime \in Nat /\ MaxSerial \in Nat /\ MaxCommands \in Nat

VARIABLES
    accounts,     \* accounts of the store, by label
    defaultLabel, \* default_label of the store, 0 for ""
    req,          \* progress of each request
    adding,       \* label an operator is logging in, 0 for none
    now,          \* _now_ts()
    serial,       \* number of tokens issued so far
    live,         \* refresh tokens the authorization server still honours
    lost,         \* refresh tokens spent in exchanges whose reply was lost
    commands      \* operator commands run so far

server == <<serial, live, lost>>
operator == <<adding, commands>>
vars == <<accounts, defaultLabel, req, operator, now, server>>

NoLabel == 0
NoToken == 0

(* One item of accounts: pos is its place in the list, 0 when the label has *)
(* no account; a new account is appended, so it takes the largest place.    *)
Account == [pos : Nat, enabled : BOOLEAN, priority : Priority,
            access : Nat, refresh : Nat, expires : Nat, cooldown : Nat]

(* A candidate of _select_candidate_labels, with the priority it was sorted by. *)
Candidate == [label : Label, priority : Priority]

(* What a request is for: a client's call (get_codex_upstream_headers), the  *)
(* check at startup or the operator's login-all (login_all_codex_accounts    *)
(* with force_refresh False and True).                                       *)
Mode == {"serve", "check", "force"}

(* oldAccess and oldRefresh are the tokens read before the refresh call,    *)
(* access and refresh those of its reply; a request that holds headers has  *)
(* their token in access.  A request in backoff sleeps before it asks for   *)
(* headers again; limited and until are the label whose rate limit it has   *)
(* reported last and the end of that cooldown, and rejected tells that its  *)
(* last answer was 401 or 403.                                              *)
RequestFields ==
    [pc : {"idle", "refreshing", "granted", "refused", "failed",
           "holding", "backoff"},
     mode : Mode, label : Label \cup {NoLabel}, rest : SUBSET Candidate,
     oldAccess : Nat, oldRefresh : Nat, access : Nat, refresh : Nat,
     limited : Label \cup {NoLabel}, until : Nat, rejected : BOOLEAN]

(* A request between two walks is at no account. *)
RequestState ==
    {s \in RequestFields : s.pc \in {"idle", "backoff"} \/ s.label \in Label}

IdleRequest ==
    [pc |-> "idle", mode |-> "serve", label |-> NoLabel, rest |-> {},
     oldAccess |-> NoToken, oldRefresh |-> NoToken,
     access |-> NoToken, refresh |-> NoToken,
     limited |-> NoLabel, until |-> 0, rejected |-> FALSE]

TypeOK ==
    /\ accounts \in [Label -> Account]
    /\ defaultLabel \in Label \cup {NoLabel}
    /\ req \in [Request -> RequestState]
    /\ adding \in [Admin -> Label \cup {NoLabel}]
    /\ now \in Nat
    /\ serial \in Nat
    /\ live \subseteq Nat
    /\ lost \subseteq Nat
    /\ commands \in Nat

-----------------------------------------------------------------------------
(* Reading the pool. *)

Listed(pool, l) == pool[l].pos # 0
ListedLabels(pool) == {l \in Label : Listed(pool, l)}

(* The sort key (priority, label) of the account lists. *)
Precedes(c, d) ==
    \/ c.priority < d.priority
    \/ c.priority = d.priority /\ c.label < d.label

(* The first of C in that order, as a set: empty when C is. *)
First(C) == {c \in C : \A d \in C : d = c \/ Precedes(c, d)}

AsCandidates(pool, S) == {[label |-> l, priority |-> pool[l].priority] : l \in S}

NeedsRefresh(a) == a.expires <= now + Margin

(* _find_account_index_by_headers, for headers of label l with access token *)
(* tok: the first account with the account id of the headers; without one,  *)
(* the first whose access token they carry.                                 *)
ByAccountId(pool, l) ==
    {k \in ListedLabels(pool) :
        AccountIdOf[l] # 0 /\ AccountIdOf[k] = AccountIdOf[l]}
ByAccessToken(pool, tok) == {k \in ListedLabels(pool) : pool[k].access = tok}
FirstListed(pool, S) == {k \in S : \A j \in S : pool[k].pos <= pool[j].pos}
\* slip: only the token is looked at
AccountOfToken(pool, l, tok) == FirstListed(pool, ByAccessToken(pool, tok))
AccountOfHeaders(pool, l, tok) ==
    LET byId == ByAccountId(pool, l)
    IN  FirstListed(pool, IF byId # {} THEN byId ELSE ByAccessToken(pool, tok))

(* The pool after mark_codex_account_rate_limited for those headers. *)
RateLimitMarked(pool, l, tok) ==
    [k \in Label |->
        IF k \in AccountOfHeaders(pool, l, tok)
        THEN [pool[k] EXCEPT !.cooldown = now + Cooldown] ELSE pool[k]]

(* The pool after mark_codex_account_auth_expired for those headers. *)
\* slip: the expiry is moved before now instead of reset
AuthMarkedBefore(pool, l, tok) ==
    [k \in Label |->
        IF k \in AccountOfHeaders(pool, l, tok)
        THEN [pool[k] EXCEPT !.expires = now - Margin - 1] ELSE pool[k]]
AuthExpiredMarked(pool, l, tok) ==
    [k \in Label |->
        IF k \in AccountOfHeaders(pool, l, tok)
        THEN [pool[k] EXCEPT !.expires = 0] ELSE pool[k]]

-----------------------------------------------------------------------------
(* The accounts a mode has to visit: available ones for a client's call,   *)
(* every enabled one for a login-all.                                      *)
\* slip: cooldowns are not looked at
EnabledCandidates(mode) ==
    AsCandidates(accounts, {l \in ListedLabels(accounts) : accounts[l].enabled})
CandidatesFor(mode) ==
    AsCandidates(accounts,
        {l \in ListedLabels(accounts) :
            /\ accounts[l].enabled
            /\ mode = "serve" => accounts[l].cooldown <= now})

(* Headers of account l with token tok, in the hands of a client's call. *)
Holding(r, l, tok) ==
    [IdleRequest EXCEPT
        !.pc = "holding", !.label = l, !.access = tok,
        !.limited = req[r].limited, !.until = req[r].until]

(* The refresh call for candidate c of C, with the tokens of account a. *)
\* slip: the candidate is not left behind
RefreshingAgain(r, mode, C, c, a) ==
    [pc |-> "refreshing", mode |-> mode, label |-> c.label, rest |-> C,
     oldAccess |-> a.access, oldRefresh |-> a.refresh,
     access |-> NoToken, refresh |-> NoToken,
     limited |-> req[r].limited, until |-> req[r].until,
     rejected |-> req[r].rejected]
Refreshing(r, mode, C, c, a) ==
    [pc |-> "refreshing", mode |-> mode,
     label |-> c.label, rest |-> {d \in C : Precedes(c, d)},
     oldAccess |-> a.access, oldRefresh |-> a.refresh,
     access |-> NoToken, refresh |-> NoToken,
     limited |-> req[r].limited, until |-> req[r].until,
     rejected |-> req[r].rejected]

(* The loop over the labels from the next one of C on, up to its next      *)
(* suspension or its end: a label that has gone raises and is skipped; a   *)
(* client's call ends with the first fresh token; a check passes over      *)
(* fresh tokens; otherwise the refresh call is made with what the store    *)
(* holds now.                                                              *)
Walk(r, mode, C, pool) ==
    LET visit == {c \in C : /\ Listed(pool, c.label)
                            /\ mode = "check" => NeedsRefresh(pool[c.label])}
    IN  \/ /\ visit = {}
           /\ req' = [req EXCEPT ![r] = IdleRequest]
        \/ \E c \in First(visit) :
              req' = [req EXCEPT ![r] =
                  IF mode = "serve" /\ ~NeedsRefresh(pool[c.label])
                  THEN Holding(r, c.label, pool[c.label].access)
                  ELSE Refreshing(r, mode, C, c, pool[c.label])]

NewAccount(pos, prio, tok, t) ==
    [pos |-> pos, enabled |-> TRUE, priority |-> prio, access |-> tok,
     refresh |-> tok, expires |-> t, cooldown |-> 0]

NoAccount == NewAccount(0, CHOOSE p \in Priority : TRUE, NoToken, 0)

(* A store left by earlier logins: the accounts of InitListed with their   *)
(* tokens expired, in any priorities, one of them the default.             *)
Init ==
    /\ \E prio \in [Label -> Priority] :
         accounts = [l \in Label |-> IF l \in InitListed
                                     THEN NewAccount(l, prio[l], l, 0)
                                     ELSE NoAccount]
    /\ defaultLabel \in (IF InitListed = {} THEN {NoLabel} ELSE InitListed)
    /\ req = [r \in Request |-> IdleRequest]
    /\ adding = [a \in Admin |-> NoLabel]
    /\ now = 0
    /\ serial = NumLabels
    /\ live = InitListed
    /\ lost = {}
    /\ commands = 0

-----------------------------------------------------------------------------
(* Requests. *)

(* get_codex_upstream_headers: select the available accounts, then walk    *)
(* them.  With none available the caller answers 503 or 429 and is done.   *)
GetHeaders(r) ==
    /\ req[r].pc \in {"idle", "backoff"}
    /\ CandidatesFor("serve") # {}
    /\ Walk(r, "serve", CandidatesFor("serve"), accounts)
    /\ UNCHANGED <<accounts, defaultLabel, operator, now, server>>

(* No account is available: CodexAccountUnavailableError ends the request. *)
NoneAvailable(r) ==
    /\ req[r].pc \in {"idle", "backoff"}
    /\ CandidatesFor("serve") = {}
    /\ req' = [req EXCEPT ![r] = IdleRequest]
    /\ UNCHANGED <<accounts, defaultLabel, operator, now, server>>

(* login_all_codex_accounts, by the startup check or an operator. *)
LoginAll(r, mode) ==
    /\ req[r].pc = "idle"
    /\ mode \in {"check", "force"}
    /\ commands < MaxCommands
    /\ CandidatesFor(mode) # {}
    /\ Walk(r, mode, CandidatesFor(mode), accounts)
    /\ commands' = commands + 1
    /\ UNCHANGED <<accounts, defaultLabel, adding, now, server>>

(* The authorization server answers a refresh call.  It honours a live     *)
(* refresh token, and replaces it when it rotates tokens; the reply to a   *)
(* call it honoured may be lost, which the caller sees as a failure.       *)
ServerGrants(r) ==
    /\ req[r].pc = "refreshing"
    /\ req[r].oldRefresh \in live
    /\ serial < MaxSerial
    /\ serial' = serial + 1
    /\ LET old == req[r].oldRefresh
           new == IF Rotating THEN serial + 1 ELSE old
       IN  /\ live' = (live \ {old}) \cup {new}
           /\ \/ /\ req' = [req EXCEPT ![r].pc = "granted",
                                       ![r].access = serial + 1,
                                       ![r].refresh = new]
                 /\ UNCHANGED lost
              \/ /\ MayLoseReply
                 /\ req' = [req EXCEPT ![r].pc = "failed"]
                 /\ lost' = lost \cup ({old} \ {new})
    /\ UNCHANGED <<accounts, defaultLabel, operator, now>>

(* Any call may fail on its way there. *)
CallFails(r) ==
    /\ req[r].pc = "refreshing"
    /\ req' = [req EXCEPT ![r].pc = "failed"]
    /\ UNCHANGED <<accounts, defaultLabel, operator, now, server>>

(* The server refuses a refresh token that is spent (refresh_token_reused). *)
ServerRefuses(r) ==
    /\ req[r].pc = "refreshing"
    /\ req[r].oldRefresh \notin live
    /\ req' = [req EXCEPT ![r].pc = "refused"]
    /\ UNCHANGED <<accounts, defaultLabel, operator, now, server>>

(* The account a refresh was for, with the reply written to what the       *)
(* account is now.                                                         *)
\* slip: the old refresh token is kept
WrittenWithoutRotation(r) ==
    [accounts[req[r].label] EXCEPT !.access = req[r].access,
                                   !.expires = now + TokenTTL]
\* slip: the account starts afresh, its cooldown forgotten
WrittenAfresh(r) ==
    LET a == accounts[req[r].label]
    IN  [NewAccount(a.pos, a.priority, req[r].access, now + TokenTTL)
            EXCEPT !.enabled = a.enabled, !.refresh = req[r].refresh]
Written(r) ==
    [accounts[req[r].label] EXCEPT !.access = req[r].access,
                                   !.refresh = req[r].refresh,
                                   !.expires = now + TokenTTL]

(* The end of _get_or_refresh_account_token: the reply is written.  A      *)
(* client's call has its headers; a login-all goes on.  If the account has *)
(* gone, the new tokens are dropped.                                       *)
WriteBack(r) ==
    LET l == req[r].label
        written == [accounts EXCEPT ![l] = Written(r)]
    IN  /\ req[r].pc = "granted"
        /\ \/ /\ Listed(accounts, l)
              /\ accounts' = written
              /\ IF req[r].mode = "serve"
                 THEN req' = [req EXCEPT ![r] = Holding(r, l, req[r].access)]
                 ELSE Walk(r, req[r].mode, req[r].rest, written)
           \/ /\ ~Listed(accounts, l)
              /\ Walk(r, req[r].mode, req[r].rest, accounts)
              /\ UNCHANGED accounts
        /\ UNCHANGED <<defaultLabel, operator, now, server>>

(* The refresh raised: a client's call marks the account of the headers it *)
(* read before the call; a login-all marks nothing.  Both go on.           *)
RefreshFailed(r) ==
    LET l == req[r].label
        marked == IF req[r].mode = "serve"
                  THEN RateLimitMarked(accounts, l, req[r].oldAccess)
                  ELSE accounts
    IN  /\ req[r].pc \in {"refused", "failed"}
        /\ accounts' = marked
        /\ Walk(r, req[r].mode, req[r].rest, marked)
        /\ UNCHANGED <<defaultLabel, operator, now, server>>

(* A reply without an access token raises after the call: nothing is       *)
(* marked, and the walk goes on.                                           *)
ReplyWithoutToken(r) ==
    /\ req[r].pc = "refreshing"
    /\ Walk(r, req[r].mode, req[r].rest, accounts)
    /\ UNCHANGED <<accounts, defaultLabel, operator, now, server>>

-----------------------------------------------------------------------------
(* What the upstream answers to the headers a request holds. *)

(* Anything that is not retried ends the request. *)
Answered(r) ==
    /\ req[r].pc = "holding"
    /\ req' = [req EXCEPT ![r] = IdleRequest]
    /\ UNCHANGED <<accounts, defaultLabel, operator, now, server>>

(* 406, 429 or a quota error: the account cools down, and the request asks *)
(* for headers again.                                                      *)
RateLimited(r) ==
    LET l == req[r].label
    IN  /\ req[r].pc = "holding"
        /\ accounts' = RateLimitMarked(accounts, l, req[r].access)
        /\ req' = [req EXCEPT ![r] = [IdleRequest EXCEPT
               !.pc = "backoff", !.limited = l, !.until = now + Cooldown]]
        /\ UNCHANGED <<defaultLabel, operator, now, server>>

(* 401 or 403: the account must refresh, and the request asks again. *)
AuthRejected(r) ==
    /\ req[r].pc = "holding"
    /\ accounts' = AuthExpiredMarked(accounts, req[r].label, req[r].access)
    /\ req' = [req EXCEPT ![r] = [IdleRequest EXCEPT
           !.pc = "backoff", !.rejected = TRUE,
           !.limited = req[r].limited, !.until = req[r].until]]
    /\ UNCHANGED <<defaultLabel, operator, now, server>>

-----------------------------------------------------------------------------
(* The operator's commands. *)

(* An operator's command on label l gives the account a fresh start, so    *)
(* what requests reported of l before it no longer counts.                 *)
Forgiven(l) ==
    [r \in Request |-> IF req[r].limited = l
                       THEN [req[r] EXCEPT !.limited = NoLabel, !.until = 0]
                       ELSE req[r]]

(* The end of the list, 0 when it is empty. *)
Places == {accounts[l].pos : l \in Label}
LastPlace == {m \in Places : \A n \in Places : n <= m}

Command == commands < MaxCommands /\ commands' = commands + 1

(* add_codex_account_via_device_oauth and _via_browser_oauth up to the     *)
(* login: the label must be free.                                          *)
BeginAdd(a, l) ==
    /\ adding[a] = NoLabel
    /\ ~Listed(accounts, l)
    /\ adding' = [adding EXCEPT ![a] = l]
    /\ Command
    /\ UNCHANGED <<accounts, defaultLabel, req, now, server>>

(* The login ends well and _save_oauth_tokens inserts or overwrites. *)
FinishAdd(a, p) ==
    LET l == adding[a]
    IN  /\ l # NoLabel
        /\ serial < MaxSerial
        /\ serial' = serial + 1
        /\ live' = live \cup {serial + 1}
        /\ \E m \in LastPlace :
             accounts' = [accounts EXCEPT ![l] =
                 NewAccount(IF Listed(accounts, l) THEN accounts[l].pos ELSE m + 1,
                            p, serial + 1, now + TokenTTL)]
        /\ defaultLabel' = IF defaultLabel = NoLabel THEN l ELSE defaultLabel
        /\ adding' = [adding EXCEPT ![a] = NoLabel]
        /\ req' = Forgiven(l)
        /\ UNCHANGED <<now, lost, commands>>

(* The login fails or its ten minutes pass. *)
AbandonAdd(a) ==
    /\ adding[a] # NoLabel
    /\ adding' = [adding EXCEPT ![a] = NoLabel]
    /\ UNCHANGED <<accounts, defaultLabel, req, commands, now, server>>

(* set_codex_account_enabled: disabling also ends a cooldown. *)
SetEnabled(l, on) ==
    /\ Listed(accounts, l)
    /\ accounts' = [accounts EXCEPT
           ![l].enabled = on,
           ![l].cooldown = IF on THEN @ ELSE 0]
    /\ req' = IF on THEN req ELSE Forgiven(l)
    /\ Command
    /\ UNCHANGED <<defaultLabel, adding, now, server>>

SetPriority(l, p) ==
    /\ Listed(accounts, l)
    /\ accounts' = [accounts EXCEPT ![l].priority = p]
    /\ Command
    /\ UNCHANGED <<defaultLabel, req, adding, now, server>>

SwitchDefault(l) ==
    /\ Listed(accounts, l)
    /\ defaultLabel' = l
    /\ Command
    /\ UNCHANGED <<accounts, req, adding, now, server>>

(* The default once l is removed: it moves to the first account kept. *)
\* slip: the default moves only with the last account
DefaultUnlessLast(l) ==
    IF ListedLabels(accounts) = {l} THEN {NoLabel} ELSE {defaultLabel}
DefaultWithout(l) ==
    LET kept == ListedLabels(accounts) \ {l}
    IN  IF defaultLabel # l THEN {defaultLabel}
        ELSE IF kept = {} THEN {NoLabel}
        ELSE {c.label : c \in First(AsCandidates(accounts, kept))}

(* remove_codex_account. *)
RemoveAccount(l) ==
    /\ Listed(accounts, l)
    /\ accounts' = [accounts EXCEPT ![l] = NoAccount]
    /\ defaultLabel' \in DefaultWithout(l)
    /\ req' = Forgiven(l)
    /\ Command
    /\ UNCHANGED <<adding, now, server>>

Tick ==
    /\ now < MaxTime
    /\ now' = now + 1
    /\ UNCHANGED <<accounts, defaultLabel, req, operator, server>>

-----------------------------------------------------------------------------
Acquire(r) ==
    \/ ServerGrants(r) \/ ServerRefuses(r) \/ CallFails(r)
    \/ ReplyWithoutToken(r)
    \/ WriteBack(r) \/ RefreshFailed(r)

RequestStep(r) ==
    \/ GetHeaders(r) \/ NoneAvailable(r) \/ Acquire(r)
    \/ Answered(r) \/ RateLimited(r) \/ AuthRejected(r)
    \/ \E mode \in Mode : LoginAll(r, mode)

OperatorStep ==
    \/ \E a \in Admin, l \in Label : BeginAdd(a, l)
    \/ \E a \in Admin, p \in Priority : FinishAdd(a, p)
    \/ \E a \in Admin : AbandonAdd(a)
    \/ \E l \in Label, on \in BOOLEAN : SetEnabled(l, on)
    \/ \E l \in Label, p \in Priority : SetPriority(l, p)
    \/ \E l \in Label : SwitchDefault(l)
    \/ \E l \in Label : RemoveAccount(l)

Next == (\E r \in Request : RequestStep(r)) \/ OperatorStep \/ Tick

Spec == Init /\ [][Next]_vars

-----------------------------------------------------------------------------
(* Properties. *)

(* The default label names an account whenever there is one, and nothing   *)
(* otherwise, whatever logins and removals the operators run: no command   *)
(* leaves the store needing the repair _normalize_store makes.             *)
DefaultNamesAccount ==
    IF ListedLabels(accounts) = {} THEN defaultLabel = NoLabel
    ELSE defaultLabel \in ListedLabels(accounts)

(* However refreshes of an account overlap, with each other and with       *)
(* logins and removals, the store ends up with a refresh token the server  *)
(* honours: a stored token that is spent was spent by a call whose reply   *)
(* is on its way to the store, or was lost.                                *)
GrantNotLost ==
    \A l \in ListedLabels(accounts) :
        \/ accounts[l].refresh \in live \cup lost
        \/ \E r \in Request : /\ req[r].pc = "granted"
                              /\ req[r].label = l
                              /\ req[r].refresh \in live

(* A request that reported a rate limit does not come back to that account *)
(* before the cooldown is over, unless an operator intervened: what it     *)
(* waits for or holds, and what it would try next, are other accounts.     *)
FailoverLeavesLimitedAccount ==
    \A r \in Request :
        /\ req[r].pc \in {"refreshing", "granted", "refused", "failed", "holding"}
        /\ req[r].limited # NoLabel
        /\ now < req[r].until
        => req[r].limited \notin {req[r].label} \cup {c.label : c \in req[r].rest}

(* A report of a failed answer changes the account whose headers were      *)
(* used, and no other, even when its tokens have been replaced since the   *)
(* headers were handed out: a limit cools it down, a rejection makes it    *)
(* refresh.                                                                *)
MarkHitsSender ==
    [][\A r \in Request : RateLimited(r) \/ AuthRejected(r) =>
          LET l == req[r].label
          IN  /\ \A k \in Label \ {l} : accounts'[k] = accounts[k]
              /\ Listed(accounts, l) =>
                    /\ RateLimited(r) => accounts'[l].cooldown = now + Cooldown
                    /\ AuthRejected(r) => accounts'[l].expires = 0]_vars

(* Requests write tokens, cooldowns and expiries and nothing else: a       *)
(* refresh or a mark that lands after an operator's command neither undoes *)
(* it nor brings back a removed account, and never shortens a cooldown.    *)
RequestsKeepCommands ==
    [][UNCHANGED operator =>
          \A l \in Label :
             /\ accounts'[l].pos = accounts[l].pos
             /\ accounts'[l].enabled = accounts[l].enabled
             /\ accounts'[l].priority = accounts[l].priority
             /\ accounts'[l].cooldown >= accounts[l].cooldown]_vars

(* 401 and 403 must lead to a refresh and not to a cooldown (the comment   *)
(* on CODEX_AUTH_STATUS_CODES): a request whose 401 made it refresh does   *)
(* not cool down an account another request has refreshed meanwhile.       *)
AuthRejectionNeverCools ==
    [][\A r \in Request :
          /\ RefreshFailed(r)
          /\ req[r].rejected
          /\ req[r].pc = "refused"
          /\ accounts[req[r].label].refresh \in live
          => accounts'[req[r].label].cooldown = accounts[req[r].label].cooldown]_vars
=============================================================================
