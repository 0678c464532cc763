----------------------------- MODULE CodexProofs -----------------------------
(***************************************************************************)
(* Theorems about CodexAccountPool and CodexFailover, for every set of     *)
(* labels, requests and operators, every timing and every bound.           *)
(*                                                                         *)
(* First the pool: typing, the history of tokens and of labels, what a     *)
(* step may do to a cooldown. Then the calls: a system of calls is a       *)
(* system of requests over the pool, so what is proved of the pool holds   *)
(* of it; and the bound on the posts of a call, by the invariant that a    *)
(* call which is at its f-th failover and a-th attempt has posted at most  *)
(* f * MaxRetries + a times.                                               *)
(***************************************************************************)
EXTENDS CodexFailover, FiniteSetTheorems, TLAPS

-----------------------------------------------------------------------------
(* Type correctness. *)

(* The record for a new account, and the one that stands for no account. *)
LEMMA NewAccountType ==
    /\ \A pos, tok, t \in Nat, p \in Priority : NewAccount(pos, p, tok, t) \in Account
    /\ NoAccount \in Account
  BY PriorityAssumption DEF NewAccount, NoAccount, NoToken, Account

(* The fields a request or an operator changes keep an account's type. *)
LEMMA AccountUpdateType ==
    ASSUME NEW a \in Account, NEW n \in Nat, NEW m \in Nat, NEW t \in Nat
    PROVE  /\ [a EXCEPT !.cooldown = t] \in Account
           /\ [a EXCEPT !.expires = t] \in Account
           /\ [a EXCEPT !.access = n, !.refresh = m, !.expires = t] \in Account
  BY DEF Account

(* Requests are idle in a state of their type. *)
LEMMA IdleRequestType == IdleRequest \in RequestState
  BY DEF IdleRequest, RequestState, RequestFields, Mode, NoLabel, NoToken

(* Candidates are built from listed labels with their priorities. *)
LEMMA CandidatesType ==
    ASSUME NEW pool \in [Label -> Account], NEW S \in SUBSET Label
    PROVE  AsCandidates(pool, S) \in SUBSET Candidate
  BY DEF AsCandidates, Candidate, Account

(* The accounts a walk visits are candidates. *)
LEMMA CandidatesForType ==
    ASSUME TypeOK, NEW mode \in Mode
    PROVE  CandidatesFor(mode) \in SUBSET Candidate
  <1>1. {l \in ListedLabels(accounts) :
            /\ accounts[l].enabled
            /\ mode = "serve" => accounts[l].cooldown <= now} \in SUBSET Label
    BY DEF ListedLabels
  <1>2. QED
    BY <1>1, CandidatesType DEF CandidatesFor, TypeOK

(* The headers of a client's call are a state of a request. *)
LEMMA HoldingType ==
    ASSUME TypeOK, NEW r \in Request, NEW l \in Label, NEW tok \in Nat
    PROVE  Holding(r, l, tok) \in RequestState
  BY DEF Holding, IdleRequest, RequestState, RequestFields, TypeOK, Mode, NoLabel, NoToken

(* So is the refresh call of one. *)
LEMMA RefreshingType ==
    ASSUME TypeOK, NEW r \in Request, NEW mode \in Mode,
           NEW C \in SUBSET Candidate, NEW c \in C, NEW a \in Account
    PROVE  Refreshing(r, mode, C, c, a) \in RequestState
  <1>1. {d \in C : Precedes(c, d)} \in SUBSET Candidate
    OBVIOUS
  <1>2. c.label \in Label
    BY DEF Candidate
  <1>3. a.access \in Nat /\ a.refresh \in Nat
    BY DEF Account
  <1>4. /\ req[r].limited \in Label \cup {NoLabel}
        /\ req[r].until \in Nat
        /\ req[r].rejected \in BOOLEAN
    BY DEF TypeOK, RequestState, RequestFields
  <1>5. QED
    BY <1>1, <1>2, <1>3, <1>4 DEF Refreshing, RequestState, RequestFields, NoToken

(* A walk leaves every request in a state of its type. *)
LEMMA WalkType ==
    ASSUME TypeOK, NEW r \in Request, NEW mode \in Mode,
           NEW C \in SUBSET Candidate, NEW pool \in [Label -> Account],
           Walk(r, mode, C, pool)
    PROVE  req' \in [Request -> RequestState]
  <1>1. CASE req' = [req EXCEPT ![r] = IdleRequest]
    BY <1>1, IdleRequestType DEF TypeOK
  <1>2. ASSUME NEW c \in C,
               req' = [req EXCEPT ![r] =
                  IF mode = "serve" /\ ~NeedsRefresh(pool[c.label])
                  THEN Holding(r, c.label, pool[c.label].access)
                  ELSE Refreshing(r, mode, C, c, pool[c.label])]
        PROVE  req' \in [Request -> RequestState]
    <2>1. c.label \in Label /\ pool[c.label] \in Account
      BY DEF Candidate
    <2>2. pool[c.label].access \in Nat
      BY <2>1 DEF Account
    <2>3. Holding(r, c.label, pool[c.label].access) \in RequestState
      BY <2>1, <2>2, HoldingType
    <2>4. Refreshing(r, mode, C, c, pool[c.label]) \in RequestState
      BY <2>1, RefreshingType
    <2>5. QED
      BY <1>2, <2>3, <2>4 DEF TypeOK
  <1>3. QED
    BY <1>1, <1>2 DEF Walk, First

(* A mark leaves a pool of accounts. *)
LEMMA MarkedType ==
    ASSUME TypeOK, NEW l, NEW tok
    PROVE  /\ RateLimitMarked(accounts, l, tok) \in [Label -> Account]
           /\ AuthExpiredMarked(accounts, l, tok) \in [Label -> Account]
  <1>1. now + Cooldown \in Nat
    BY TimingAssumption DEF TypeOK
  <1>2. accounts \in [Label -> Account]
    BY DEF TypeOK
  <1>3. \A k \in Label : /\ [accounts[k] EXCEPT !.cooldown = now + Cooldown] \in Account
                         /\ [accounts[k] EXCEPT !.expires = 0] \in Account
    BY <1>1, <1>2, AccountUpdateType
  <1>4. QED
    BY <1>2, <1>3 DEF RateLimitMarked, AuthExpiredMarked

(* The initial states are of their type. *)
LEMMA InitType == Init => TypeOK
  <1> SUFFICES ASSUME Init PROVE TypeOK
    OBVIOUS
  <1>1. Label \subseteq Nat /\ NumLabels \in Nat
    BY LabelAssumption DEF Label
  <1>2. accounts \in [Label -> Account]
    <2>1. PICK prio \in [Label -> Priority] :
            accounts = [l \in Label |-> IF l \in InitListed
                                       THEN NewAccount(l, prio[l], l, 0)
                                       ELSE NoAccount]
      BY DEF Init
    <2>2. \A l \in Label : NewAccount(l, prio[l], l, 0) \in Account
      BY <1>1, NewAccountType
    <2>3. QED
      BY <2>1, <2>2, NewAccountType
  <1>3. defaultLabel \in Label \cup {NoLabel}
    BY InitAssumption DEF Init
  <1>4. QED
    BY <1>1, <1>2, <1>3, IdleRequestType, InitAssumption DEF Init, TypeOK

(* A request whose limit is forgiven is still of its type. *)
LEMMA ForgivenType ==
    ASSUME TypeOK, NEW l
    PROVE  Forgiven(l) \in [Request -> RequestState]
  <1>1. \A s \in RequestState :
            [s EXCEPT !.limited = NoLabel, !.until = 0] \in RequestState
    BY DEF RequestState, RequestFields, NoLabel
  <1>2. QED
    BY <1>1 DEF Forgiven, TypeOK

(* The steps of requests preserve the type invariant. *)
LEMMA RequestStepType ==
    ASSUME TypeOK, NEW r \in Request, RequestStep(r)
    PROVE  TypeOK'
  <1>1. /\ req[r] \in RequestState
        /\ \A a \in Label : accounts[a] \in Account
    BY DEF TypeOK
  <1>2. CASE GetHeaders(r)
    <2>1. req' \in [Request -> RequestState]
      BY <1>2, CandidatesForType, WalkType DEF GetHeaders, TypeOK, Mode
    <2>2. QED
      BY <1>2, <2>1 DEF GetHeaders, TypeOK, operator, server
  <1>3. CASE NoneAvailable(r)
    BY <1>3, IdleRequestType DEF NoneAvailable, TypeOK, operator, server
  <1>4. CASE \E mode \in Mode : LoginAll(r, mode)
    <2>1. PICK mode \in Mode : LoginAll(r, mode)
      BY <1>4
    <2>2. req' \in [Request -> RequestState]
      BY <2>1, CandidatesForType, WalkType DEF LoginAll, TypeOK
    <2>3. QED
      BY <2>1, <2>2 DEF LoginAll, TypeOK, server
  <1>5. CASE ServerGrants(r)
    <2>1. req[r].oldRefresh \in Nat
      BY <1>1 DEF RequestState, RequestFields
    <2>2. serial' \in Nat /\ live' \subseteq Nat /\ lost' \subseteq Nat
      BY <1>5, <2>1 DEF ServerGrants, TypeOK
    <2>3. req' \in [Request -> RequestState]
      BY <1>5, <1>1, <2>1 DEF ServerGrants, TypeOK, RequestState, RequestFields
    <2>4. QED
      BY <1>5, <2>2, <2>3 DEF ServerGrants, TypeOK, operator
  <1>6. CASE ServerRefuses(r) \/ CallFails(r)
    BY <1>6, <1>1
    DEF ServerRefuses, CallFails, TypeOK, RequestState, RequestFields, operator, server
  <1>7. CASE ReplyWithoutToken(r)
    <2>1. req' \in [Request -> RequestState]
      BY <1>7, <1>1, WalkType DEF ReplyWithoutToken, TypeOK, RequestState, RequestFields
    <2>2. QED
      BY <1>7, <2>1 DEF ReplyWithoutToken, TypeOK, operator, server
  <1>8. CASE WriteBack(r)
    <2> DEFINE written ==
            [accounts EXCEPT ![req[r].label].access = req[r].access,
                             ![req[r].label].refresh = req[r].refresh,
                             ![req[r].label].expires = now + TokenTTL]
    <2>1. /\ req[r].label \in Label
          /\ req[r].access \in Nat /\ req[r].refresh \in Nat
          /\ req[r].mode \in Mode /\ req[r].rest \in SUBSET Candidate
      BY <1>1, <1>8 DEF RequestState, RequestFields, WriteBack
    <2>2. written \in [Label -> Account]
      <3>1. now + TokenTTL \in Nat
        BY TimingAssumption DEF TypeOK
      <3>2. accounts \in [Label -> Account]
        BY DEF TypeOK
      <3>3. [accounts[req[r].label] EXCEPT !.access = req[r].access,
                !.refresh = req[r].refresh, !.expires = now + TokenTTL] \in Account
        BY <3>1, <3>2, <2>1, AccountUpdateType
      <3>4. written = [accounts EXCEPT ![req[r].label] =
                [accounts[req[r].label] EXCEPT !.access = req[r].access,
                   !.refresh = req[r].refresh, !.expires = now + TokenTTL]]
        BY <3>2, <2>1
      <3>5. QED
        BY <2>1, <3>2, <3>3, <3>4
    <2>3. CASE /\ accounts' = written
               /\ req' = [req EXCEPT ![r] =
                            Holding(r, req[r].label, req[r].access)]
      BY <1>8, <2>1, <2>2, <2>3, HoldingType
      DEF WriteBack, TypeOK, operator, server
    <2>4. CASE /\ accounts' = written
               /\ Walk(r, req[r].mode, req[r].rest, written)
      BY <1>8, <2>1, <2>2, <2>4, WalkType
      DEF WriteBack, TypeOK, operator, server
    <2>5. CASE /\ UNCHANGED accounts
               /\ Walk(r, req[r].mode, req[r].rest, accounts)
      BY <1>8, <2>1, <2>5, WalkType DEF WriteBack, TypeOK, operator, server
    <2>6. QED
      BY <1>8, <2>3, <2>4, <2>5 DEF WriteBack, Written
  <1>9. CASE RefreshFailed(r)
    <2> DEFINE marked == IF req[r].mode = "serve"
                         THEN RateLimitMarked(accounts, req[r].label,
                                              req[r].oldAccess)
                         ELSE accounts
    <2>1. marked \in [Label -> Account]
      BY MarkedType DEF TypeOK
    <2>2. req[r].mode \in Mode /\ req[r].rest \in SUBSET Candidate
      BY <1>1 DEF RequestState, RequestFields
    <2>3. req' \in [Request -> RequestState]
      BY <1>9, <2>1, <2>2, WalkType DEF RefreshFailed
    <2>4. QED
      BY <1>9, <2>1, <2>3 DEF RefreshFailed, TypeOK, operator, server
  <1>10. CASE Answered(r)
    BY <1>10, IdleRequestType DEF Answered, TypeOK, operator, server
  <1>11. CASE RateLimited(r)
    <2>1. accounts' \in [Label -> Account]
      BY <1>11, MarkedType DEF RateLimited
    <2>2. now + Cooldown \in Nat
      BY TimingAssumption DEF TypeOK
    <2>3. [IdleRequest EXCEPT !.pc = "backoff", !.limited = req[r].label,
                              !.until = now + Cooldown] \in RequestState
      BY <1>1, <2>2, IdleRequestType DEF RequestState, RequestFields
    <2>4. QED
      BY <1>11, <2>1, <2>3 DEF RateLimited, TypeOK, operator, server
  <1>12. CASE AuthRejected(r)
    <2>1. accounts' \in [Label -> Account]
      BY <1>12, MarkedType DEF AuthRejected
    <2>2. [IdleRequest EXCEPT !.pc = "backoff", !.rejected = TRUE,
              !.limited = req[r].limited, !.until = req[r].until]
            \in RequestState
      BY <1>1, IdleRequestType DEF RequestState, RequestFields
    <2>3. QED
      BY <1>12, <2>1, <2>2 DEF AuthRejected, TypeOK, operator, server
  <1>13. QED
    BY <1>2, <1>3, <1>4, <1>5, <1>6, <1>7, <1>8, <1>9, <1>10, <1>11, <1>12
    DEF RequestStep, Acquire

(* So do the operators' commands. *)
LEMMA OperatorStepType ==
    ASSUME TypeOK, OperatorStep
    PROVE  TypeOK'
  <1>1. /\ accounts \in [Label -> Account]
        /\ \A l \in Label : accounts[l] \in Account /\ accounts[l].pos \in Nat
    BY DEF TypeOK, Account
  <1>2. Label \subseteq Nat
    BY LabelAssumption DEF Label
  <1>3. ASSUME NEW a \in Admin, NEW l \in Label, BeginAdd(a, l)
        PROVE  TypeOK'
    BY <1>3 DEF BeginAdd, Command, TypeOK, server
  <1>4. ASSUME NEW a \in Admin, NEW p \in Priority, FinishAdd(a, p)
        PROVE  TypeOK'
    <2> DEFINE l == adding[a]
    <2>1. l \in Label
      BY <1>4 DEF FinishAdd, TypeOK
    <2>2. PICK n : /\ n \in Nat
                   /\ accounts' = [accounts EXCEPT ![l] =
                          NewAccount(n, p, serial + 1, now + TokenTTL)]
      <3>1. PICK m \in LastPlace :
                accounts' = [accounts EXCEPT ![l] =
                    NewAccount(IF Listed(accounts, l) THEN accounts[l].pos ELSE m + 1,
                               p, serial + 1, now + TokenTTL)]
        BY <1>4 DEF FinishAdd
      <3>2. m \in Nat
        BY <1>1 DEF LastPlace, Places
      <3>3. (IF Listed(accounts, l) THEN accounts[l].pos ELSE m + 1) \in Nat
        BY <1>1, <2>1, <3>2
      <3>4. QED
        BY <3>1, <3>3
    <2>3. NewAccount(n, p, serial + 1, now + TokenTTL) \in Account
      <3>1. serial + 1 \in Nat /\ now + TokenTTL \in Nat
        BY TimingAssumption DEF TypeOK
      <3>2. QED
        BY <2>2, <3>1, NewAccountType
    <2>4. accounts' \in [Label -> Account]
      BY <1>1, <2>1, <2>2, <2>3
    <2>5. /\ defaultLabel' \in Label \cup {NoLabel}
          /\ adding' \in [Admin -> Label \cup {NoLabel}]
          /\ req' \in [Request -> RequestState]
          /\ serial' \in Nat /\ live' \subseteq Nat
      BY <1>4, <2>1, ForgivenType DEF FinishAdd, TypeOK
    <2>6. QED
      BY <1>4, <2>4, <2>5 DEF FinishAdd, TypeOK
  <1>5. ASSUME NEW a \in Admin, AbandonAdd(a)
        PROVE  TypeOK'
    BY <1>5 DEF AbandonAdd, TypeOK, server
  <1>6. ASSUME NEW l \in Label, NEW on \in BOOLEAN, SetEnabled(l, on)
        PROVE  TypeOK'
    <2>1. \A b \in Account, t \in Nat :
             [b EXCEPT !.enabled = on, !.cooldown = t] \in Account
      BY DEF Account
    <2>2. accounts[l].cooldown \in Nat
      BY <1>1 DEF Account
    <2>3. accounts' = [accounts EXCEPT ![l] = [accounts[l] EXCEPT
              !.enabled = on,
              !.cooldown = IF on THEN accounts[l].cooldown ELSE 0]]
      BY <1>1, <1>6 DEF SetEnabled
    <2>4. accounts' \in [Label -> Account]
      BY <1>1, <2>1, <2>2, <2>3
    <2>5. req' \in [Request -> RequestState]
      BY <1>6, ForgivenType DEF SetEnabled, TypeOK
    <2>6. QED
      BY <1>6, <2>4, <2>5 DEF SetEnabled, Command, TypeOK, server
  <1>7. ASSUME NEW l \in Label, NEW p \in Priority, SetPriority(l, p)
        PROVE  TypeOK'
    <2>1. \A b \in Account : [b EXCEPT !.priority = p] \in Account
      BY DEF Account
    <2>2. accounts' \in [Label -> Account]
      BY <1>1, <1>7, <2>1 DEF SetPriority
    <2>3. QED
      BY <1>7, <2>2 DEF SetPriority, Command, TypeOK, server
  <1>8. ASSUME NEW l \in Label, SwitchDefault(l)
        PROVE  TypeOK'
    BY <1>8 DEF SwitchDefault, Command, TypeOK, server
  <1>9. ASSUME NEW l \in Label, RemoveAccount(l)
        PROVE  TypeOK'
    <2>1. accounts' \in [Label -> Account]
      BY <1>1, <1>9, NewAccountType DEF RemoveAccount
    <2>2. defaultLabel' \in Label \cup {NoLabel}
      <3>1. AsCandidates(accounts, ListedLabels(accounts) \ {l})
                 \in SUBSET Candidate
        <4>1. ListedLabels(accounts) \ {l} \in SUBSET Label
          BY DEF ListedLabels
        <4>2. QED
          BY <1>1, <4>1, CandidatesType
      <3>2. \A c \in First(AsCandidates(accounts, ListedLabels(accounts) \ {l})) :
                c.label \in Label
        BY <3>1 DEF First, Candidate
      <3>3. QED
        BY <1>9, <3>2 DEF RemoveAccount, DefaultWithout, TypeOK
    <2>3. req' \in [Request -> RequestState]
      BY <1>9, ForgivenType DEF RemoveAccount
    <2>4. QED
      BY <1>9, <2>1, <2>2, <2>3 DEF RemoveAccount, Command, TypeOK, server
  <1>10. QED
    BY <1>3, <1>4, <1>5, <1>6, <1>7, <1>8, <1>9 DEF OperatorStep

(* Every reachable state has the types of TypeOK: no interleaving of       *)
(* requests, refreshes, login-alls and commands leaves the store or a      *)
(* request in a shape the code does not expect.                            *)
THEOREM TypeCorrect == Spec => []TypeOK
  <1>1. Init => TypeOK
    BY InitType
  <1>2. TypeOK /\ [Next]_vars => TypeOK'
    <2> SUFFICES ASSUME TypeOK, [Next]_vars PROVE TypeOK'
      OBVIOUS
    <2>1. CASE \E r \in Request : RequestStep(r)
      BY <2>1, RequestStepType
    <2>2. CASE OperatorStep
      BY <2>2, OperatorStepType
    <2>3. CASE Tick
      BY <2>3 DEF Tick, TypeOK, operator, server
    <2>4. CASE UNCHANGED vars
      BY <2>4 DEF vars, TypeOK, operator, server
    <2>5. QED
      BY <2>1, <2>2, <2>3, <2>4 DEF Next
  <1>3. QED
    BY <1>1, <1>2, PTL DEF Spec

-----------------------------------------------------------------------------
(* What requests leave alone. *)

(* No cooldown outlasts one that starts now. *)
CooldownBound == \A l \in Label : accounts[l].cooldown <= now + Cooldown

(* Pool q differs from pool p in tokens, expiries and later cooldowns. *)
KeepsCommands(p, q) ==
    \A l \in Label : /\ q[l].pos = p[l].pos
                     /\ q[l].enabled = p[l].enabled
                     /\ q[l].priority = p[l].priority
                     /\ q[l].cooldown >= p[l].cooldown

(* Marks only prolong a cooldown or clear an expiry. *)
LEMMA MarkedKeeps ==
    ASSUME TypeOK, CooldownBound, NEW l, NEW tok
    PROVE  /\ KeepsCommands(accounts, accounts)
           /\ KeepsCommands(accounts, RateLimitMarked(accounts, l, tok))
           /\ KeepsCommands(accounts, AuthExpiredMarked(accounts, l, tok))
           /\ \A k \in Label :
                 /\ RateLimitMarked(accounts, l, tok)[k].cooldown <= now + Cooldown
                 /\ AuthExpiredMarked(accounts, l, tok)[k].cooldown <= now + Cooldown
  <1>1. \A k \in Label : /\ accounts[k] \in Account
                         /\ accounts[k].cooldown \in Nat
                         /\ accounts[k].cooldown <= now + Cooldown
    BY DEF TypeOK, Account, CooldownBound
  <1>2. now + Cooldown \in Nat
    BY TimingAssumption DEF TypeOK
  <1>3. ASSUME NEW k \in Label
        PROVE  LET a == RateLimitMarked(accounts, l, tok)[k]
               IN  /\ a.pos = accounts[k].pos
                   /\ a.enabled = accounts[k].enabled
                   /\ a.priority = accounts[k].priority
                   /\ a.cooldown \in {accounts[k].cooldown, now + Cooldown}
    <2>1. RateLimitMarked(accounts, l, tok)[k] \in
             {accounts[k], [accounts[k] EXCEPT !.cooldown = now + Cooldown]}
      BY DEF RateLimitMarked
    <2>2. QED
      BY <1>1, <2>1 DEF Account
  <1>4. ASSUME NEW k \in Label
        PROVE  LET a == AuthExpiredMarked(accounts, l, tok)[k]
               IN  /\ a.pos = accounts[k].pos
                   /\ a.enabled = accounts[k].enabled
                   /\ a.priority = accounts[k].priority
                   /\ a.cooldown = accounts[k].cooldown
    <2>1. AuthExpiredMarked(accounts, l, tok)[k] \in
             {accounts[k], [accounts[k] EXCEPT !.expires = 0]}
      BY DEF AuthExpiredMarked
    <2>2. QED
      BY <1>1, <2>1 DEF Account
  <1>5. QED
    BY <1>1, <1>2, <1>3, <1>4 DEF KeepsCommands

(* A request's step keeps what the operators decided. *)
LEMMA RequestStepKeeps ==
    ASSUME TypeOK, CooldownBound, NEW r \in Request, RequestStep(r)
    PROVE  KeepsCommands(accounts, accounts') /\ CooldownBound'
           /\ UNCHANGED defaultLabel
  <1>1. CASE UNCHANGED <<accounts, defaultLabel, now>>
    BY <1>1, MarkedKeeps DEF KeepsCommands, CooldownBound
  <1>2. CASE WriteBack(r) /\ accounts' # accounts
    <2> DEFINE l == req[r].label
    <2>1. l \in Label
      BY <1>2 DEF WriteBack, TypeOK, RequestState
    <2>2. accounts' = [accounts EXCEPT ![l] = Written(r)]
      BY <1>2 DEF WriteBack
    <2>3. \A k \in Label : accounts[k] \in Account
      BY DEF TypeOK
    <2>4. accounts' = [accounts EXCEPT ![l] = [accounts[l] EXCEPT
              !.access = req[r].access, !.refresh = req[r].refresh,
              !.expires = now + TokenTTL]]
      BY <2>2 DEF Written
    <2>5. \A k \in Label : /\ accounts'[k].pos = accounts[k].pos
                           /\ accounts'[k].enabled = accounts[k].enabled
                           /\ accounts'[k].priority = accounts[k].priority
                           /\ accounts'[k].cooldown = accounts[k].cooldown
      BY <2>1, <2>3, <2>4 DEF TypeOK, Account
    <2>6. UNCHANGED <<now, defaultLabel>>
      BY <1>2 DEF WriteBack
    <2>7. QED
      BY <2>5, <2>6, MarkedKeeps DEF KeepsCommands, CooldownBound
  <1>3. CASE RefreshFailed(r)
    <2>1. /\ accounts' \in {accounts,
                RateLimitMarked(accounts, req[r].label, req[r].oldAccess)}
          /\ UNCHANGED <<now, defaultLabel>>
      BY <1>3 DEF RefreshFailed
    <2>2. QED
      BY <2>1, MarkedKeeps DEF CooldownBound
  <1>4. CASE RateLimited(r) \/ AuthRejected(r)
    BY <1>4, MarkedKeeps DEF RateLimited, AuthRejected, CooldownBound
  <1>5. QED
    BY <1>1, <1>2, <1>3, <1>4
    DEF RequestStep, Acquire, GetHeaders, NoneAvailable, LoginAll, ServerGrants,
        ServerRefuses, CallFails, ReplyWithoutToken, WriteBack, Answered

(* A new account and an absent one do not cool down. *)
LEMMA NewAccountFields ==
    \A pos, prio, tok, t : /\ NewAccount(pos, prio, tok, t).pos = pos
                           /\ NewAccount(pos, prio, tok, t).cooldown = 0
  BY DEF NewAccount

(* An absent account is not listed and does not cool down. *)
LEMMA NoAccountFields == NoAccount.pos = 0 /\ NoAccount.cooldown = 0
  BY NewAccountFields DEF NoAccount

(* A finished login puts an account with no cooldown at its label. *)
LEMMA FinishAddEffect ==
    ASSUME TypeOK, NEW a \in Admin, NEW p \in Priority, FinishAdd(a, p)
    PROVE  /\ adding[a] \in Label
           /\ accounts'[adding[a]].pos # 0
           /\ accounts'[adding[a]].cooldown = 0
           /\ \A k \in Label \ {adding[a]} : accounts'[k] = accounts[k]
  <1> DEFINE l == adding[a]
             place(m) == IF Listed(accounts, l) THEN accounts[l].pos ELSE m + 1
  <1>1. l \in Label
    BY DEF FinishAdd, TypeOK
  <1>2. PICK m \in LastPlace :
            accounts' = [accounts EXCEPT ![l] =
                NewAccount(place(m), p, serial + 1, now + TokenTTL)]
    BY DEF FinishAdd
  <1>3. \A k \in Label : accounts[k].pos \in Nat
    BY DEF TypeOK, Account
  <1>4. m \in Nat
    BY <1>3 DEF LastPlace, Places
  <1>5. place(m) # 0
    BY <1>3, <1>4, <1>1 DEF Listed
  <1>6. accounts'[l] = NewAccount(place(m), p, serial + 1, now + TokenTTL)
    BY <1>1, <1>2 DEF TypeOK
  <1>7. QED
    BY <1>1, <1>2, <1>5, <1>6, NewAccountFields DEF TypeOK

(* No command starts a cooldown. *)
LEMMA OperatorStepCooldowns ==
    ASSUME TypeOK, CooldownBound, OperatorStep
    PROVE  CooldownBound'
  <1>1. /\ \A l \in Label : accounts[l] \in Account
        /\ accounts \in [Label -> Account]
    BY DEF TypeOK
  <1>2. UNCHANGED now
    BY DEF OperatorStep, BeginAdd, FinishAdd, AbandonAdd, SetEnabled,
           SetPriority, SwitchDefault, RemoveAccount
  <1>3. 0 <= now + Cooldown
    BY TimingAssumption DEF TypeOK
  <1>4. SUFFICES ASSUME NEW k \in Label
                 PROVE  accounts'[k].cooldown \in {accounts[k].cooldown, 0}
    BY <1>2, <1>3 DEF CooldownBound
  <1>5. CASE UNCHANGED accounts
    BY <1>5
  <1>6. ASSUME NEW a \in Admin, NEW p \in Priority, FinishAdd(a, p)
        PROVE  accounts'[k].cooldown \in {accounts[k].cooldown, 0}
    BY <1>6, FinishAddEffect
  <1>7. ASSUME NEW l \in Label, NEW on \in BOOLEAN, SetEnabled(l, on)
        PROVE  accounts'[k].cooldown \in {accounts[k].cooldown, 0}
    <2>1. accounts' = [accounts EXCEPT ![l] = [accounts[l] EXCEPT
              !.enabled = on,
              !.cooldown = IF on THEN accounts[l].cooldown ELSE 0]]
      BY <1>1, <1>7 DEF SetEnabled
    <2>2. accounts'[k] \in {accounts[k], [accounts[k] EXCEPT
              !.enabled = on,
              !.cooldown = IF on THEN accounts[k].cooldown ELSE 0]}
      BY <1>1, <2>1
    <2>3. QED
      BY <1>1, <2>2 DEF Account
  <1>8. ASSUME NEW l \in Label, NEW p \in Priority, SetPriority(l, p)
        PROVE  accounts'[k].cooldown \in {accounts[k].cooldown, 0}
    <2>1. accounts'[k] \in {accounts[k], [accounts[k] EXCEPT !.priority = p]}
      BY <1>1, <1>8 DEF SetPriority
    <2>2. QED
      BY <1>1, <2>1 DEF Account
  <1>9. ASSUME NEW l \in Label, RemoveAccount(l)
        PROVE  accounts'[k].cooldown \in {accounts[k].cooldown, 0}
    BY <1>1, <1>9, NoAccountFields DEF RemoveAccount
  <1>10. QED
    BY <1>5, <1>6, <1>7, <1>8, <1>9
    DEF OperatorStep, BeginAdd, AbandonAdd, SwitchDefault

(* The default follows the commands. *)
LEMMA OperatorStepDefault ==
    ASSUME TypeOK, DefaultNamesAccount, OperatorStep
    PROVE  DefaultNamesAccount'
  <1>1. /\ \A l \in Label : accounts[l] \in Account
        /\ accounts \in [Label -> Account]
    BY DEF TypeOK
  <1>2. NoLabel \notin Label
    BY LabelAssumption DEF Label, NoLabel
  <1>3. CASE UNCHANGED <<accounts, defaultLabel>>
    BY <1>3 DEF DefaultNamesAccount, ListedLabels, Listed
  <1>4. ASSUME NEW a \in Admin, NEW p \in Priority, FinishAdd(a, p)
        PROVE  DefaultNamesAccount'
    <2>1. ListedLabels(accounts') = ListedLabels(accounts) \cup {adding[a]}
      BY <1>4, FinishAddEffect DEF ListedLabels, Listed
    <2>2. defaultLabel' = IF defaultLabel = NoLabel THEN adding[a] ELSE defaultLabel
      BY <1>4 DEF FinishAdd
    <2>3. QED
      BY <2>1, <2>2, <1>2 DEF DefaultNamesAccount, ListedLabels
  <1>5. ASSUME \A k \in Label : accounts'[k].pos = accounts[k].pos,
               UNCHANGED defaultLabel
        PROVE  DefaultNamesAccount'
    BY <1>5 DEF DefaultNamesAccount, ListedLabels, Listed
  <1>6. ASSUME NEW l \in Label, NEW on \in BOOLEAN, SetEnabled(l, on)
        PROVE  DefaultNamesAccount'
    <2>1. accounts' = [accounts EXCEPT ![l] = [accounts[l] EXCEPT
              !.enabled = on,
              !.cooldown = IF on THEN accounts[l].cooldown ELSE 0]]
      BY <1>1, <1>6 DEF SetEnabled
    <2>2. \A k \in Label : accounts'[k].pos = accounts[k].pos
      BY <1>1, <2>1 DEF Account
    <2>3. QED
      BY <1>5, <1>6, <2>2 DEF SetEnabled
  <1>7. ASSUME NEW l \in Label, NEW p \in Priority, SetPriority(l, p)
        PROVE  DefaultNamesAccount'
    <2>1. \A k \in Label : accounts'[k].pos = accounts[k].pos
      BY <1>1, <1>7 DEF SetPriority, Account
    <2>2. QED
      BY <1>5, <1>7, <2>1 DEF SetPriority
  <1>8. ASSUME NEW l \in Label, SwitchDefault(l)
        PROVE  DefaultNamesAccount'
    BY <1>8 DEF SwitchDefault, DefaultNamesAccount, ListedLabels, Listed
  <1>9. ASSUME NEW l \in Label, RemoveAccount(l)
        PROVE  DefaultNamesAccount'
    <2>1. ListedLabels(accounts') = ListedLabels(accounts) \ {l}
      BY <1>1, <1>9, NoAccountFields DEF RemoveAccount, ListedLabels, Listed
    <2>2. CASE defaultLabel # l /\ UNCHANGED defaultLabel
      BY <1>9, <2>1, <2>2
      DEF DefaultNamesAccount, RemoveAccount, ListedLabels
    <2>3. CASE /\ ListedLabels(accounts) \ {l} = {}
               /\ defaultLabel' = NoLabel
      BY <2>1, <2>3 DEF DefaultNamesAccount
    <2>4. CASE \E c \in First(AsCandidates(accounts, ListedLabels(accounts) \ {l})) :
                  defaultLabel' = c.label
      BY <2>1, <2>4 DEF DefaultNamesAccount, First, AsCandidates
    <2>5. QED
      BY <1>9, <2>2, <2>3, <2>4 DEF RemoveAccount, DefaultWithout
  <1>10. QED
    BY <1>3, <1>4, <1>6, <1>7, <1>8, <1>9
    DEF OperatorStep, BeginAdd, AbandonAdd

(* Cooldowns stay bounded: the fact the action property below rests on. *)
LEMMA CooldownsBounded == Spec => []CooldownBound
  <1>1. Init => CooldownBound
    <2> SUFFICES ASSUME Init PROVE CooldownBound
      OBVIOUS
    <2>1. PICK prio \in [Label -> Priority] :
            accounts = [l \in Label |-> IF l \in InitListed
                                       THEN NewAccount(l, prio[l], l, 0)
                                       ELSE NoAccount]
      BY DEF Init
    <2>2. \A l \in Label : accounts[l].cooldown = 0
      BY <2>1, NewAccountFields, NoAccountFields
    <2>3. QED
      BY <2>2, TimingAssumption DEF CooldownBound, Init
  <1>2. TypeOK /\ CooldownBound /\ [Next]_vars => CooldownBound'
    <2> SUFFICES ASSUME TypeOK, CooldownBound, [Next]_vars PROVE CooldownBound'
      OBVIOUS
    <2>1. CASE \E r \in Request : RequestStep(r)
      BY <2>1, RequestStepKeeps
    <2>2. CASE OperatorStep
      BY <2>2, OperatorStepCooldowns
    <2>3. CASE Tick
      <3>1. \A l \in Label : accounts[l].cooldown \in Nat
        BY DEF TypeOK, Account
      <3>2. QED
        BY <2>3, <3>1, TimingAssumption DEF Tick, TypeOK, CooldownBound
    <2>4. CASE UNCHANGED vars
      BY <2>4 DEF vars, CooldownBound
    <2>5. QED
      BY <2>1, <2>2, <2>3, <2>4 DEF Next
  <1>3. QED
    BY <1>1, <1>2, TypeCorrect, PTL DEF Spec

(* The default label names an account whenever the pool has one, in every  *)
(* interleaving of logins, removals, switches and requests.                *)
THEOREM DefaultCorrect == Spec => []DefaultNamesAccount
  <1>1. Init => DefaultNamesAccount
    <2> SUFFICES ASSUME Init PROVE DefaultNamesAccount
      OBVIOUS
    <2>1. PICK prio \in [Label -> Priority] :
            accounts = [l \in Label |-> IF l \in InitListed
                                       THEN NewAccount(l, prio[l], l, 0)
                                       ELSE NoAccount]
      BY DEF Init
    <2>2. \A l \in Label : l # 0
      BY LabelAssumption DEF Label
    <2>3. ListedLabels(accounts) = InitListed
      BY <2>1, <2>2, NewAccountFields, NoAccountFields, InitAssumption
      DEF ListedLabels, Listed
    <2>4. QED
      BY <2>3 DEF DefaultNamesAccount, Init
  <1>2. /\ TypeOK /\ CooldownBound /\ DefaultNamesAccount /\ [Next]_vars
        => DefaultNamesAccount'
    <2> SUFFICES ASSUME TypeOK, CooldownBound, DefaultNamesAccount, [Next]_vars
                 PROVE  DefaultNamesAccount'
      OBVIOUS
    <2>1. CASE \E r \in Request : RequestStep(r)
      BY <2>1, RequestStepKeeps
      DEF KeepsCommands, DefaultNamesAccount, ListedLabels, Listed
    <2>2. CASE OperatorStep
      BY <2>2, OperatorStepDefault
    <2>3. CASE Tick \/ UNCHANGED vars
      BY <2>3 DEF Tick, vars, DefaultNamesAccount
    <2>4. QED
      BY <2>1, <2>2, <2>3 DEF Next
  <1>3. QED
    BY <1>1, <1>2, TypeCorrect, CooldownsBounded, PTL DEF Spec

(* No request undoes an operator's command, brings back a removed account  *)
(* or shortens a cooldown, whatever it read before the command.            *)
THEOREM CommandsKept == Spec => RequestsKeepCommands
  <1>1. TypeOK /\ CooldownBound /\ [Next]_vars
            => [UNCHANGED operator => KeepsCommands(accounts, accounts')]_vars
    <2> SUFFICES ASSUME TypeOK, CooldownBound, Next, UNCHANGED operator
                 PROVE  KeepsCommands(accounts, accounts')
      BY DEF vars
    <2>1. CASE \E r \in Request : RequestStep(r)
      BY <2>1, RequestStepKeeps
    <2>2. CASE OperatorStep
      <3>1. commands + 1 # commands
        BY DEF TypeOK
      <3>2. PICK a \in Admin : (\E p \in Priority : FinishAdd(a, p)) \/ AbandonAdd(a)
        BY <2>2, <3>1
        DEF OperatorStep, BeginAdd, SetEnabled, SetPriority, SwitchDefault,
            RemoveAccount, Command, operator
      <3>3. adding'[a] = NoLabel /\ adding[a] # NoLabel
        BY <3>2 DEF FinishAdd, AbandonAdd, TypeOK
      <3>4. QED
        BY <3>3 DEF operator
    <2>3. CASE Tick
      BY <2>3, MarkedKeeps DEF Tick
    <2>4. QED
      BY <2>1, <2>2, <2>3 DEF Next
  <1>2. QED
    BY <1>1, TypeCorrect, CooldownsBounded, PTL
    DEF Spec, RequestsKeepCommands, KeepsCommands

-----------------------------------------------------------------------------
(* What becomes of a reported limit, of the tokens a request carries, and  *)
(* of the grants of the accounts.                                          *)

(* No two labels share a ChatGPT account id, and each has one.  Without it *)
(* a mark may land on the other label of the same id.                      *)
DistinctIds ==
    \A k, l \in Label : AccountIdOf[k] # 0 /\ (AccountIdOf[k] = AccountIdOf[l] => k = l)

-----------------------------------------------------------------------------
(* Marks and walks. *)

(* Headers name their account while it is listed. *)
LEMMA HeadersName ==
    ASSUME TypeOK, DistinctIds, NEW l \in Label, NEW tok
    PROVE  /\ Listed(accounts, l) => AccountOfHeaders(accounts, l, tok) = {l}
           /\ ~Listed(accounts, l) =>
                 AccountOfHeaders(accounts, l, tok) \subseteq ByAccessToken(accounts, tok)
  <1>1. \A k \in ByAccountId(accounts, l) : k = l
    BY DEF DistinctIds, ByAccountId, ListedLabels
  <1>2. CASE Listed(accounts, l)
    <2>1. ByAccountId(accounts, l) = {l}
      BY <1>1, <1>2 DEF DistinctIds, ByAccountId, ListedLabels
    <2>2. AccountOfHeaders(accounts, l, tok) = FirstListed(accounts, {l})
      BY <2>1 DEF AccountOfHeaders
    <2>3. accounts[l].pos \in Nat
      BY DEF TypeOK, Account
    <2>4. QED
      BY <1>2, <2>2, <2>3 DEF FirstListed
  <1>3. CASE ~Listed(accounts, l)
    <2>1. ByAccountId(accounts, l) = {}
      BY <1>1, <1>3 DEF ByAccountId, ListedLabels
    <2>2. QED
      BY <1>3, <2>1 DEF AccountOfHeaders, FirstListed
  <1>4. QED
    BY <1>2, <1>3

(* A walk ends, or reaches a candidate that is listed, with what the pool  *)
(* holds of it.                                                            *)
LEMMA WalkReaches ==
    ASSUME TypeOK, NEW r \in Request, NEW mode \in Mode,
           NEW C \in SUBSET Candidate, NEW pool, Walk(r, mode, C, pool)
    PROVE  /\ \A s \in Request \ {r} : req'[s] = req[s]
           /\ \/ req'[r] = IdleRequest
              \/ \E c \in C :
                    /\ c.label \in Label /\ Listed(pool, c.label)
                    /\ \/ req'[r] = Holding(r, c.label, pool[c.label].access)
                       \/ req'[r] = Refreshing(r, mode, C, c, pool[c.label])
  <1>1. req \in [Request -> RequestState]
    BY DEF TypeOK
  <1>2. CASE req' = [req EXCEPT ![r] = IdleRequest]
    BY <1>1, <1>2
  <1>3. ASSUME NEW c \in C, Listed(pool, c.label),
               req' = [req EXCEPT ![r] =
                  IF mode = "serve" /\ ~NeedsRefresh(pool[c.label])
                  THEN Holding(r, c.label, pool[c.label].access)
                  ELSE Refreshing(r, mode, C, c, pool[c.label])]
        PROVE  /\ \A s \in Request \ {r} : req'[s] = req[s]
               /\ c.label \in Label
               /\ \/ req'[r] = Holding(r, c.label, pool[c.label].access)
                  \/ req'[r] = Refreshing(r, mode, C, c, pool[c.label])
    BY <1>1, <1>3 DEF Candidate
  <1>4. QED
    BY <1>2, <1>3 DEF Walk, First

(* The fields of the states a walk leaves a request in. *)
LEMMA WalkFields ==
    ASSUME NEW r \in Request, NEW mode, NEW C, NEW c, NEW a, NEW l, NEW tok
    PROVE  /\ IdleRequest.pc = "idle" /\ IdleRequest.limited = NoLabel
           /\ LET h == Holding(r, l, tok)
              IN  /\ h.pc = "holding" /\ h.label = l /\ h.rest = {} /\ h.access = tok
                  /\ h.limited = req[r].limited /\ h.until = req[r].until
           /\ LET f == Refreshing(r, mode, C, c, a)
              IN  /\ f.pc = "refreshing" /\ f.label = c.label
                  /\ f.rest \subseteq C
                  /\ f.oldAccess = a.access /\ f.oldRefresh = a.refresh
                  /\ f.limited = req[r].limited /\ f.until = req[r].until
  BY DEF IdleRequest, Holding, Refreshing

-----------------------------------------------------------------------------
(* Reported limits. *)

(* A request at an account, or on its way there. *)
AtAccount(r) == req[r].pc \in {"refreshing", "granted", "refused", "failed", "holding"}

(* The inductive strengthening of FailoverLeavesLimitedAccount: while the  *)
(* cooldown a request has reported lasts, the pool knows of it, so that    *)
(* the next selection leaves the account out.  A request that is over has  *)
(* forgotten what it reported.                                             *)
LimitStands(r) ==
    LET l == req[r].limited
    IN  /\ req[r].pc = "idle" => l = NoLabel
        /\ l # NoLabel /\ now < req[r].until =>
              /\ Listed(accounts, l) => req[r].until <= accounts[l].cooldown
              /\ AtAccount(r) => l \notin {req[r].label} \cup {c.label : c \in req[r].rest}

LimitInv == \A r \in Request : LimitStands(r)

(* A step that prolongs cooldowns leaves the reports of others standing. *)
LEMMA LimitKept ==
    ASSUME TypeOK, TypeOK', KeepsCommands(accounts, accounts'), UNCHANGED now,
           NEW s \in Request, LimitStands(s), req'[s] = req[s]
    PROVE  LimitStands(s)'
  <1>1. req[s] \in RequestFields
    BY DEF TypeOK, RequestState
  <1>2. req[s].limited \in Label \cup {NoLabel} /\ req[s].until \in Nat
    BY <1>1 DEF RequestFields
  <1>3. ASSUME NEW l \in Label
        PROVE  /\ Listed(accounts', l) = Listed(accounts, l)
               /\ accounts'[l].cooldown >= accounts[l].cooldown
    BY DEF KeepsCommands, Listed
  <1>4. \A l \in Label : accounts[l].cooldown \in Nat /\ accounts'[l].cooldown \in Nat
    BY DEF TypeOK, Account
  <1>5. now' = now
    OBVIOUS
  <1>6. ASSUME req[s].limited # NoLabel, now < req[s].until,
               Listed(accounts', req[s].limited)
        PROVE  req[s].until <= accounts'[req[s].limited].cooldown
    <2> DEFINE l == req[s].limited
    <2>1. l \in Label
      BY <1>2, <1>6
    <2>2. req[s].until <= accounts[l].cooldown
      BY <1>3, <1>6, <2>1 DEF LimitStands
    <2>3. accounts'[l].cooldown >= accounts[l].cooldown
      BY <1>3, <2>1
    <2>4. QED
      BY <1>2, <1>4, <2>1, <2>2, <2>3
  <1>7. QED
    BY <1>5, <1>6 DEF LimitStands, AtAccount

(* A walk over accounts other than the reported one does not come back to  *)
(* it.                                                                     *)
LEMMA LimitAfterWalk ==
    ASSUME TypeOK, TypeOK', KeepsCommands(accounts, accounts'), UNCHANGED now,
           NEW r \in Request, LimitStands(r), NEW mode \in Mode,
           NEW C \in SUBSET Candidate, NEW pool, Walk(r, mode, C, pool),
           req[r].limited # NoLabel /\ now < req[r].until
               => \A c \in C : c.label # req[r].limited
    PROVE  LimitStands(r)'
  <1>1. req[r].limited \in Label \cup {NoLabel} /\ req[r].until \in Nat
    BY DEF TypeOK, RequestState, RequestFields
  <1>2. CASE req'[r] = IdleRequest
    BY <1>2, WalkFields DEF LimitStands, AtAccount
  <1>3. ASSUME NEW c \in C,
               \/ req'[r] = Holding(r, c.label, pool[c.label].access)
               \/ req'[r] = Refreshing(r, mode, C, c, pool[c.label])
        PROVE  LimitStands(r)'
    <2>1. /\ req'[r].pc # "idle"
          /\ req'[r].limited = req[r].limited /\ req'[r].until = req[r].until
          /\ req'[r].label = c.label /\ req'[r].rest \subseteq C
      BY <1>3, WalkFields
    <2>2. ASSUME req[r].limited # NoLabel, now < req[r].until,
                 Listed(accounts', req[r].limited)
          PROVE  req[r].until <= accounts'[req[r].limited].cooldown
      <3> DEFINE l == req[r].limited
      <3>1. l \in Label
        BY <1>1, <2>2
      <3>2. /\ Listed(accounts, l)
            /\ accounts'[l].cooldown >= accounts[l].cooldown
            /\ accounts[l].cooldown \in Nat /\ accounts'[l].cooldown \in Nat
        BY <2>2, <3>1 DEF KeepsCommands, Listed, TypeOK, Account
      <3>3. req[r].until <= accounts[l].cooldown
        BY <2>2, <3>2 DEF LimitStands
      <3>4. QED
        BY <1>1, <3>2, <3>3
    <2>3. QED
      BY <2>1, <2>2 DEF LimitStands
  <1>4. ASSUME req'[r] # IdleRequest
        PROVE  LimitStands(r)'
    <2>1. PICK c \in C : /\ c.label \in Label /\ Listed(pool, c.label)
                         /\ \/ req'[r] = Holding(r, c.label, pool[c.label].access)
                            \/ req'[r] = Refreshing(r, mode, C, c, pool[c.label])
      BY <1>4, WalkReaches
    <2>2. QED
      BY <1>3, <2>1
  <1>5. QED
    BY <1>2, <1>4

(* What a client's call may select has no cooldown. *)
LEMMA SelectedNotLimited ==
    ASSUME TypeOK, NEW r \in Request, LimitStands(r),
           req[r].limited # NoLabel, now < req[r].until
    PROVE  \A c \in CandidatesFor("serve") : c.label # req[r].limited
  <1>1. SUFFICES ASSUME NEW c \in CandidatesFor("serve"), c.label = req[r].limited
                 PROVE  FALSE
    OBVIOUS
  <1>2. /\ c.label \in Label /\ Listed(accounts, c.label)
        /\ accounts[c.label].cooldown <= now
    BY DEF CandidatesFor, AsCandidates, ListedLabels
  <1>3. /\ now \in Nat /\ req[r].until \in Nat /\ accounts[c.label].cooldown \in Nat
    BY <1>2 DEF TypeOK, RequestState, RequestFields, Account
  <1>4. req[r].until <= accounts[c.label].cooldown
    BY <1>1, <1>2 DEF LimitStands
  <1>5. QED
    BY <1>2, <1>3, <1>4

(* A request's step leaves every report standing. *)
LEMMA RequestStepLimit ==
    ASSUME DistinctIds, TypeOK, TypeOK', CooldownBound, LimitInv,
           NEW r \in Request, RequestStep(r)
    PROVE  LimitInv'
  <1>1. KeepsCommands(accounts, accounts')
    BY RequestStepKeeps
  <1>2. UNCHANGED now
    BY DEF RequestStep, Acquire, GetHeaders, NoneAvailable, LoginAll, ServerGrants,
           ServerRefuses, CallFails, ReplyWithoutToken, WriteBack, RefreshFailed,
           Answered, RateLimited, AuthRejected
  <1>3. /\ req[r] \in RequestState /\ LimitStands(r)
        /\ req[r].mode \in Mode /\ req[r].rest \in SUBSET Candidate
        /\ req \in [Request -> RequestState]
    BY DEF TypeOK, RequestState, RequestFields, LimitInv
  <1>4. SUFFICES (\A s \in Request \ {r} : req'[s] = req[s]) /\ LimitStands(r)'
    BY <1>1, <1>2, LimitKept DEF LimitInv
  <1>5. ASSUME NEW mode \in Mode, NEW C \in SUBSET Candidate, NEW pool,
               Walk(r, mode, C, pool),
               req[r].limited # NoLabel /\ now < req[r].until
                   => \A c \in C : c.label # req[r].limited
        PROVE  (\A s \in Request \ {r} : req'[s] = req[s]) /\ LimitStands(r)'
    BY <1>1, <1>2, <1>3, <1>5, WalkReaches, LimitAfterWalk
  <1>6. ASSUME AtAccount(r), NEW pool, Walk(r, req[r].mode, req[r].rest, pool)
        PROVE  (\A s \in Request \ {r} : req'[s] = req[s]) /\ LimitStands(r)'
    <2>1. req[r].limited # NoLabel /\ now < req[r].until
              => \A c \in req[r].rest : c.label # req[r].limited
      BY <1>3, <1>6 DEF LimitStands
    <2>2. QED
      BY <1>3, <1>5, <1>6, <2>1
  <1>7. ASSUME req' = [req EXCEPT ![r] = IdleRequest]
        PROVE  (\A s \in Request \ {r} : req'[s] = req[s]) /\ LimitStands(r)'
    <2>1. req'[r] = IdleRequest /\ \A s \in Request \ {r} : req'[s] = req[s]
      BY <1>3, <1>7
    <2>2. req'[r].pc = "idle" /\ req'[r].limited = NoLabel
      BY <2>1, WalkFields
    <2>3. QED
      BY <2>1, <2>2 DEF LimitStands
  <1>8. CASE GetHeaders(r)
    BY <1>5, <1>8, <1>3, SelectedNotLimited, CandidatesForType DEF GetHeaders, Mode
  <1>9. CASE NoneAvailable(r) \/ Answered(r)
    BY <1>7, <1>9 DEF NoneAvailable, Answered
  <1>10. ASSUME NEW mode \in Mode, LoginAll(r, mode)
         PROVE  (\A s \in Request \ {r} : req'[s] = req[s]) /\ LimitStands(r)'
    <2>1. req[r].limited = NoLabel
      BY <1>3, <1>10 DEF LoginAll, LimitStands
    <2>2. QED
      BY <1>5, <1>10, <2>1, CandidatesForType DEF LoginAll
  <1>11. CASE ServerGrants(r) \/ ServerRefuses(r) \/ CallFails(r)
    <2>1. /\ \A s \in Request \ {r} : req'[s] = req[s]
          /\ req'[r].pc \in {"granted", "failed", "refused"}
          /\ req'[r].label = req[r].label /\ req'[r].rest = req[r].rest
          /\ req'[r].limited = req[r].limited /\ req'[r].until = req[r].until
          /\ req[r].pc = "refreshing"
          /\ UNCHANGED accounts
      BY <1>3, <1>11 DEF ServerGrants, ServerRefuses, CallFails, RequestState, RequestFields
    <2>2. QED
      BY <1>2, <1>3, <2>1 DEF LimitStands, AtAccount
  <1>12. CASE ReplyWithoutToken(r) \/ RefreshFailed(r)
    BY <1>6, <1>12 DEF ReplyWithoutToken, RefreshFailed, AtAccount
  <1>13. CASE WriteBack(r)
    <2>1. CASE req' = [req EXCEPT ![r] = Holding(r, req[r].label, req[r].access)]
      <3>1. req'[r] = Holding(r, req[r].label, req[r].access)
               /\ \A s \in Request \ {r} : req'[s] = req[s]
        BY <1>3, <2>1
      <3>2. /\ req'[r].pc = "holding" /\ req'[r].label = req[r].label
            /\ req'[r].rest = {}
            /\ req'[r].limited = req[r].limited /\ req'[r].until = req[r].until
        BY <3>1, WalkFields
      <3>4. req[r].limited # NoLabel /\ now < req[r].until => req[r].limited # req[r].label
        BY <1>3, <1>13 DEF LimitStands, AtAccount, WriteBack
      <3>5. ASSUME req[r].limited # NoLabel, now < req[r].until,
                   Listed(accounts', req[r].limited)
            PROVE  req[r].until <= accounts'[req[r].limited].cooldown
        <4> DEFINE l == req[r].limited
        <4>1. l \in Label /\ req[r].until \in Nat
          BY <1>3, <3>5 DEF RequestState, RequestFields
        <4>2. /\ Listed(accounts, l)
              /\ accounts'[l].cooldown >= accounts[l].cooldown
              /\ accounts[l].cooldown \in Nat /\ accounts'[l].cooldown \in Nat
          BY <1>1, <3>5, <4>1 DEF KeepsCommands, Listed, TypeOK, Account
        <4>3. req[r].until <= accounts[l].cooldown
          BY <1>3, <3>5, <4>2 DEF LimitStands
        <4>4. QED
          BY <4>1, <4>2, <4>3
      <3>6. QED
        BY <1>2, <3>1, <3>2, <3>4, <3>5 DEF LimitStands
    <2>2. QED
      BY <1>6, <1>13, <2>1 DEF WriteBack, AtAccount
  <1>14. CASE RateLimited(r)
    <2> DEFINE l == req[r].label
    <2>1. l \in Label
      BY <1>3, <1>14 DEF RateLimited, RequestState
    <2>2. Listed(accounts', l) => accounts'[l].cooldown = now + Cooldown
      <3>1. SUFFICES ASSUME Listed(accounts', l)
                     PROVE  accounts'[l].cooldown = now + Cooldown
        OBVIOUS
      <3>2. Listed(accounts, l)
        BY <1>1, <2>1, <3>1 DEF KeepsCommands, Listed
      <3>3. accounts'[l] = [accounts[l] EXCEPT !.cooldown = now + Cooldown]
        BY <1>14, <2>1, <3>2, HeadersName DEF RateLimited, RateLimitMarked
      <3>4. QED
        BY <2>1, <3>3 DEF TypeOK, Account
    <2>3. /\ req'[r].pc = "backoff" /\ req'[r].limited = l /\ req'[r].until = now + Cooldown
          /\ \A s \in Request \ {r} : req'[s] = req[s]
      BY <1>3, <1>14 DEF RateLimited, IdleRequest
    <2>4. now + Cooldown \in Nat
      BY TimingAssumption DEF TypeOK
    <2>5. QED
      BY <1>2, <2>2, <2>3, <2>4 DEF LimitStands, AtAccount
  <1>15. CASE AuthRejected(r)
    <2>1. /\ req'[r].pc = "backoff" /\ req'[r].limited = req[r].limited
          /\ req'[r].until = req[r].until
          /\ \A s \in Request \ {r} : req'[s] = req[s]
      BY <1>3, <1>15 DEF AuthRejected, IdleRequest
    <2>2. \A l \in Label : accounts'[l].cooldown = accounts[l].cooldown
      BY <1>15 DEF AuthRejected, AuthExpiredMarked, TypeOK, Account
    <2>3. req[r].limited \in Label \cup {NoLabel}
      BY <1>3 DEF RequestState, RequestFields
    <2>4. req[r].limited # NoLabel =>
              /\ Listed(accounts', req[r].limited) = Listed(accounts, req[r].limited)
              /\ accounts'[req[r].limited].cooldown = accounts[req[r].limited].cooldown
      BY <1>1, <2>2, <2>3 DEF KeepsCommands, Listed
    <2>5. QED
      BY <1>2, <1>3, <2>1, <2>4 DEF LimitStands, AtAccount
  <1>16. QED
    BY <1>8, <1>9, <1>10, <1>11, <1>12, <1>13, <1>14, <1>15 DEF RequestStep, Acquire

(* Forgiven changes what requests have reported, and nothing else. *)
LEMMA ForgivenFields ==
    ASSUME TypeOK, NEW l, NEW r \in Request
    PROVE  LET q == Forgiven(l)[r]
           IN  /\ q.pc = req[r].pc /\ q.label = req[r].label /\ q.rest = req[r].rest
               /\ q.limited = IF req[r].limited = l THEN NoLabel ELSE req[r].limited
               /\ req[r].limited # l => q = req[r]
  BY DEF Forgiven, TypeOK, RequestState, RequestFields

(* An operator's step leaves the reports standing, but for those of the    *)
(* account it gives a fresh start.                                         *)
LEMMA OperatorStepLimit ==
    ASSUME TypeOK, LimitInv, OperatorStep
    PROVE  LimitInv'
  <1>1. now' = now
    BY DEF OperatorStep, BeginAdd, FinishAdd, AbandonAdd, SetEnabled,
           SetPriority, SwitchDefault, RemoveAccount
  <1>2. ASSUME NEW l \in Label, req' = Forgiven(l),
               \A k \in Label \ {l} : accounts'[k] = accounts[k]
        PROVE  LimitInv'
    <2>1. SUFFICES ASSUME NEW r \in Request PROVE LimitStands(r)'
      BY DEF LimitInv
    <2>2. LimitStands(r) /\ req[r].limited \in Label \cup {NoLabel}
      BY DEF LimitInv, TypeOK, RequestState, RequestFields
    <2>3. CASE req[r].limited = l
      <3>1. req'[r].limited = NoLabel
        BY <1>2, <2>3, ForgivenFields
      <3>2. QED
        BY <3>1 DEF LimitStands
    <2>4. CASE req[r].limited # l
      <3>1. req'[r] = req[r]
        BY <1>2, <2>4, ForgivenFields
      <3>2. req[r].limited # NoLabel => accounts'[req[r].limited] = accounts[req[r].limited]
        BY <1>2, <2>2, <2>4
      <3>3. QED
        BY <1>1, <2>2, <3>1, <3>2 DEF LimitStands, AtAccount, Listed
    <2>5. QED
      BY <2>3, <2>4
  <1>3. ASSUME UNCHANGED req,
               \A k \in Label : /\ accounts'[k].pos = accounts[k].pos
                                /\ accounts'[k].cooldown = accounts[k].cooldown
        PROVE  LimitInv'
    <2>1. SUFFICES ASSUME NEW r \in Request PROVE LimitStands(r)'
      BY DEF LimitInv
    <2>2. LimitStands(r) /\ req[r].limited \in Label \cup {NoLabel}
      BY DEF LimitInv, TypeOK, RequestState, RequestFields
    <2>3. QED
      BY <1>1, <1>3, <2>2 DEF LimitStands, AtAccount, Listed
  <1>4. ASSUME NEW a \in Admin, NEW p \in Priority, FinishAdd(a, p)
        PROVE  LimitInv'
    BY <1>2, <1>4, FinishAddEffect DEF FinishAdd
  <1>5. ASSUME NEW l \in Label, NEW on \in BOOLEAN, SetEnabled(l, on)
        PROVE  LimitInv'
    <2>1. \A k \in Label \ {l} : accounts'[k] = accounts[k]
      BY <1>5 DEF SetEnabled, TypeOK
    <2>2. CASE ~on
      BY <1>2, <1>5, <2>1, <2>2 DEF SetEnabled
    <2>3. CASE on
      <3>1. accounts' = [accounts EXCEPT ![l] =
                [accounts[l] EXCEPT !.enabled = TRUE, !.cooldown = accounts[l].cooldown]]
        BY <1>5, <2>3 DEF SetEnabled, TypeOK
      <3>2. \A k \in Label : /\ accounts'[k].pos = accounts[k].pos
                             /\ accounts'[k].cooldown = accounts[k].cooldown
        BY <3>1 DEF TypeOK, Account
      <3>3. QED
        BY <1>3, <1>5, <2>3, <3>2 DEF SetEnabled
    <2>4. QED
      BY <2>2, <2>3
  <1>6. ASSUME NEW l \in Label, NEW p \in Priority, SetPriority(l, p)
        PROVE  LimitInv'
    BY <1>3, <1>6 DEF SetPriority, TypeOK, Account
  <1>7. ASSUME NEW l \in Label, RemoveAccount(l)
        PROVE  LimitInv'
    <2>1. \A k \in Label \ {l} : accounts'[k] = accounts[k]
      BY <1>7 DEF RemoveAccount, TypeOK
    <2>2. QED
      BY <1>2, <1>7, <2>1 DEF RemoveAccount
  <1>8. QED
    BY <1>3, <1>4, <1>5, <1>6, <1>7
    DEF OperatorStep, BeginAdd, AbandonAdd, SwitchDefault

(* A request that reported a rate limit does not come back to the account  *)
(* before the cooldown is over, unless an operator gave it a fresh start:  *)
(* for any accounts with ids of their own, and however requests overlap.   *)
THEOREM LimitedAccountLeft ==
    ASSUME DistinctIds
    PROVE  Spec => []FailoverLeavesLimitedAccount
  <1>1. Init => LimitInv
    BY WalkFields DEF Init, LimitInv, LimitStands
  <1>2. TypeOK /\ TypeOK' /\ CooldownBound /\ LimitInv /\ [Next]_vars => LimitInv'
    <2> SUFFICES ASSUME TypeOK, TypeOK', CooldownBound, LimitInv, [Next]_vars
                 PROVE  LimitInv'
      OBVIOUS
    <2>1. CASE \E r \in Request : RequestStep(r)
      BY <2>1, RequestStepLimit
    <2>2. CASE OperatorStep
      BY <2>2, OperatorStepLimit
    <2>3. CASE Tick
      <3>1. now \in Nat /\ now' = now + 1 /\ UNCHANGED <<accounts, req>>
        BY <2>3 DEF Tick, TypeOK
      <3>2. \A r \in Request : req[r].until \in Nat
        BY DEF TypeOK, RequestState, RequestFields
      <3>3. QED
        BY <3>1, <3>2 DEF LimitInv, LimitStands, AtAccount
    <2>4. CASE UNCHANGED vars
      BY <2>4 DEF vars, LimitInv, LimitStands, AtAccount
    <2>5. QED
      BY <2>1, <2>2, <2>3, <2>4 DEF Next
  <1>3. LimitInv => FailoverLeavesLimitedAccount
    BY DEF LimitInv, LimitStands, AtAccount, FailoverLeavesLimitedAccount
  <1>4. QED
    BY <1>1, <1>2, <1>3, TypeCorrect, CooldownsBounded, PTL DEF Spec

-----------------------------------------------------------------------------
(* Tokens.  A token belongs to one label: the account that stores it and   *)
(* the requests that carry it are of the label it was issued for.          *)

(* Access token t is stored or carried for label l. *)
HasAccess(t, l) ==
    \/ Listed(accounts, l) /\ accounts[l].access = t
    \/ \E r \in Request : /\ req[r].pc \in {"granted", "holding"}
                          /\ req[r].label = l /\ req[r].access = t

(* So is refresh token t. *)
HasRefresh(t, l) ==
    \/ Listed(accounts, l) /\ accounts[l].refresh = t
    \/ \E r \in Request : /\ req[r].label = l
                          /\ \/ req[r].pc = "refreshing" /\ req[r].oldRefresh = t
                             \/ req[r].pc = "granted" /\ req[r].refresh = t

TokensOwned ==
    \A t \in Nat, l \in Label :
        /\ HasAccess(t, l) => t <= serial /\ \A k \in Label : HasAccess(t, k) => k = l
        /\ HasRefresh(t, l) => t <= serial /\ \A k \in Label : HasRefresh(t, k) => k = l

(* A step that issues at most one token, for label m, and copies tokens    *)
(* only within their labels.                                               *)
Issued(t, l, m) == serial' = serial + 1 /\ t = serial' /\ l = m
CopiesOf(m) ==
    /\ serial' \in {serial, serial + 1}
    /\ \A t \in Nat, l \in Label :
          /\ HasAccess(t, l)' => HasAccess(t, l) \/ Issued(t, l, m)
          /\ HasRefresh(t, l)' => HasRefresh(t, l) \/ Issued(t, l, m)

(* Such a step keeps tokens with their labels. *)
LEMMA OwnedKept ==
    ASSUME TypeOK, TokensOwned, NEW m, CopiesOf(m)
    PROVE  TokensOwned'
  <1>1. serial \in Nat /\ serial <= serial' /\ serial' \in Nat
    BY DEF TypeOK, CopiesOf
  <1>2. SUFFICES ASSUME NEW t \in Nat, NEW l \in Label
                 PROVE  /\ HasAccess(t, l)' =>
                              t <= serial' /\ \A k \in Label : HasAccess(t, k)' => k = l
                        /\ HasRefresh(t, l)' =>
                              t <= serial' /\ \A k \in Label : HasRefresh(t, k)' => k = l
    BY DEF TokensOwned
  <1>3. \A k \in Label : /\ HasAccess(t, k)' => HasAccess(t, k) \/ Issued(t, k, m)
                         /\ HasRefresh(t, k)' => HasRefresh(t, k) \/ Issued(t, k, m)
    BY DEF CopiesOf
  <1>4. \A k \in Label : Issued(t, k, m) => k = m /\ t = serial' /\ serial < t
    BY <1>1 DEF Issued
  <1>5. \A k \in Label : HasAccess(t, k) \/ HasRefresh(t, k) => t <= serial
    BY DEF TokensOwned
  <1>6. ASSUME HasAccess(t, l)'
        PROVE  t <= serial' /\ \A k \in Label : HasAccess(t, k)' => k = l
    <2>1. CASE HasAccess(t, l)
      <3>1. t <= serial
        BY <1>5, <2>1
      <3>2. \A k \in Label : ~Issued(t, k, m)
        BY <1>1, <1>4, <3>1
      <3>3. \A k \in Label : HasAccess(t, k) => k = l
        BY <2>1 DEF TokensOwned
      <3>4. QED
        BY <1>1, <1>3, <3>1, <3>2, <3>3
    <2>2. CASE Issued(t, l, m)
      <3>1. l = m /\ t = serial' /\ ~(t <= serial)
        BY <1>1, <1>4, <2>2
      <3>2. \A k \in Label : ~HasAccess(t, k)
        BY <1>5, <3>1
      <3>3. QED
        BY <1>1, <1>3, <1>4, <3>1, <3>2
    <2>3. QED
      BY <1>3, <1>6, <2>1, <2>2
  <1>7. ASSUME HasRefresh(t, l)'
        PROVE  t <= serial' /\ \A k \in Label : HasRefresh(t, k)' => k = l
    <2>1. CASE HasRefresh(t, l)
      <3>1. t <= serial
        BY <1>5, <2>1
      <3>2. \A k \in Label : ~Issued(t, k, m)
        BY <1>1, <1>4, <3>1
      <3>3. \A k \in Label : HasRefresh(t, k) => k = l
        BY <2>1 DEF TokensOwned
      <3>4. QED
        BY <1>1, <1>3, <3>1, <3>2, <3>3
    <2>2. CASE Issued(t, l, m)
      <3>1. l = m /\ t = serial' /\ ~(t <= serial)
        BY <1>1, <1>4, <2>2
      <3>2. \A k \in Label : ~HasRefresh(t, k)
        BY <1>5, <3>1
      <3>3. QED
        BY <1>1, <1>3, <1>4, <3>1, <3>2
    <2>3. QED
      BY <1>3, <1>7, <2>1, <2>2
  <1>8. QED
    BY <1>6, <1>7

(* What a request's step does to the store's tokens: it leaves them, or    *)
(* writes those of a reply to the account of the reply.                    *)
LEMMA RequestStepStore ==
    ASSUME TypeOK, CooldownBound, NEW r \in Request, RequestStep(r)
    PROVE  /\ \A l \in Label : Listed(accounts', l) = Listed(accounts, l)
           /\ \A l \in Label :
                 \/ /\ accounts'[l].access = accounts[l].access
                    /\ accounts'[l].refresh = accounts[l].refresh
                 \/ /\ WriteBack(r) /\ l = req[r].label /\ Listed(accounts, l)
                    /\ accounts'[l].access = req[r].access
                    /\ accounts'[l].refresh = req[r].refresh
  <1>1. \A l \in Label : Listed(accounts', l) = Listed(accounts, l)
    BY RequestStepKeeps DEF KeepsCommands, Listed
  <1>2. SUFFICES ASSUME NEW l \in Label
                 PROVE \/ /\ accounts'[l].access = accounts[l].access
                          /\ accounts'[l].refresh = accounts[l].refresh
                       \/ /\ WriteBack(r) /\ l = req[r].label /\ Listed(accounts, l)
                          /\ accounts'[l].access = req[r].access
                          /\ accounts'[l].refresh = req[r].refresh
    BY <1>1
  <1>3. accounts[l] \in Account /\ accounts \in [Label -> Account]
    BY DEF TypeOK
  <1>4. CASE WriteBack(r) /\ accounts' = [accounts EXCEPT ![req[r].label] = Written(r)]
                          /\ Listed(accounts, req[r].label)
    BY <1>3, <1>4 DEF Written, Account
  <1>5. CASE \E k, tok : accounts' \in {RateLimitMarked(accounts, k, tok),
                                        AuthExpiredMarked(accounts, k, tok)}
    <2>1. accounts'[l] \in {accounts[l], [accounts[l] EXCEPT !.cooldown = now + Cooldown],
                            [accounts[l] EXCEPT !.expires = 0]}
      BY <1>5 DEF RateLimitMarked, AuthExpiredMarked
    <2>2. QED
      BY <1>3, <2>1 DEF Account
  <1>6. CASE UNCHANGED accounts
    BY <1>6
  <1>7. QED
    BY <1>4, <1>5, <1>6
    DEF RequestStep, Acquire, GetHeaders, NoneAvailable, LoginAll, ServerGrants,
        ServerRefuses, CallFails, ReplyWithoutToken, WriteBack, RefreshFailed,
        Answered, RateLimited, AuthRejected

(* What a walk leaves the request with: tokens the pool holds for its label. *)
LEMMA WalkCarries ==
    ASSUME TypeOK, NEW r \in Request, NEW mode \in Mode,
           NEW C \in SUBSET Candidate, NEW pool, Walk(r, mode, C, pool)
    PROVE  LET q == req'[r]
           IN  /\ q.pc # "granted"
               /\ q.pc = "refreshing" => /\ q.label \in Label /\ Listed(pool, q.label)
                                         /\ q.oldRefresh = pool[q.label].refresh
               /\ q.pc = "holding" => /\ q.label \in Label /\ Listed(pool, q.label)
                                      /\ q.access = pool[q.label].access
  <1>1. CASE req'[r] = IdleRequest
    BY <1>1, WalkFields
  <1>2. CASE req'[r] # IdleRequest
    <2>1. PICK c \in C : /\ c.label \in Label /\ Listed(pool, c.label)
                         /\ \/ req'[r] = Holding(r, c.label, pool[c.label].access)
                            \/ req'[r] = Refreshing(r, mode, C, c, pool[c.label])
      BY <1>2, WalkReaches
    <2>2. QED
      BY <2>1, WalkFields
  <1>3. QED
    BY <1>1, <1>2

(* What a request's step leaves the request with: tokens a listed account  *)
(* of its label then has, or those just issued for it.                     *)
LEMMA RequestStepCarries ==
    ASSUME TypeOK, CooldownBound, NEW r \in Request, RequestStep(r)
    PROVE  /\ \A s \in Request \ {r} : req'[s] = req[s]
           /\ req'[r].pc = "refreshing" =>
                 /\ req'[r].label \in Label /\ Listed(accounts', req'[r].label)
                 /\ req'[r].oldRefresh = accounts'[req'[r].label].refresh
           /\ req'[r].pc = "holding" =>
                 /\ req'[r].label \in Label /\ Listed(accounts', req'[r].label)
                 /\ req'[r].access = accounts'[req'[r].label].access
           /\ req'[r].pc = "granted" =>
                 /\ ServerGrants(r) /\ req'[r].label = req[r].label
                 /\ req'[r].access = serial + 1
                 /\ req'[r].refresh = IF Rotating THEN serial + 1 ELSE req[r].oldRefresh
  <1>1. /\ req \in [Request -> RequestState] /\ req[r] \in RequestFields
        /\ req[r].mode \in Mode /\ req[r].rest \in SUBSET Candidate
    BY DEF TypeOK, RequestState, RequestFields
  <1> DEFINE Carries ==
        /\ \A s \in Request \ {r} : req'[s] = req[s]
        /\ req'[r].pc = "refreshing" =>
              /\ req'[r].label \in Label /\ Listed(accounts', req'[r].label)
              /\ req'[r].oldRefresh = accounts'[req'[r].label].refresh
        /\ req'[r].pc = "holding" =>
              /\ req'[r].label \in Label /\ Listed(accounts', req'[r].label)
              /\ req'[r].access = accounts'[req'[r].label].access
        /\ req'[r].pc = "granted" =>
              /\ ServerGrants(r) /\ req'[r].label = req[r].label
              /\ req'[r].access = serial + 1
              /\ req'[r].refresh = IF Rotating THEN serial + 1 ELSE req[r].oldRefresh
  <1>2. ASSUME NEW mode \in Mode, NEW C \in SUBSET Candidate,
               Walk(r, mode, C, accounts')
        PROVE  Carries
    <2>1. \A s \in Request \ {r} : req'[s] = req[s]
      BY <1>2, WalkReaches
    <2>2. /\ req'[r].pc # "granted"
          /\ req'[r].pc = "refreshing" =>
                /\ req'[r].label \in Label /\ Listed(accounts', req'[r].label)
                /\ req'[r].oldRefresh = accounts'[req'[r].label].refresh
          /\ req'[r].pc = "holding" =>
                /\ req'[r].label \in Label /\ Listed(accounts', req'[r].label)
                /\ req'[r].access = accounts'[req'[r].label].access
      BY <1>2, WalkCarries
    <2>3. QED
      BY <2>1, <2>2
  <1>3. ASSUME NEW q, req' = [req EXCEPT ![r] = q],
               q.pc \notin {"refreshing", "holding", "granted"}
        PROVE  Carries
    BY <1>1, <1>3
  <1>4. CASE GetHeaders(r)
    BY <1>2, <1>4, CandidatesForType DEF GetHeaders, Mode
  <1>5. CASE NoneAvailable(r) \/ Answered(r)
    BY <1>3, <1>5, WalkFields DEF NoneAvailable, Answered
  <1>6. ASSUME NEW mode \in Mode, LoginAll(r, mode)
        PROVE  Carries
    BY <1>2, <1>6, CandidatesForType DEF LoginAll
  <1>7. CASE ServerGrants(r)
    <2>1. \/ req' = [req EXCEPT ![r].pc = "failed"]
          \/ req' = [req EXCEPT ![r].pc = "granted", ![r].access = serial + 1,
                       ![r].refresh = IF Rotating THEN serial + 1 ELSE req[r].oldRefresh]
      BY <1>7 DEF ServerGrants
    <2>2. CASE req' = [req EXCEPT ![r].pc = "failed"]
      BY <1>1, <2>2 DEF RequestFields
    <2>3. CASE req' = [req EXCEPT ![r].pc = "granted", ![r].access = serial + 1,
                         ![r].refresh = IF Rotating THEN serial + 1 ELSE req[r].oldRefresh]
      BY <1>1, <1>7, <2>3 DEF RequestFields
    <2>4. QED
      BY <2>1, <2>2, <2>3
  <1>8. CASE ServerRefuses(r) \/ CallFails(r)
    BY <1>1, <1>8 DEF ServerRefuses, CallFails, RequestFields
  <1>9. CASE ReplyWithoutToken(r)
    BY <1>1, <1>2, <1>9 DEF ReplyWithoutToken
  <1>10. CASE RefreshFailed(r)
    <2>1. Walk(r, req[r].mode, req[r].rest, accounts')
      BY <1>10 DEF RefreshFailed
    <2>2. QED
      BY <1>1, <1>2, <2>1
  <1>11. CASE WriteBack(r)
    <2> DEFINE l == req[r].label
    <2>1. l \in Label
      BY <1>1, <1>11 DEF WriteBack, TypeOK, RequestState
    <2>2. CASE Walk(r, req[r].mode, req[r].rest, accounts')
      BY <1>1, <1>2, <2>2
    <2>3. CASE /\ Listed(accounts, l)
               /\ accounts' = [accounts EXCEPT ![l] = Written(r)]
               /\ req' = [req EXCEPT ![r] = Holding(r, l, req[r].access)]
      <3>1. /\ req'[r] = Holding(r, l, req[r].access)
            /\ \A s \in Request \ {r} : req'[s] = req[s]
        BY <1>1, <2>3
      <3>2. accounts[l] \in Account /\ accounts'[l] = Written(r)
        BY <2>1, <2>3 DEF TypeOK
      <3>3. accounts'[l].access = req[r].access /\ accounts'[l].pos = accounts[l].pos
        BY <3>2 DEF Written, Account
      <3>4. req'[r].pc = "holding" /\ req'[r].label = l /\ req'[r].access = req[r].access
        BY <3>1, WalkFields
      <3>5. QED
        BY <2>1, <2>3, <3>1, <3>3, <3>4 DEF Listed
    <2>4. QED
      BY <1>11, <2>2, <2>3 DEF WriteBack
  <1>12. CASE RateLimited(r)
    <2> DEFINE q == [IdleRequest EXCEPT !.pc = "backoff", !.limited = req[r].label,
                                        !.until = now + Cooldown]
    <2>1. q.pc = "backoff" /\ req' = [req EXCEPT ![r] = q]
      BY <1>12 DEF RateLimited, IdleRequest
    <2>2. QED
      BY <1>3, <2>1
  <1>13. CASE AuthRejected(r)
    <2> DEFINE q == [IdleRequest EXCEPT !.pc = "backoff", !.rejected = TRUE,
                         !.limited = req[r].limited, !.until = req[r].until]
    <2>1. q.pc = "backoff" /\ req' = [req EXCEPT ![r] = q]
      BY <1>13 DEF AuthRejected, IdleRequest
    <2>2. QED
      BY <1>3, <2>1
  <1>14. QED
    BY <1>4, <1>5, <1>6, <1>7, <1>8, <1>9, <1>10, <1>11, <1>12, <1>13
    DEF RequestStep, Acquire

(* A request's step copies tokens within their label. *)
LEMMA RequestStepCopies ==
    ASSUME TypeOK, CooldownBound, NEW r \in Request, RequestStep(r)
    PROVE  CopiesOf(req[r].label)
  <1> DEFINE m == req[r].label
  <1>1. serial' \in {serial, serial + 1} /\ (ServerGrants(r) => serial' = serial + 1)
    BY DEF RequestStep, Acquire, GetHeaders, NoneAvailable, LoginAll, ServerGrants,
           ServerRefuses, CallFails, ReplyWithoutToken, WriteBack, RefreshFailed,
           Answered, RateLimited, AuthRejected, server
  <1>2. ASSUME NEW l \in Label, Listed(accounts', l)
        PROVE  HasAccess(accounts'[l].access, l) /\ HasRefresh(accounts'[l].refresh, l)
    <2>1. Listed(accounts, l)
      BY <1>2, RequestStepStore
    <2>2. CASE /\ accounts'[l].access = accounts[l].access
               /\ accounts'[l].refresh = accounts[l].refresh
      BY <2>1, <2>2 DEF HasAccess, HasRefresh
    <2>3. CASE /\ WriteBack(r) /\ l = m
               /\ accounts'[l].access = req[r].access
               /\ accounts'[l].refresh = req[r].refresh
      BY <2>3 DEF HasAccess, HasRefresh, WriteBack
    <2>4. QED
      BY <2>2, <2>3, RequestStepStore
  <1>3. ASSUME NEW t \in Nat, NEW l \in Label, HasAccess(t, l)'
        PROVE  HasAccess(t, l) \/ Issued(t, l, m)
    <2>1. CASE Listed(accounts', l) /\ accounts'[l].access = t
      BY <1>2, <2>1
    <2>2. ASSUME NEW s \in Request, req'[s].pc \in {"granted", "holding"},
                 req'[s].label = l, req'[s].access = t
          PROVE  HasAccess(t, l) \/ Issued(t, l, m)
      <3>1. CASE s # r
        <4>1. req'[s] = req[s]
          BY <3>1, RequestStepCarries
        <4>2. QED
          BY <2>2, <4>1 DEF HasAccess
      <3>2. CASE s = r /\ req'[r].pc = "holding"
        BY <1>2, <2>2, <3>2, RequestStepCarries
      <3>3. CASE s = r /\ req'[r].pc = "granted"
        BY <1>1, <2>2, <3>3, RequestStepCarries DEF Issued
      <3>4. QED
        BY <2>2, <3>1, <3>2, <3>3
    <2>3. QED
      BY <1>3, <2>1, <2>2 DEF HasAccess
  <1>4. ASSUME NEW t \in Nat, NEW l \in Label, HasRefresh(t, l)'
        PROVE  HasRefresh(t, l) \/ Issued(t, l, m)
    <2>1. CASE Listed(accounts', l) /\ accounts'[l].refresh = t
      BY <1>2, <2>1
    <2>2. ASSUME NEW s \in Request, req'[s].label = l,
                 \/ req'[s].pc = "refreshing" /\ req'[s].oldRefresh = t
                 \/ req'[s].pc = "granted" /\ req'[s].refresh = t
          PROVE  HasRefresh(t, l) \/ Issued(t, l, m)
      <3>1. CASE s # r
        <4>1. req'[s] = req[s]
          BY <3>1, RequestStepCarries
        <4>2. QED
          BY <2>2, <4>1 DEF HasRefresh
      <3>2. CASE s = r /\ req'[r].pc = "refreshing"
        BY <1>2, <2>2, <3>2, RequestStepCarries
      <3>3. CASE s = r /\ req'[r].pc = "granted"
        <4>1. /\ ServerGrants(r) /\ l = m
              /\ t = IF Rotating THEN serial + 1 ELSE req[r].oldRefresh
          BY <2>2, <3>3, RequestStepCarries
        <4>2. ~Rotating => HasRefresh(t, l)
          BY <4>1 DEF HasRefresh, ServerGrants
        <4>3. Rotating => Issued(t, l, m)
          BY <1>1, <4>1 DEF Issued
        <4>4. QED
          BY <4>2, <4>3
      <3>4. QED
        BY <2>2, <3>1, <3>2, <3>3
    <2>3. QED
      BY <1>4, <2>1, <2>2 DEF HasRefresh
  <1>5. QED
    BY <1>1, <1>3, <1>4 DEF CopiesOf

(* An operator's step issues at most the tokens of a login, and changes    *)
(* what requests carry in nothing.                                         *)
LEMMA OperatorStepTokens ==
    ASSUME TypeOK, OperatorStep
    PROVE  /\ \A s \in Request : /\ req'[s].pc = req[s].pc /\ req'[s].label = req[s].label
                                 /\ req'[s].access = req[s].access
                                 /\ req'[s].refresh = req[s].refresh
                                 /\ req'[s].oldRefresh = req[s].oldRefresh
           /\ \/ /\ UNCHANGED server
                 /\ \A l \in Label : Listed(accounts', l) =>
                        /\ Listed(accounts, l)
                        /\ accounts'[l].access = accounts[l].access
                        /\ accounts'[l].refresh = accounts[l].refresh
              \/ \E m \in Label :
                    /\ serial' = serial + 1 /\ live' = live \cup {serial + 1}
                    /\ UNCHANGED lost
                    /\ accounts'[m].access = serial + 1 /\ accounts'[m].refresh = serial + 1
                    /\ \A l \in Label \ {m} : accounts'[l] = accounts[l]
  <1> DEFINE Tokens(q, s) == /\ q.pc = req[s].pc /\ q.label = req[s].label
                             /\ q.access = req[s].access /\ q.refresh = req[s].refresh
                             /\ q.oldRefresh = req[s].oldRefresh
  <1>2. \A s \in Request : Tokens(req'[s], s)
    <2>1. \A l \in Label, s \in Request : Tokens(Forgiven(l)[s], s)
      BY DEF Forgiven, TypeOK, RequestState, RequestFields
    <2>2. UNCHANGED req \/ \E l \in Label : req' = Forgiven(l)
      BY DEF OperatorStep, BeginAdd, FinishAdd, AbandonAdd, SetEnabled,
             SetPriority, SwitchDefault, RemoveAccount, TypeOK
    <2>3. QED
      BY <2>1, <2>2
  <1>3. /\ accounts \in [Label -> Account] /\ \A l \in Label : accounts[l] \in Account
    BY DEF TypeOK
  <1>4. CASE UNCHANGED <<accounts, server>>
    BY <1>2, <1>4
  <1>5. ASSUME NEW a \in Admin, NEW p \in Priority, FinishAdd(a, p)
        PROVE  \E m \in Label :
                  /\ serial' = serial + 1 /\ live' = live \cup {serial + 1}
                  /\ UNCHANGED lost
                  /\ accounts'[m].access = serial + 1 /\ accounts'[m].refresh = serial + 1
                  /\ \A l \in Label \ {m} : accounts'[l] = accounts[l]
    <2> DEFINE m == adding[a]
    <2>1. /\ m \in Label
          /\ \A l \in Label \ {m} : accounts'[l] = accounts[l]
      BY <1>5, FinishAddEffect
    <2>2. \E n : accounts'[m] = NewAccount(n, p, serial + 1, now + TokenTTL)
      BY <1>3, <1>5, <2>1 DEF FinishAdd
    <2>3. accounts'[m].access = serial + 1 /\ accounts'[m].refresh = serial + 1
      BY <2>2 DEF NewAccount
    <2>4. QED
      BY <1>5, <2>1, <2>3 DEF FinishAdd
  <1>6. ASSUME NEW l \in Label, NEW on \in BOOLEAN, SetEnabled(l, on)
        PROVE  /\ UNCHANGED server
               /\ \A k \in Label : /\ accounts'[k].pos = accounts[k].pos
                                   /\ accounts'[k].access = accounts[k].access
                                   /\ accounts'[k].refresh = accounts[k].refresh
    BY <1>3, <1>6 DEF SetEnabled, Account
  <1>7. ASSUME NEW l \in Label, NEW p \in Priority, SetPriority(l, p)
        PROVE  /\ UNCHANGED server
               /\ \A k \in Label : /\ accounts'[k].pos = accounts[k].pos
                                   /\ accounts'[k].access = accounts[k].access
                                   /\ accounts'[k].refresh = accounts[k].refresh
    BY <1>3, <1>7 DEF SetPriority, Account
  <1>8. ASSUME NEW l \in Label, RemoveAccount(l)
        PROVE  /\ UNCHANGED server
               /\ \A k \in Label : Listed(accounts', k) => accounts'[k] = accounts[k]
    BY <1>3, <1>8, NoAccountFields DEF RemoveAccount, Listed
  <1>9. QED
    BY <1>2, <1>4, <1>5, <1>6, <1>7, <1>8
    DEF OperatorStep, BeginAdd, AbandonAdd, SwitchDefault, Listed

(* An operator's step copies no token out of its label. *)
LEMMA OperatorStepCopies ==
    ASSUME TypeOK, OperatorStep
    PROVE  \E m : CopiesOf(m)
  <1>1. ASSUME NEW t, NEW l \in Label, ~Listed(accounts', l) \/ accounts'[l].access # t
        PROVE  HasAccess(t, l)' => HasAccess(t, l)
    BY <1>1, OperatorStepTokens DEF HasAccess
  <1>2. ASSUME NEW t, NEW l \in Label, ~Listed(accounts', l) \/ accounts'[l].refresh # t
        PROVE  HasRefresh(t, l)' => HasRefresh(t, l)
    BY <1>2, OperatorStepTokens DEF HasRefresh
  <1>3. CASE /\ UNCHANGED server
             /\ \A l \in Label : Listed(accounts', l) =>
                    /\ Listed(accounts, l)
                    /\ accounts'[l].access = accounts[l].access
                    /\ accounts'[l].refresh = accounts[l].refresh
    <2>1. \A t \in Nat, l \in Label : /\ HasAccess(t, l)' => HasAccess(t, l)
                                      /\ HasRefresh(t, l)' => HasRefresh(t, l)
      BY <1>1, <1>2, <1>3 DEF HasAccess, HasRefresh
    <2>2. CopiesOf(NoLabel)
      BY <1>3, <2>1 DEF CopiesOf, server
    <2>3. QED
      BY <2>2
  <1>4. ASSUME NEW m \in Label,
               serial' = serial + 1,
               accounts'[m].access = serial + 1, accounts'[m].refresh = serial + 1,
               \A l \in Label \ {m} : accounts'[l] = accounts[l]
        PROVE  CopiesOf(m)
    <2>1. ASSUME NEW t \in Nat, NEW l \in Label
          PROVE  /\ HasAccess(t, l)' => HasAccess(t, l) \/ Issued(t, l, m)
                 /\ HasRefresh(t, l)' => HasRefresh(t, l) \/ Issued(t, l, m)
      <3>1. CASE l = m
        <4>1. CASE t = serial + 1
          BY <1>4, <3>1, <4>1 DEF Issued
        <4>2. CASE t # serial + 1
          <5>1. accounts'[l].access # t /\ accounts'[l].refresh # t
            BY <1>4, <3>1, <4>2
          <5>2. QED
            BY <1>1, <1>2, <5>1
        <4>3. QED
          BY <4>1, <4>2
      <3>2. CASE l # m
        <4>1. accounts'[l] = accounts[l]
          BY <1>4, <3>2
        <4>2. /\ Listed(accounts', l) /\ accounts'[l].access = t => HasAccess(t, l)
              /\ Listed(accounts', l) /\ accounts'[l].refresh = t => HasRefresh(t, l)
          BY <4>1 DEF HasAccess, HasRefresh, Listed
        <4>3. QED
          BY <1>1, <1>2, <4>2
      <3>3. QED
        BY <3>1, <3>2
    <2>2. QED
      BY <1>4, <2>1 DEF CopiesOf
  <1>5. QED
    BY <1>3, <1>4, OperatorStepTokens

(* At first each account has the tokens named like its label. *)
LEMMA InitTokens ==
    ASSUME Init
    PROVE  /\ \A r \in Request : req[r].pc = "idle"
           /\ \A l \in Label : Listed(accounts, l) =>
                 /\ l \in InitListed /\ accounts[l].access = l /\ accounts[l].refresh = l
  <1>1. PICK prio \in [Label -> Priority] :
          accounts = [l \in Label |-> IF l \in InitListed
                                     THEN NewAccount(l, prio[l], l, 0)
                                     ELSE NoAccount]
    BY DEF Init
  <1>2. \A l \in Label \ InitListed : ~Listed(accounts, l)
    BY <1>1, NoAccountFields DEF Listed
  <1>3. \A l \in Label : l \in InitListed =>
            accounts[l].access = l /\ accounts[l].refresh = l
    BY <1>1 DEF NewAccount
  <1>4. QED
    BY <1>2, <1>3, WalkFields DEF Init

LEMMA TokensStayOwned == Spec => []TokensOwned
  <1>1. Init => TokensOwned
    <2> SUFFICES ASSUME Init PROVE TokensOwned
      OBVIOUS
    <2>1. \A t \in Nat, l \in Label : HasAccess(t, l) \/ HasRefresh(t, l) => t = l
      BY InitTokens DEF HasAccess, HasRefresh
    <2>2. \A l \in Label : l <= serial
      BY LabelAssumption DEF Init, Label
    <2>3. QED
      BY <2>1, <2>2 DEF TokensOwned
  <1>2. TypeOK /\ CooldownBound /\ TokensOwned /\ [Next]_vars => TokensOwned'
    <2> SUFFICES ASSUME TypeOK, CooldownBound, TokensOwned, [Next]_vars
                 PROVE  TokensOwned'
      OBVIOUS
    <2>1. CASE \E r \in Request : RequestStep(r)
      BY <2>1, RequestStepCopies, OwnedKept
    <2>2. CASE OperatorStep
      BY <2>2, OperatorStepCopies, OwnedKept
    <2>3. CASE Tick \/ UNCHANGED vars
      BY <2>3 DEF Tick, vars, server, TokensOwned, HasAccess, HasRefresh
    <2>4. QED
      BY <2>1, <2>2, <2>3 DEF Next
  <1>3. QED
    BY <1>1, <1>2, TypeCorrect, CooldownsBounded, PTL DEF Spec

(* A report of a failed answer changes the account whose headers were used *)
(* and no other: if the account has gone, no other has its tokens.         *)
THEOREM MarksHitSender ==
    ASSUME DistinctIds
    PROVE  Spec => MarkHitsSender
  <1> DEFINE Hits(r) ==
        LET l == req[r].label
        IN  /\ \A k \in Label \ {l} : accounts'[k] = accounts[k]
            /\ Listed(accounts, l) =>
                  /\ RateLimited(r) => accounts'[l].cooldown = now + Cooldown
                  /\ AuthRejected(r) => accounts'[l].expires = 0
  <1>1. ASSUME TypeOK, TokensOwned, NEW r \in Request, RateLimited(r) \/ AuthRejected(r)
        PROVE  Hits(r)
    <2> DEFINE l == req[r].label
               tok == req[r].access
    <2>1. l \in Label /\ tok \in Nat /\ req[r].pc = "holding"
      BY <1>1 DEF RateLimited, AuthRejected, TypeOK, RequestState, RequestFields
    <2>2. accounts \in [Label -> Account] /\ \A k \in Label : accounts[k] \in Account
      BY <1>1 DEF TypeOK
    <2>3. /\ RateLimited(r) => accounts' = RateLimitMarked(accounts, l, tok)
          /\ AuthRejected(r) => accounts' = AuthExpiredMarked(accounts, l, tok)
      BY DEF RateLimited, AuthRejected
    <2>4. \A k \in Label \ AccountOfHeaders(accounts, l, tok) : accounts'[k] = accounts[k]
      BY <1>1, <2>2, <2>3 DEF RateLimitMarked, AuthExpiredMarked
    <2>5. CASE Listed(accounts, l)
      <3>1. AccountOfHeaders(accounts, l, tok) = {l}
        BY <1>1, <2>1, <2>5, HeadersName
      <3>2. /\ RateLimited(r) =>
                  accounts'[l] = [accounts[l] EXCEPT !.cooldown = now + Cooldown]
            /\ AuthRejected(r) => accounts'[l] = [accounts[l] EXCEPT !.expires = 0]
        BY <2>1, <2>3, <3>1 DEF RateLimitMarked, AuthExpiredMarked
      <3>3. /\ RateLimited(r) => accounts'[l].cooldown = now + Cooldown
            /\ AuthRejected(r) => accounts'[l].expires = 0
        BY <2>1, <2>2, <3>2 DEF Account
      <3>4. QED
        BY <2>4, <3>1, <3>3
    <2>6. CASE ~Listed(accounts, l)
      <3>1. \A k \in ByAccessToken(accounts, tok) : k \in Label /\ HasAccess(tok, k) /\ k # l
        BY <2>6 DEF ByAccessToken, ListedLabels, HasAccess
      <3>2. HasAccess(tok, l)
        BY <2>1 DEF HasAccess
      <3>3. ByAccessToken(accounts, tok) = {}
        BY <1>1, <2>1, <3>1, <3>2 DEF TokensOwned
      <3>4. AccountOfHeaders(accounts, l, tok) = {}
        BY <1>1, <2>1, <2>6, <3>3, HeadersName
      <3>5. QED
        BY <2>4, <2>6, <3>4
    <2>7. QED
      BY <2>5, <2>6
  <1>2. TypeOK /\ TokensOwned /\ [Next]_vars
            => [\A r \in Request : RateLimited(r) \/ AuthRejected(r) => Hits(r)]_vars
    BY <1>1
  <1>3. QED
    BY <1>2, TypeCorrect, TokensStayOwned, PTL DEF Spec, MarkHitsSender

-----------------------------------------------------------------------------
(* Grants.  GrantNotLost is inductive with two facts about replies on      *)
(* their way to the store.                                                 *)

(* The refresh token of such a reply is honoured, and where tokens rotate  *)
(* nothing but the reply holds it.                                         *)
OnlyIn(r) ==
    LET t == req[r].refresh
    IN  /\ \A l \in Label : Listed(accounts, l) => accounts[l].refresh # t
        /\ \A s \in Request \ {r} :
              /\ req[s].pc = "refreshing" => req[s].oldRefresh # t
              /\ req[s].pc = "granted" => req[s].refresh # t

RepliesLive ==
    \A r \in Request : req[r].pc = "granted" =>
        /\ req[r].refresh \in live
        /\ Rotating => OnlyIn(r)

(* A grant spends the token of the call: it ends in the reply or is lost,  *)
(* and no other token is spent.                                            *)
LEMMA GrantSpends ==
    ASSUME TypeOK, NEW r \in Request, ServerGrants(r)
    PROVE  /\ \A t \in live : t \in live' \/ (Rotating /\ t = req[r].oldRefresh)
           /\ lost \subseteq lost'
           /\ \/ /\ req'[r].pc = "granted" /\ req'[r].label = req[r].label
                 /\ req'[r].refresh \in live'
              \/ req'[r].pc = "failed" /\ req[r].oldRefresh \in live' \cup lost'
           /\ \A s \in Request \ {r} : req'[s] = req[s]
           /\ UNCHANGED accounts
  <1> DEFINE old == req[r].oldRefresh
             new == IF Rotating THEN serial + 1 ELSE old
  <1>1. /\ req \in [Request -> RequestState] /\ req[r] \in RequestFields
        /\ serial' = serial + 1 /\ old \in live
        /\ live' = (live \ {old}) \cup {new}
        /\ \/ /\ req' = [req EXCEPT ![r].pc = "granted", ![r].access = serial + 1,
                                    ![r].refresh = new]
              /\ UNCHANGED lost
           \/ /\ req' = [req EXCEPT ![r].pc = "failed"]
              /\ lost' = lost \cup ({old} \ {new})
        /\ UNCHANGED accounts
    BY DEF ServerGrants, TypeOK, RequestState
  <1>2. CASE /\ req' = [req EXCEPT ![r].pc = "granted", ![r].access = serial + 1,
                                    ![r].refresh = new]
             /\ UNCHANGED lost
    <2>1. /\ req'[r].pc = "granted" /\ req'[r].label = req[r].label
          /\ req'[r].refresh = new
          /\ \A s \in Request \ {r} : req'[s] = req[s]
      BY <1>1, <1>2 DEF RequestFields
    <2>2. QED
      BY <1>1, <1>2, <2>1
  <1>3. CASE /\ req' = [req EXCEPT ![r].pc = "failed"]
             /\ lost' = lost \cup ({old} \ {new})
    <2>1. req'[r].pc = "failed" /\ \A s \in Request \ {r} : req'[s] = req[s]
      BY <1>1, <1>3 DEF RequestFields
    <2>2. QED
      BY <1>1, <1>3, <2>1
  <1>4. QED
    BY <1>1, <1>2, <1>3

(* A request's step keeps replies live and to themselves. *)
LEMMA RequestStepReplies ==
    ASSUME TypeOK, TypeOK', CooldownBound, TokensOwned, TokensOwned', RepliesLive,
           NEW r \in Request, RequestStep(r)
    PROVE  RepliesLive'
  <1>1. \A t \in live : t \in live' \/ (ServerGrants(r) /\ Rotating /\ t = req[r].oldRefresh)
    BY GrantSpends
    DEF RequestStep, Acquire, GetHeaders, NoneAvailable, LoginAll,
        ServerRefuses, CallFails, ReplyWithoutToken, WriteBack, RefreshFailed,
        Answered, RateLimited, AuthRejected, server
  <1>2. \A s \in Request : req[s] \in RequestFields /\ req'[s] \in RequestFields
    BY DEF TypeOK, RequestState
  <1>3. ASSUME NEW s \in Request, s # r, req'[s].pc = "granted"
        PROVE  req'[s].refresh \in live' /\ (Rotating => OnlyIn(s)')
    <2> DEFINE t == req[s].refresh
    <2>1. req'[s] = req[s] /\ req[s].pc = "granted"
      BY <1>3, RequestStepCarries
    <2>2. t \in live /\ (Rotating => OnlyIn(s))
      BY <2>1 DEF RepliesLive
    <2>3. Rotating /\ ServerGrants(r) => t # req[r].oldRefresh
      BY <1>3, <2>2 DEF OnlyIn, ServerGrants
    <2>4. ASSUME Rotating, NEW l \in Label, Listed(accounts', l)
          PROVE  accounts'[l].refresh # t
      <3>1. Listed(accounts, l)
        BY <2>4, RequestStepStore
      <3>2. accounts[l].refresh # t
        BY <2>2, <2>4, <3>1 DEF OnlyIn
      <3>3. WriteBack(r) => req[r].refresh # t
        BY <1>3, <2>2, <2>4 DEF OnlyIn, WriteBack
      <3>4. QED
        BY <3>2, <3>3, RequestStepStore
    <2>5. ASSUME Rotating
          PROVE  /\ req'[r].pc = "refreshing" => req'[r].oldRefresh # t
                 /\ req'[r].pc = "granted" => req'[r].refresh # t
      <3>1. req'[r].pc = "refreshing" => req'[r].oldRefresh # t
        BY <2>4, <2>5, RequestStepCarries
      <3>2. req'[r].pc = "granted" => req'[r].refresh = serial + 1
        BY <2>5, RequestStepCarries
      <3>3. t \in Nat /\ req[s].label \in Label /\ HasRefresh(t, req[s].label)
        BY <1>2, <2>1 DEF RequestFields, HasRefresh, TypeOK, RequestState
      <3>4. t <= serial /\ serial \in Nat
        BY <3>3 DEF TokensOwned, TypeOK
      <3>5. QED
        BY <3>1, <3>2, <3>3, <3>4
    <2>6. ASSUME Rotating, NEW q \in Request \ {s, r}
          PROVE  /\ req'[q].pc = "refreshing" => req'[q].oldRefresh # t
                 /\ req'[q].pc = "granted" => req'[q].refresh # t
      <3>1. req'[q] = req[q]
        BY <2>6, RequestStepCarries
      <3>2. QED
        BY <2>2, <2>6, <3>1 DEF OnlyIn
    <2>7. QED
      BY <1>1, <2>1, <2>2, <2>3, <2>4, <2>5, <2>6 DEF OnlyIn
  <1>4. ASSUME req'[r].pc = "granted"
        PROVE  req'[r].refresh \in live' /\ (Rotating => OnlyIn(r)')
    <2>1. /\ ServerGrants(r)
          /\ Rotating => req'[r].refresh = serial + 1
      BY <1>4, RequestStepCarries
    <2>2. req'[r].refresh \in live' /\ UNCHANGED accounts
      BY <1>4, <2>1, GrantSpends
    <2>3. \A t \in Nat, l \in Label : HasRefresh(t, l) => t # serial + 1
      BY DEF TokensOwned, TypeOK
    <2>4. ASSUME NEW l \in Label, Listed(accounts', l)
          PROVE  accounts'[l].refresh # serial + 1
      <3>1. HasRefresh(accounts[l].refresh, l) /\ accounts[l].refresh \in Nat
        BY <2>2, <2>4 DEF HasRefresh, TypeOK, Account
      <3>2. QED
        BY <2>2, <2>3, <3>1
    <2>5. ASSUME NEW s \in Request \ {r}
          PROVE  /\ req'[s].pc = "refreshing" => req'[s].oldRefresh # serial + 1
                 /\ req'[s].pc = "granted" => req'[s].refresh # serial + 1
      <3>1. req'[s] = req[s]
        BY <2>5, RequestStepCarries
      <3>2. /\ req[s].oldRefresh \in Nat /\ req[s].refresh \in Nat
            /\ req[s].pc \in {"refreshing", "granted"} => req[s].label \in Label
        BY <1>2 DEF RequestFields, TypeOK, RequestState
      <3>3. /\ req[s].pc = "refreshing" => HasRefresh(req[s].oldRefresh, req[s].label)
            /\ req[s].pc = "granted" => HasRefresh(req[s].refresh, req[s].label)
        BY DEF HasRefresh
      <3>4. QED
        BY <2>3, <3>1, <3>2, <3>3
    <2>6. QED
      BY <2>1, <2>2, <2>4, <2>5 DEF OnlyIn
  <1>5. QED
    BY <1>3, <1>4 DEF RepliesLive

(* A request's step loses no grant. *)
LEMMA RequestStepGrants ==
    ASSUME TypeOK, CooldownBound, TokensOwned, RepliesLive, RepliesLive', GrantNotLost,
           NEW r \in Request, RequestStep(r)
    PROVE  GrantNotLost'
  <1>1. SUFFICES ASSUME NEW l \in Label, Listed(accounts', l)
                 PROVE  \/ accounts'[l].refresh \in live' \cup lost'
                        \/ \E s \in Request : /\ req'[s].pc = "granted"
                                              /\ req'[s].label = l
                                              /\ req'[s].refresh \in live'
    BY DEF GrantNotLost, ListedLabels
  <1>2. /\ Listed(accounts, l)
        /\ \/ accounts'[l].refresh = accounts[l].refresh
           \/ /\ WriteBack(r) /\ accounts'[l].refresh = req[r].refresh
    BY <1>1, RequestStepStore
  <1>3. CASE WriteBack(r) /\ accounts'[l].refresh = req[r].refresh
    BY <1>3 DEF WriteBack, RepliesLive, server
  <1>4. CASE accounts'[l].refresh = accounts[l].refresh
    <2> DEFINE t == accounts[l].refresh
    <2>1. CASE t \in live \cup lost /\ ~ServerGrants(r)
      <3>1. UNCHANGED server
        BY <2>1
        DEF RequestStep, Acquire, GetHeaders, NoneAvailable, LoginAll,
            ServerRefuses, CallFails, ReplyWithoutToken, WriteBack, RefreshFailed,
            Answered, RateLimited, AuthRejected
      <3>2. QED
        BY <1>4, <2>1, <3>1 DEF server
    <2>2. CASE t \in live \cup lost /\ ServerGrants(r) /\ t # req[r].oldRefresh
      BY <1>4, <2>2, GrantSpends
    <2>3. CASE ServerGrants(r) /\ t = req[r].oldRefresh
      <3>1. req[r].label \in Label /\ t \in Nat /\ req[r].pc = "refreshing"
        BY <2>3 DEF ServerGrants, TypeOK, RequestState, Account
      <3>2. HasRefresh(t, l) /\ HasRefresh(t, req[r].label)
        BY <1>2, <2>3, <3>1 DEF HasRefresh
      <3>3. req[r].label = l
        BY <3>1, <3>2 DEF TokensOwned
      <3>4. QED
        BY <1>4, <2>3, <3>3, GrantSpends
    <2>4. ASSUME NEW s \in Request, req[s].pc = "granted", req[s].label = l, s # r
          PROVE  /\ req'[s].pc = "granted" /\ req'[s].label = l
                 /\ req'[s].refresh \in live'
      <3>1. req'[s] = req[s]
        BY <2>4, RequestStepCarries
      <3>2. QED
        BY <2>4, <3>1 DEF RepliesLive
    <2>5. CASE req[r].pc = "granted" /\ req[r].label = l
      <3>1. WriteBack(r)
        BY <2>5
        DEF RequestStep, Acquire, GetHeaders, NoneAvailable, LoginAll, ServerGrants,
            ServerRefuses, CallFails, ReplyWithoutToken, RefreshFailed,
            Answered, RateLimited, AuthRejected
      <3>2. accounts'[l].refresh = req[r].refresh
        <4>1. accounts' = [accounts EXCEPT ![l] = Written(r)]
          BY <1>2, <2>5, <3>1 DEF WriteBack
        <4>2. QED
          BY <2>5, <4>1 DEF Written, TypeOK, Account
      <3>3. QED
        BY <1>3, <3>1, <3>2
    <2>6. QED
      BY <1>2, <2>1, <2>2, <2>3, <2>4, <2>5 DEF GrantNotLost, ListedLabels
  <1>5. QED
    BY <1>2, <1>3, <1>4

(* Neither does an operator's. *)
LEMMA OperatorStepGrants ==
    ASSUME TypeOK, TokensOwned, RepliesLive, GrantNotLost, OperatorStep
    PROVE  RepliesLive' /\ GrantNotLost'
  <1>1. /\ lost' = lost /\ live \subseteq live'
        /\ \A s \in Request : /\ req'[s].pc = req[s].pc /\ req'[s].label = req[s].label
                              /\ req'[s].refresh = req[s].refresh
                              /\ req'[s].oldRefresh = req[s].oldRefresh
        /\ \A l \in Label : Listed(accounts', l) =>
              \/ Listed(accounts, l) /\ accounts'[l].refresh = accounts[l].refresh
              \/ accounts'[l].refresh = serial + 1 /\ serial + 1 \in live'
    <2>1. CASE /\ UNCHANGED server
               /\ \A l \in Label : Listed(accounts', l) =>
                      /\ Listed(accounts, l)
                      /\ accounts'[l].access = accounts[l].access
                      /\ accounts'[l].refresh = accounts[l].refresh
      BY <2>1, OperatorStepTokens DEF server
    <2>2. ASSUME NEW m \in Label,
                 serial' = serial + 1, live' = live \cup {serial + 1}, UNCHANGED lost,
                 accounts'[m].refresh = serial + 1,
                 \A l \in Label \ {m} : accounts'[l] = accounts[l]
          PROVE  /\ lost' = lost /\ live \subseteq live'
                 /\ \A l \in Label : Listed(accounts', l) =>
                       \/ Listed(accounts, l) /\ accounts'[l].refresh = accounts[l].refresh
                       \/ accounts'[l].refresh = serial + 1 /\ serial + 1 \in live'
      BY <2>2 DEF Listed
    <2>3. QED
      BY <2>1, <2>2, OperatorStepTokens
  <1>2. ASSUME NEW s \in Request, req'[s].pc = "granted"
        PROVE  req'[s].refresh \in live' /\ (Rotating => OnlyIn(s)')
    <2> DEFINE t == req[s].refresh
    <2>1. t \in live /\ (Rotating => OnlyIn(s)) /\ req[s].pc = "granted"
      BY <1>1, <1>2 DEF RepliesLive
    <2>2. t \in Nat /\ req[s].label \in Label /\ HasRefresh(t, req[s].label)
      BY <2>1 DEF HasRefresh, TypeOK, RequestState, RequestFields
    <2>3. t # serial + 1
      BY <2>2 DEF TokensOwned, TypeOK
    <2>4. QED
      BY <1>1, <2>1, <2>3 DEF OnlyIn
  <1>3. ASSUME NEW l \in Label, Listed(accounts', l)
        PROVE  \/ accounts'[l].refresh \in live' \cup lost'
               \/ \E s \in Request : /\ req'[s].pc = "granted"
                                     /\ req'[s].label = l
                                     /\ req'[s].refresh \in live'
    BY <1>1, <1>3 DEF GrantNotLost, ListedLabels
  <1>4. QED
    BY <1>2, <1>3 DEF RepliesLive, GrantNotLost, ListedLabels

(* However refreshes, logins and removals overlap, an account of the store *)
(* has a refresh token that is honoured, or lost, or about to be replaced. *)
THEOREM GrantsKept == Spec => []GrantNotLost
  <1> DEFINE Inv == RepliesLive /\ GrantNotLost
  <1>1. Init => Inv
    <2> SUFFICES ASSUME Init PROVE Inv
      OBVIOUS
    <2>1. RepliesLive
      BY InitTokens DEF RepliesLive
    <2>2. \A l \in ListedLabels(accounts) : accounts[l].refresh \in live
      BY InitTokens DEF Init, ListedLabels
    <2>3. QED
      BY <2>1, <2>2 DEF GrantNotLost
  <1>2. /\ TypeOK /\ TypeOK' /\ CooldownBound /\ TokensOwned /\ TokensOwned'
        /\ Inv /\ [Next]_vars
        => Inv'
    <2> SUFFICES ASSUME TypeOK, TypeOK', CooldownBound, TokensOwned, TokensOwned',
                        Inv, [Next]_vars
                 PROVE  Inv'
      OBVIOUS
    <2>1. CASE \E r \in Request : RequestStep(r)
      BY <2>1, RequestStepReplies, RequestStepGrants
    <2>2. CASE OperatorStep
      BY <2>2, OperatorStepGrants
    <2>3. CASE Tick \/ UNCHANGED vars
      BY <2>3
      DEF Tick, vars, server, RepliesLive, OnlyIn, GrantNotLost, ListedLabels
    <2>4. QED
      BY <2>1, <2>2, <2>3 DEF Next
  <1>3. QED
    BY <1>1, <1>2, TypeCorrect, CooldownsBounded, TokensStayOwned, PTL DEF Spec

-----------------------------------------------------------------------------
(* The calls of CodexFailover. *)

LoopBound(l) ==
    /\ l.attempts < MaxRetries
    /\ l.failovers <= MaxFailovers
    /\ l.calls <= l.failovers * MaxRetries + l.attempts

LoopInv == loop \in [Request -> Loop] /\ \A r \in Request : LoopBound(loop[r])

(* A loop that has not begun, or has ended, is within its bounds. *)
LEMMA NoLoopBound ==
    /\ NoLoop \in Loop /\ LoopBound(NoLoop)
    /\ [NoLoop EXCEPT !.on = TRUE] \in Loop
    /\ LoopBound([NoLoop EXCEPT !.on = TRUE])
    /\ \A res \in {"none", "served", "cooling", "unavailable", "error", "limited", "failed"} :
          Ended(res) \in Loop /\ LoopBound(Ended(res))
<1>1. 0 < MaxRetries /\ 0 <= MaxFailovers /\ 0 <= 0 * MaxRetries + 0
  BY RetryAssumption
<1> QED BY <1>1 DEF NoLoop, Loop, LoopBound, Ended

(* Updating one loop within its bounds keeps all of them so. *)
LEMMA LoopUpdate ==
    ASSUME LoopInv, NEW r \in Request, NEW l \in Loop, LoopBound(l),
           loop' = [loop EXCEPT ![r] = l]
    PROVE  LoopInv'
<1>1. loop' \in [Request -> Loop] BY DEF LoopInv
<1>2. \A q \in Request : loop'[q] = IF q = r THEN l ELSE loop[q] BY DEF LoopInv
<1> QED BY <1>1, <1>2 DEF LoopInv, LoopBound

(* A failover pays for the attempts that went before it. *)
LEMMA FailoverBound ==
    ASSUME NEW l \in Loop, LoopBound(l), l.failovers < MaxFailovers, NEW x \in BOOLEAN
    PROVE  LET m == [l EXCEPT !.failovers = @ + 1, !.attempts = 0,
                              !.excused = @ \/ x, !.calls = @ + 1]
           IN  m \in Loop /\ LoopBound(m)
<1> DEFINE m == [l EXCEPT !.failovers = @ + 1, !.attempts = 0,
                          !.excused = @ \/ x, !.calls = @ + 1]
<1>1. l.failovers \in Nat /\ l.attempts \in Nat /\ l.calls \in Nat BY DEF Loop
<1>2. m \in Loop
  <2>1. l.failovers + 1 \in Nat /\ 0 \in Nat /\ l.calls + 1 \in Nat BY <1>1
  <2>2. (l.excused \/ x) \in BOOLEAN OBVIOUS
  <2> QED BY <2>1, <2>2, Zenon DEF Loop
<1>3. /\ m.failovers = l.failovers + 1 /\ m.attempts = 0
      /\ m.calls = l.calls + 1
  BY DEF Loop
<1>4. (l.failovers + 1) * MaxRetries = l.failovers * MaxRetries + MaxRetries
  BY <1>1, RetryAssumption
<1>5. l.failovers * MaxRetries \in Nat BY <1>1, RetryAssumption
<1>6. l.calls + 1 <= (l.failovers + 1) * MaxRetries + 0
  BY <1>1, <1>4, <1>5, RetryAssumption DEF LoopBound
<1>7. 0 < MaxRetries /\ l.failovers + 1 <= MaxFailovers
  BY <1>1, RetryAssumption
<1> QED BY <1>2, <1>3, <1>6, <1>7 DEF LoopBound

(* A retry is one more attempt and one more post. *)
LEMMA RetryBound ==
    ASSUME NEW l \in Loop, LoopBound(l), l.attempts + 1 < MaxRetries
    PROVE  LET m == [l EXCEPT !.attempts = @ + 1, !.calls = @ + 1]
           IN  m \in Loop /\ LoopBound(m)
<1> DEFINE m == [l EXCEPT !.attempts = @ + 1, !.calls = @ + 1]
<1>1. l.failovers \in Nat /\ l.attempts \in Nat /\ l.calls \in Nat BY DEF Loop
<1>2. m \in Loop
  <2>1. l.attempts + 1 \in Nat /\ l.calls + 1 \in Nat BY <1>1
  <2> QED BY <2>1, Zenon DEF Loop
<1>3. /\ m.failovers = l.failovers /\ m.attempts = l.attempts + 1
      /\ m.calls = l.calls + 1
  BY DEF Loop
<1>4. l.failovers * MaxRetries \in Nat BY <1>1, RetryAssumption
<1>5. l.calls + 1 <= l.failovers * MaxRetries + (l.attempts + 1)
  BY <1>1, <1>4 DEF LoopBound
<1> QED BY <1>2, <1>3, <1>5 DEF LoopBound

(* Every step of a call keeps its loop within bounds. *)
LEMMA NextLoop ==
    ASSUME LoopInv, [FNext]_fvars
    PROVE  LoopInv'
<1>1. ASSUME NEW r \in Request, NEW started \in Loop, LoopBound(started),
             NEW res \in {"cooling", "unavailable", "error"}, Walked(r, started, res)
      PROVE  LoopInv'
  <2> DEFINE l == IF req'[r].pc = "idle" THEN Ended(res) ELSE started
  <2>1. l \in Loop /\ LoopBound(l) BY <1>1, NoLoopBound
  <2>2. loop' = [loop EXCEPT ![r] = l] BY <1>1 DEF Walked
  <2> QED BY <2>1, <2>2, LoopUpdate
<1>2. ASSUME NEW r \in Request, NEW res \in {"served", "limited", "failed"},
             End(r, res)
      PROVE  LoopInv'
  BY <1>2, NoLoopBound, LoopUpdate DEF End
<1>3. ASSUME UNCHANGED loop PROVE LoopInv' BY <1>3 DEF LoopInv, LoopBound
<1>4. \A r \in Request : loop[r] \in Loop /\ LoopBound(loop[r]) BY DEF LoopInv
<1>5. ASSUME NEW r \in Request, StartCall(r) PROVE LoopInv'
  BY <1>1, <1>5, NoLoopBound DEF StartCall, Unavailable
<1>6. ASSUME NEW r \in Request, RefreshHeaders(r) PROVE LoopInv'
  BY <1>1, <1>4, <1>6 DEF RefreshHeaders, Unavailable
<1>7. ASSUME NEW r \in Request, WalkOn(r) PROVE LoopInv'
  BY <1>1, <1>3, <1>4, <1>7 DEF WalkOn
<1>8. ASSUME NEW r \in Request, Accepted(r) \/ GiveUp(r) PROVE LoopInv'
  BY <1>2, <1>8 DEF Accepted, GiveUp
<1>9. ASSUME NEW r \in Request, Failover(r) PROVE LoopInv'
  <2> DEFINE limit == req[r].label \in Exhausted
             l == [loop[r] EXCEPT !.failovers = @ + 1, !.attempts = 0,
                                  !.excused = @ \/ ~limit, !.calls = @ + 1]
  <2>1. l \in Loop /\ LoopBound(l) BY <1>4, <1>9, FailoverBound DEF Failover, FailoverLeft
  <2>2. loop' = [loop EXCEPT ![r] = l] BY <1>9 DEF Failover, LoopInv, Loop
  <2> QED BY <2>1, <2>2, LoopUpdate
<1>10. ASSUME NEW r \in Request, Retry(r) PROVE LoopInv'
  <2> DEFINE l == [loop[r] EXCEPT !.attempts = @ + 1, !.calls = @ + 1]
  <2>1. l \in Loop /\ LoopBound(l) BY <1>4, <1>10, RetryBound DEF Retry
  <2>2. loop' = [loop EXCEPT ![r] = l] BY <1>10 DEF Retry, LoopInv, Loop
  <2> QED BY <2>1, <2>2, LoopUpdate
<1>11. ASSUME Excuse PROVE LoopInv'
  <2>1. ASSUME NEW r \in Request, NEW x \in BOOLEAN
        PROVE  LET m == [loop[r] EXCEPT !.excused = @ \/ x]
               IN  m \in Loop /\ LoopBound(m)
    <3> DEFINE m == [loop[r] EXCEPT !.excused = @ \/ x]
    <3>1. (loop[r].excused \/ x) \in BOOLEAN OBVIOUS
    <3>2. m \in Loop BY <1>4, <3>1, Zenon DEF Loop
    <3>3. /\ m.attempts = loop[r].attempts /\ m.failovers = loop[r].failovers
          /\ m.calls = loop[r].calls
      BY <1>4 DEF Loop
    <3> QED BY <1>4, <3>2, <3>3 DEF LoopBound
  <2>2. \A r \in Request : loop'[r] =
            [loop[r] EXCEPT !.excused = @ \/ (loop[r].on /\ Restarted)]
    BY <1>11 DEF Excuse
  <2>3. \A r \in Request : (loop[r].on /\ Restarted) \in BOOLEAN
    BY DEF Restarted
  <2>4. \A r \in Request : loop'[r] \in Loop /\ LoopBound(loop'[r])
    BY <2>1, <2>2, <2>3
  <2>5. loop' \in [Request -> Loop] BY <1>11, <2>4 DEF Excuse
  <2> QED BY <2>4, <2>5 DEF LoopInv, LoopBound
<1>12. ASSUME UNCHANGED fvars PROVE UNCHANGED loop BY <1>12 DEF fvars
<1> QED
  BY <1>3, <1>5, <1>6, <1>7, <1>8, <1>9, <1>10, <1>11, <1>12
  DEF FNext, CallStep, StartLoginAll

-----------------------------------------------------------------------------
(* Calls move the pool by its own actions only: whatever is proved of the  *)
(* pool holds of the pool the calls run on.                                *)
THEOREM CallsUsePool == FSpec => Spec
<1>1. FInit => Init BY DEF FInit
<1>2. ASSUME [FNext]_fvars PROVE [Next]_vars
  <2>1. ASSUME NEW r \in Request, StartCall(r) \/ CallStep(r) PROVE [Next]_vars
    BY <2>1 DEF StartCall, CallStep, RefreshHeaders, WalkOn, Accepted,
                Failover, Retry, GiveUp, Next, RequestStep
  <2>2. ASSUME NEW r \in Request, NEW mode \in Mode, StartLoginAll(r, mode)
        PROVE  [Next]_vars
    BY <2>2 DEF StartLoginAll, Next, RequestStep
  <2>3. CASE OperatorStep \/ Tick BY <2>3 DEF Next
  <2>4. CASE UNCHANGED fvars BY <2>4 DEF fvars
  <2> QED BY <1>2, <2>1, <2>2, <2>3, <2>4 DEF FNext
<1> QED BY <1>1, <1>2, PTL DEF FSpec, Spec

(* No call posts more than max_retries times for each of its sets of       *)
(* headers, of which there are at most max_failovers+1.                    *)
THEOREM PostsBounded == FSpec => []CallsBounded
<1>1. FInit => LoopInv
  <2> SUFFICES ASSUME FInit PROVE LoopInv OBVIOUS
  <2>1. loop \in [Request -> Loop] BY NoLoopBound DEF FInit
  <2>2. \A r \in Request : loop[r] = NoLoop BY DEF FInit
  <2> QED BY <2>1, <2>2, NoLoopBound DEF LoopInv
<1>2. LoopInv /\ [FNext]_fvars => LoopInv' BY NextLoop
<1>3. LoopInv => CallsBounded
  <2> SUFFICES ASSUME LoopInv, NEW r \in Request
               PROVE  loop[r].calls < (MaxFailovers + 1) * MaxRetries
    BY DEF CallsBounded
  <2> DEFINE f == loop[r].failovers
  <2>1. /\ f \in Nat /\ loop[r].attempts \in Nat /\ loop[r].calls \in Nat
        /\ LoopBound(loop[r])
    BY DEF LoopInv, Loop
  <2>2. f * MaxRetries <= MaxFailovers * MaxRetries
    BY <2>1, RetryAssumption DEF LoopBound
  <2>3. (MaxFailovers + 1) * MaxRetries = MaxFailovers * MaxRetries + MaxRetries
    BY RetryAssumption
  <2>4. f * MaxRetries \in Nat /\ MaxFailovers * MaxRetries \in Nat
    BY <2>1, RetryAssumption
  <2>5. loop[r].calls <= f * MaxRetries + loop[r].attempts
    BY <2>1 DEF LoopBound
  <2>6. loop[r].attempts < MaxRetries BY <2>1 DEF LoopBound
  <2> HIDE DEF f
  <2> QED BY <2>1, <2>2, <2>3, <2>4, <2>5, <2>6, RetryAssumption
<1> QED BY <1>1, <1>2, <1>3, PTL DEF FSpec

(* The types of the pool and of the loops. *)
THEOREM FTypeCorrect == FSpec => []FTypeOK
<1>1. FInit => LoopInv
  BY NoLoopBound DEF FInit, LoopInv
<1>2. LoopInv /\ [FNext]_fvars => LoopInv' BY NextLoop
<1>3. TypeOK /\ LoopInv => FTypeOK BY DEF FTypeOK, LoopInv
<1> QED BY <1>1, <1>2, <1>3, CallsUsePool, TypeCorrect, PTL DEF FSpec

-----------------------------------------------------------------------------
(* Limits.  While cooldowns outlast the run, the failovers of a call that  *)
(* is not excused were spent on as many limited accounts, none of which it *)
(* can be handed again.                                                    *)

LabelsAhead(r) == {req[r].label} \cup {c.label : c \in req[r].rest}

SpentOn(r, S) ==
    /\ Cardinality(S) = loop[r].failovers
    /\ \A l \in S : /\ Listed(accounts, l) => MaxTime < accounts[l].cooldown
                    /\ AtAccount(r) => l \notin LabelsAhead(r)

Spent(r) ==
    loop[r].on => /\ loop[r].result = "none"
                  /\ ~loop[r].excused => \E S \in SUBSET Exhausted : SpentOn(r, S)

SpentInv == now <= MaxTime /\ \A r \in Request : Spent(r)

(* A request's walk stays among the places it had, when it had any. *)
LEMMA AcquireAhead ==
    ASSUME TypeOK, NEW r \in Request, Acquire(r), AtAccount(r)'
    PROVE  AtAccount(r) /\ LabelsAhead(r)' \subseteq LabelsAhead(r)
<1>1. /\ req \in [Request -> RequestState] /\ req[r] \in RequestFields
      /\ req[r].mode \in Mode /\ req[r].rest \in SUBSET Candidate
  BY DEF TypeOK, RequestState, RequestFields
<1>2. ASSUME NEW pool, Walk(r, req[r].mode, req[r].rest, pool)
      PROVE  LabelsAhead(r)' \subseteq LabelsAhead(r)
  <2>1. req'[r] # IdleRequest BY WalkFields DEF AtAccount
  <2>2. PICK c \in req[r].rest :
            \/ req'[r] = Holding(r, c.label, pool[c.label].access)
            \/ req'[r] = Refreshing(r, req[r].mode, req[r].rest, c, pool[c.label])
    BY <1>1, <1>2, <2>1, WalkReaches
  <2>3. req'[r].label = c.label /\ req'[r].rest \subseteq req[r].rest
    BY <2>2, WalkFields
  <2> QED BY <2>3 DEF LabelsAhead
<1>3. CASE ServerGrants(r) \/ ServerRefuses(r) \/ CallFails(r)
  BY <1>1, <1>3 DEF ServerGrants, ServerRefuses, CallFails, AtAccount, LabelsAhead, RequestFields
<1>4. CASE ReplyWithoutToken(r) \/ RefreshFailed(r)
  BY <1>2, <1>4 DEF ReplyWithoutToken, RefreshFailed, AtAccount
<1>5. CASE WriteBack(r)
  <2>1. CASE req' = [req EXCEPT ![r] = Holding(r, req[r].label, req[r].access)]
    <3>1. req'[r] = Holding(r, req[r].label, req[r].access) BY <1>1, <2>1
    <3>2. req'[r].label = req[r].label /\ req'[r].rest = {} BY <3>1, WalkFields
    <3> QED BY <1>5, <3>2 DEF LabelsAhead, AtAccount, WriteBack
  <2> QED BY <1>2, <1>5, <2>1 DEF WriteBack, AtAccount
<1> QED BY <1>3, <1>4, <1>5 DEF Acquire

(* A selection has no place for an account that cools down. *)
LEMMA SelectAhead ==
    ASSUME TypeOK, now <= MaxTime, NEW r \in Request, GetHeaders(r), AtAccount(r)',
           NEW l \in Label, Listed(accounts, l) => MaxTime < accounts[l].cooldown
    PROVE  l \notin LabelsAhead(r)'
<1> DEFINE C == CandidatesFor("serve")
<1>1. C \in SUBSET Candidate /\ "serve" \in Mode BY CandidatesForType DEF Mode
<1>2. req'[r] # IdleRequest BY WalkFields DEF AtAccount
<1>3. Walk(r, "serve", C, accounts) BY DEF GetHeaders
<1>4. PICK c \in C :
          \/ req'[r] = Holding(r, c.label, accounts[c.label].access)
          \/ req'[r] = Refreshing(r, "serve", C, c, accounts[c.label])
  BY <1>1, <1>2, <1>3, WalkReaches
<1>5. req'[r].label = c.label /\ req'[r].rest \subseteq C
  BY <1>4, WalkFields
<1>6. \A d \in C : d.label # l
  <2>1. SUFFICES ASSUME NEW d \in C, d.label = l PROVE FALSE OBVIOUS
  <2>2. Listed(accounts, l) /\ accounts[l].cooldown <= now
    BY <2>1 DEF CandidatesFor, AsCandidates, ListedLabels
  <2>3. accounts[l].cooldown \in Nat /\ now \in Nat /\ MaxTime \in Nat
    BY BoundAssumption DEF TypeOK, Account
  <2> QED BY <2>2, <2>3
<1> QED BY <1>4, <1>5, <1>6 DEF LabelsAhead

(* Accounts that are kept leave a call's spending as it was. *)
LEMMA SpentKept ==
    ASSUME TypeOK, TypeOK', NEW r \in Request, Spent(r),
           \A l \in Label : /\ Listed(accounts', l) = Listed(accounts, l)
                            /\ accounts[l].cooldown <= accounts'[l].cooldown,
           loop'[r].on => /\ loop[r].on /\ loop'[r].result = loop[r].result
                          /\ loop'[r].failovers = loop[r].failovers
                          /\ loop[r].excused => loop'[r].excused,
           loop'[r].on /\ AtAccount(r)' => AtAccount(r) /\ LabelsAhead(r)' \subseteq LabelsAhead(r)
    PROVE  Spent(r)'
<1>1. SUFFICES ASSUME loop'[r].on
               PROVE  /\ loop'[r].result = "none"
                      /\ ~loop'[r].excused => \E S \in SUBSET Exhausted : SpentOn(r, S)'
  BY DEF Spent
<1>2. loop'[r].result = "none" BY <1>1 DEF Spent
<1>3. ASSUME ~loop'[r].excused PROVE \E S \in SUBSET Exhausted : SpentOn(r, S)'
  <2>1. PICK S \in SUBSET Exhausted : SpentOn(r, S) BY <1>1, <1>3 DEF Spent
  <2>2. ASSUME NEW l \in S PROVE Listed(accounts', l) => MaxTime < accounts'[l].cooldown
    <3>1. l \in Label BY <2>1, UpstreamAssumption
    <3>2. Listed(accounts', l) => MaxTime < accounts[l].cooldown
      BY <2>1, <3>1 DEF SpentOn
    <3>3. accounts[l].cooldown \in Nat /\ accounts'[l].cooldown \in Nat /\ MaxTime \in Nat
      BY <3>1, BoundAssumption DEF TypeOK, Account
    <3> QED BY <3>1, <3>2, <3>3
  <2>3. SpentOn(r, S)' BY <1>1, <2>1, <2>2 DEF SpentOn
  <2> QED BY <2>3
<1> QED BY <1>2, <1>3

(* A failover for a limit spends itself on an account not yet spent on.    *)
LEMMA FailoverSpends ==
    ASSUME DistinctIds, MaxTime < Cooldown, TypeOK, TypeOK', CooldownBound, LoopInv,
           NEW r \in Request, Spent(r), Failover(r)
    PROVE  Spent(r)'
<1>0. PICK k \in Label : k = req[r].label
  <2>1. req[r].pc = "holding" BY DEF Failover, RateLimited, AuthRejected
  <2> QED BY <2>1 DEF TypeOK, RequestState
<1>1. /\ loop' = [loop EXCEPT ![r] = [loop[r] EXCEPT !.failovers = @ + 1, !.attempts = 0,
                      !.excused = @ \/ k \notin Exhausted, !.calls = @ + 1]]
      /\ loop[r].on /\ loop[r] \in Loop
  BY <1>0 DEF Failover, LoopInv, Loop
<1>2. /\ loop'[r].on /\ loop'[r].result = loop[r].result
      /\ loop'[r].failovers = loop[r].failovers + 1
      /\ ~loop'[r].excused => ~loop[r].excused /\ k \in Exhausted
  BY <1>1 DEF LoopInv, Loop
<1>3. loop[r].result = "none" BY <1>1 DEF Spent
<1>4. ASSUME ~loop'[r].excused PROVE \E S \in SUBSET Exhausted : SpentOn(r, S)'
  <2>1. RateLimited(r) /\ k \in Exhausted /\ ~loop[r].excused
    BY <1>0, <1>2, <1>4 DEF Failover
  <2>2. req[r].pc = "holding" BY <2>1 DEF RateLimited
  <2>3. PICK S \in SUBSET Exhausted : SpentOn(r, S) BY <1>1, <2>1 DEF Spent
  <2>4. k \notin S BY <1>0, <2>2, <2>3 DEF SpentOn, AtAccount, LabelsAhead
  <2>5. IsFiniteSet(S)
    <3>1. IsFiniteSet(Label) BY LabelAssumption, FS_Interval DEF Label
    <3> QED BY <3>1, FS_Subset, UpstreamAssumption
  <2>6. Cardinality(S \cup {k}) = loop'[r].failovers
    <3>1. Cardinality(S) = loop[r].failovers BY <2>3 DEF SpentOn
    <3>2. Cardinality(S \cup {k}) = Cardinality(S) + 1 BY <2>4, <2>5, FS_AddElement
    <3> QED BY <1>2, <3>1, <3>2
  <2>7. req'[r].pc = "backoff"
    BY <2>1 DEF RateLimited, IdleRequest, TypeOK
  <2>8. RequestStep(r) BY <2>1 DEF RequestStep
  <2>9. ASSUME NEW l \in S \cup {k}
        PROVE  Listed(accounts', l) => MaxTime < accounts'[l].cooldown
    <3>1. l \in Label BY UpstreamAssumption
    <3>2. /\ Listed(accounts', l) = Listed(accounts, l)
          /\ accounts'[l].cooldown >= accounts[l].cooldown
      BY <2>8, <3>1, RequestStepKeeps DEF KeepsCommands, Listed
    <3>3. /\ accounts[l].cooldown \in Nat /\ accounts'[l].cooldown \in Nat
          /\ MaxTime \in Nat /\ now \in Nat /\ Cooldown \in Nat
      BY <3>1, BoundAssumption, TimingAssumption DEF TypeOK, Account
    <3>4. CASE l \in S
      <4>1. Listed(accounts, l) => MaxTime < accounts[l].cooldown
        BY <2>3, <3>4 DEF SpentOn
      <4> QED BY <3>2, <3>3, <4>1
    <3>5. CASE l = k /\ Listed(accounts, k)
      <4>1. AccountOfHeaders(accounts, k, req[r].access) = {k}
        BY <3>5, HeadersName
      <4>2. accounts'[k] = [accounts[k] EXCEPT !.cooldown = now + Cooldown]
        BY <1>0, <2>1, <4>1 DEF RateLimited, RateLimitMarked
      <4>3. accounts'[k].cooldown = now + Cooldown
        BY <4>2 DEF TypeOK, Account
      <4> QED BY <3>3, <3>5, <4>3
    <3> QED BY <3>2, <3>4, <3>5
  <2>10. SpentOn(r, S \cup {k})' BY <2>6, <2>7, <2>9 DEF SpentOn, AtAccount
  <2>11. S \cup {k} \in SUBSET Exhausted BY <2>1
  <2> QED BY <2>10, <2>11
<1> QED BY <1>2, <1>3, <1>4 DEF Spent

(* Every step of calls, operators and the clock keeps the account of what  *)
(* failovers were spent on.                                                *)
LEMMA NextSpent ==
    ASSUME DistinctIds, MaxTime < Cooldown, TypeOK, TypeOK', CooldownBound, LoopInv,
           SpentInv, [FNext]_fvars
    PROVE  SpentInv'
<1>1. \A r \in Request : Spent(r) /\ loop[r] \in Loop BY DEF SpentInv, LoopInv
<1>2. now' <= MaxTime
  <2>1. now \in Nat /\ now' \in Nat /\ MaxTime \in Nat /\ now <= MaxTime
    BY BoundAssumption DEF TypeOK, SpentInv
  <2>2. [Next]_vars
    <3>1. CASE UNCHANGED fvars BY <3>1 DEF fvars
    <3>2. ASSUME NEW r \in Request, StartCall(r) \/ CallStep(r) PROVE [Next]_vars
      BY <3>2 DEF StartCall, CallStep, RefreshHeaders, WalkOn, Accepted,
                  Failover, Retry, GiveUp, Next, RequestStep
    <3>3. ASSUME NEW r \in Request, NEW mode \in Mode, StartLoginAll(r, mode)
          PROVE  [Next]_vars
      BY <3>3 DEF StartLoginAll, Next, RequestStep
    <3>4. CASE OperatorStep \/ Tick BY <3>4 DEF Next
    <3> QED BY <3>1, <3>2, <3>3, <3>4 DEF FNext
  <2>3. UNCHANGED now \/ (now < MaxTime /\ now' = now + 1)
    BY <2>2
    DEF Next, RequestStep, Acquire, GetHeaders, NoneAvailable, LoginAll, ServerGrants,
        ServerRefuses, CallFails, ReplyWithoutToken, WriteBack, RefreshFailed,
        Answered, RateLimited, AuthRejected, Tick, vars,
        OperatorStep, BeginAdd, FinishAdd, AbandonAdd, SetEnabled,
        SetPriority, SwitchDefault, RemoveAccount
  <2> QED BY <2>1, <2>3
<1>3. ASSUME NEW r \in Request, RequestStep(r)
      PROVE  /\ \A l \in Label : /\ Listed(accounts', l) = Listed(accounts, l)
                                 /\ accounts[l].cooldown <= accounts'[l].cooldown
             /\ \A s \in Request \ {r} : req'[s] = req[s]
  <2>1. KeepsCommands(accounts, accounts') BY <1>3, RequestStepKeeps
  <2>2. \A l \in Label : accounts[l].cooldown \in Nat /\ accounts'[l].cooldown \in Nat
    BY DEF TypeOK, Account
  <2>3. \A s \in Request \ {r} : req'[s] = req[s] BY <1>3, RequestStepCarries
  <2> QED BY <2>1, <2>2, <2>3 DEF KeepsCommands, Listed
(* One request steps: the calls of the others keep their spending. *)
<1>4. ASSUME NEW r \in Request, RequestStep(r), Spent(r)',
             \A s \in Request \ {r} : loop'[s] = loop[s]
      PROVE  SpentInv'
  <2>1. ASSUME NEW s \in Request \ {r} PROVE Spent(s)'
    <3>1. req'[s] = req[s] /\ loop'[s] = loop[s] BY <1>3, <1>4, <2>1
    <3>2. AtAccount(s)' => AtAccount(s) /\ LabelsAhead(s)' \subseteq LabelsAhead(s)
      BY <3>1 DEF AtAccount, LabelsAhead
    <3> QED BY <1>1, <1>3, <1>4, <3>1, <3>2, SpentKept
  <2> QED BY <1>2, <1>4, <2>1 DEF SpentInv
<1>5. ASSUME NEW r \in Request, NEW res, End(r, res)
      PROVE  Spent(r)' /\ \A s \in Request \ {r} : loop'[s] = loop[s]
  <2>1. ~Ended(res).on BY DEF Ended, NoLoop
  <2>2. loop'[r] = Ended(res) /\ \A s \in Request \ {r} : loop'[s] = loop[s]
    BY <1>5 DEF End, LoopInv
  <2> QED BY <2>1, <2>2 DEF Spent
<1>6. ASSUME NEW r \in Request, StartCall(r) PROVE SpentInv'
  <2>1. /\ RequestStep(r)
        /\ loop' = [loop EXCEPT ![r] = IF req'[r].pc = "idle" THEN Ended(Unavailable)
                                       ELSE [NoLoop EXCEPT !.on = TRUE]]
    BY <1>6 DEF StartCall, RequestStep, Walked
  <2>2. \A s \in Request \ {r} : loop'[s] = loop[s] BY <2>1 DEF LoopInv
  <2>3. ASSUME loop'[r] = Ended(Unavailable) PROVE Spent(r)'
    <3>1. ~Ended(Unavailable).on BY DEF Ended, NoLoop
    <3> QED BY <2>3, <3>1 DEF Spent
  <2>4. ASSUME loop'[r] = [NoLoop EXCEPT !.on = TRUE] PROVE Spent(r)'
    <3>1. loop'[r].failovers = 0 /\ loop'[r].result = "none" BY <2>4 DEF NoLoop
    <3>2. SpentOn(r, {})' BY <3>1, FS_EmptySet DEF SpentOn
    <3>3. {} \in SUBSET Exhausted OBVIOUS
    <3> QED BY <3>1, <3>2, <3>3 DEF Spent
  <2>5. Spent(r)'
    <3>1. loop'[r] \in {Ended(Unavailable), [NoLoop EXCEPT !.on = TRUE]}
      BY <2>1 DEF LoopInv
    <3> QED BY <2>3, <2>4, <3>1
  <2> QED BY <1>4, <2>1, <2>2, <2>5
<1>7. ASSUME NEW r \in Request, RefreshHeaders(r) PROVE SpentInv'
  <2>1. /\ RequestStep(r) /\ loop[r].on
        /\ GetHeaders(r) \/ NoneAvailable(r)
        /\ loop' = [loop EXCEPT ![r] = IF req'[r].pc = "idle" THEN Ended(Unavailable)
                                       ELSE loop[r]]
    BY <1>7 DEF RefreshHeaders, RequestStep, Walked
  <2>2. \A s \in Request \ {r} : loop'[s] = loop[s] BY <2>1 DEF LoopInv
  <2>3. ASSUME req'[r].pc = "idle" PROVE Spent(r)'
    <3>1. ~Ended(Unavailable).on BY DEF Ended, NoLoop
    <3>2. loop'[r] = Ended(Unavailable) BY <2>1, <2>3 DEF LoopInv
    <3> QED BY <3>1, <3>2 DEF Spent
  <2>4. ASSUME req'[r].pc # "idle" PROVE Spent(r)'
    <3>1. loop'[r] = loop[r] BY <2>1, <2>4 DEF LoopInv
    <3>2. GetHeaders(r)
      <4>1. NoneAvailable(r) => req'[r] = IdleRequest BY DEF NoneAvailable, TypeOK
      <4> QED BY <2>1, <2>4, <4>1, WalkFields
    <3>3. UNCHANGED accounts BY <3>2 DEF GetHeaders
    <3>4. ASSUME ~loop[r].excused PROVE \E S \in SUBSET Exhausted : SpentOn(r, S)'
      <4>1. PICK S \in SUBSET Exhausted : SpentOn(r, S) BY <1>1, <2>1, <3>4 DEF Spent
      <4>2. \A l \in S : l \in Label /\ (Listed(accounts, l) => MaxTime < accounts[l].cooldown)
        BY <4>1, UpstreamAssumption DEF SpentOn
      <4>3. AtAccount(r)' => \A l \in S : l \notin LabelsAhead(r)'
        BY <3>2, <4>2, SelectAhead DEF SpentInv
      <4>4. SpentOn(r, S)' BY <3>1, <3>3, <4>1, <4>3 DEF SpentOn
      <4> QED BY <4>4
    <3> QED BY <1>1, <2>1, <3>1, <3>4 DEF Spent
  <2> QED BY <1>4, <2>1, <2>2, <2>3, <2>4
<1>8. ASSUME NEW r \in Request, WalkOn(r) PROVE SpentInv'
  <2>1. /\ RequestStep(r) /\ Acquire(r)
        /\ IF loop[r].on
           THEN loop' = [loop EXCEPT ![r] = IF req'[r].pc = "idle" THEN Ended("error")
                                            ELSE loop[r]]
           ELSE UNCHANGED loop
    BY <1>8 DEF WalkOn, RequestStep, Walked
  <2>2. \A s \in Request \ {r} : loop'[s] = loop[s] BY <2>1 DEF LoopInv
  <2>3. loop'[r] \in {Ended("error"), loop[r]} BY <2>1 DEF LoopInv
  <2>4. ASSUME loop'[r] = Ended("error") PROVE Spent(r)'
    <3>1. ~Ended("error").on BY DEF Ended, NoLoop
    <3> QED BY <2>4, <3>1 DEF Spent
  <2>5. ASSUME loop'[r] = loop[r] PROVE Spent(r)'
    BY <1>1, <1>3, <2>1, <2>5, AcquireAhead, SpentKept
  <2> QED BY <1>4, <2>1, <2>2, <2>3, <2>4, <2>5
<1>9. ASSUME NEW r \in Request, Accepted(r) \/ GiveUp(r) PROVE SpentInv'
  <2>1. RequestStep(r) /\ \E res : End(r, res)
    BY <1>9 DEF Accepted, GiveUp, RequestStep
  <2> QED BY <1>4, <1>5, <2>1
<1>10. ASSUME NEW r \in Request, Failover(r) PROVE SpentInv'
  <2>1. RequestStep(r) /\ \A s \in Request \ {r} : loop'[s] = loop[s]
    BY <1>10 DEF Failover, RequestStep, LoopInv
  <2> QED BY <1>1, <1>4, <1>10, <2>1, FailoverSpends
<1>11. ASSUME NEW r \in Request, NEW mode \in Mode, StartLoginAll(r, mode) PROVE SpentInv'
  <2>1. RequestStep(r) /\ UNCHANGED loop /\ ~loop[r].on
    BY <1>11 DEF StartLoginAll, RequestStep
  <2>2. Spent(r)' BY <2>1 DEF Spent
  <2> QED BY <1>4, <2>1, <2>2
(* The pool and the places of the requests stay. *)
<1>12. ASSUME UNCHANGED accounts,
              \A r \in Request : AtAccount(r)' => AtAccount(r) /\ LabelsAhead(r)' \subseteq LabelsAhead(r),
              \A r \in Request : loop'[r].on =>
                  /\ loop[r].on /\ loop'[r].result = loop[r].result
                  /\ loop'[r].failovers = loop[r].failovers
                  /\ loop[r].excused => loop'[r].excused
       PROVE  SpentInv'
  <2>1. \A l \in Label : /\ Listed(accounts', l) = Listed(accounts, l)
                         /\ accounts[l].cooldown <= accounts'[l].cooldown
    BY <1>12 DEF TypeOK, Account
  <2>2. \A r \in Request : Spent(r)' BY <1>1, <1>12, <2>1, SpentKept
  <2> QED BY <1>2, <2>2 DEF SpentInv
<1>13. ASSUME NEW r \in Request, Retry(r) PROVE SpentInv'
  <2>1. UNCHANGED <<accounts, req>> BY <1>13 DEF Retry, vars
  <2>2. loop' = [loop EXCEPT ![r] = [loop[r] EXCEPT !.attempts = @ + 1, !.calls = @ + 1]]
    BY <1>13 DEF Retry, LoopInv, Loop
  <2>3. \A s \in Request : /\ loop'[s].on = loop[s].on /\ loop'[s].result = loop[s].result
                           /\ loop'[s].failovers = loop[s].failovers
                           /\ loop'[s].excused = loop[s].excused
    BY <1>1, <2>2 DEF LoopInv, Loop
  <2> QED BY <1>12, <2>1, <2>3 DEF AtAccount, LabelsAhead
<1>14. ASSUME UNCHANGED fvars PROVE SpentInv'
  BY <1>12, <1>14 DEF fvars, vars, AtAccount, LabelsAhead
<1>15. ASSUME OperatorStep \/ Tick, Excuse PROVE SpentInv'
  <2>1. \A s \in Request : /\ req'[s].pc = req[s].pc /\ req'[s].label = req[s].label
                           /\ req'[s].rest = req[s].rest
    <3>1. \A l, s : s \in Request =>
              /\ Forgiven(l)[s].pc = req[s].pc /\ Forgiven(l)[s].label = req[s].label
              /\ Forgiven(l)[s].rest = req[s].rest
      BY ForgivenFields
    <3>2. UNCHANGED req \/ \E l \in Label : req' = Forgiven(l)
      BY <1>15
      DEF OperatorStep, BeginAdd, FinishAdd, AbandonAdd, SetEnabled,
          SetPriority, SwitchDefault, RemoveAccount, Tick, TypeOK
    <3> QED BY <3>1, <3>2
  <2>2. ASSUME NEW s \in Request
        PROVE  /\ loop'[s].on = loop[s].on /\ loop'[s].result = loop[s].result
               /\ loop'[s].failovers = loop[s].failovers
               /\ loop[s].excused => loop'[s].excused
               /\ loop[s].on /\ Restarted => loop'[s].excused
    <3>1. loop'[s] = [loop[s] EXCEPT !.excused = @ \/ (loop[s].on /\ Restarted)]
      BY <1>15, <2>2 DEF Excuse
    <3>2. loop'[s].excused = (loop[s].excused \/ (loop[s].on /\ Restarted))
      BY <1>1, <3>1 DEF Loop
    <3>3. /\ loop'[s].on = loop[s].on /\ loop'[s].result = loop[s].result
          /\ loop'[s].failovers = loop[s].failovers
      BY <1>1, <3>1 DEF Loop
    <3> QED BY <3>2, <3>3, Zenon
  <2>3. ASSUME NEW s \in Request PROVE Spent(s)'
    <3>1. CASE Restarted BY <1>1, <2>2, <3>1 DEF Spent
    <3>2. CASE ~Restarted
      <4>1. ASSUME NEW l \in Label
            PROVE  /\ Listed(accounts', l) = Listed(accounts, l)
                   /\ accounts[l].cooldown <= accounts'[l].cooldown
        <5>1. accounts[l].cooldown \in Nat /\ accounts'[l].cooldown \in Nat
          BY DEF TypeOK, Account
        <5> QED BY <3>2, <5>1 DEF Restarted
      <4>2. AtAccount(s)' => AtAccount(s) /\ LabelsAhead(s)' \subseteq LabelsAhead(s)
        BY <2>1 DEF AtAccount, LabelsAhead
      <4> QED BY <1>1, <2>2, <4>1, <4>2, SpentKept
    <3> QED BY <3>1, <3>2
  <2> QED BY <1>2, <2>3 DEF SpentInv
<1> QED
  BY <1>6, <1>7, <1>8, <1>9, <1>10, <1>11, <1>13, <1>14, <1>15 DEF FNext, CallStep

(* A call that is running ends with a limit only in GiveUp.                *)
LEMMA LimitedIsGivenUp ==
    ASSUME LoopInv, SpentInv, [FNext]_fvars, NEW r \in Request,
           loop[r].on, loop'[r].result = "limited"
    PROVE  Unreported(r, "limited")
<1>1. loop[r].result = "none" BY DEF SpentInv, Spent
<1>2. \A res : Ended(res).result = res BY DEF Ended, NoLoop
<1>3. \A s \in Request : loop[s] \in Loop BY DEF LoopInv
<1>4. ASSUME NEW s \in Request, NEW l, loop' = [loop EXCEPT ![s] = l],
             l.result # "limited" \/ s # r
      PROVE  FALSE
  BY <1>1, <1>4 DEF LoopInv
<1>5. ASSUME UNCHANGED loop PROVE FALSE BY <1>1, <1>5
<1>6. ASSUME NEW s \in Request, StartCall(s) PROVE FALSE
  <2>1. s # r BY <1>6 DEF StartCall
  <2> QED BY <1>4, <1>6, <2>1 DEF StartCall, Walked
<1>7. ASSUME NEW s \in Request, RefreshHeaders(s) \/ (WalkOn(s) /\ loop[s].on) PROVE FALSE
  <2>1. PICK res \in {"cooling", "unavailable", "error"} : Walked(s, loop[s], res)
    BY <1>7 DEF RefreshHeaders, WalkOn, Unavailable
  <2> DEFINE l == IF req'[s].pc = "idle" THEN Ended(res) ELSE loop[s]
  <2>2. loop' = [loop EXCEPT ![s] = l] BY <2>1 DEF Walked
  <2>3. l.result # "limited" \/ s # r BY <1>1, <1>2
  <2> QED BY <1>4, <2>2, <2>3
<1>8. ASSUME NEW s \in Request, Accepted(s) PROVE FALSE
  <2>1. PICK res \in {"served", "failed"} : loop' = [loop EXCEPT ![s] = Ended(res)]
    BY <1>8 DEF Accepted, End
  <2> QED BY <1>2, <1>4, <2>1
<1>9. ASSUME NEW s \in Request, Failover(s) PROVE FALSE
  <2> DEFINE l == [loop[s] EXCEPT !.failovers = @ + 1, !.attempts = 0,
                      !.excused = @ \/ req[s].label \notin Exhausted, !.calls = @ + 1]
  <2>1. loop' = [loop EXCEPT ![s] = l] BY <1>9 DEF Failover, LoopInv, Loop
  <2>2. l.result = loop[s].result BY <1>3 DEF Loop
  <2> QED BY <1>1, <1>4, <2>1, <2>2
<1>10. ASSUME NEW s \in Request, Retry(s) PROVE FALSE
  <2> DEFINE l == [loop[s] EXCEPT !.attempts = @ + 1, !.calls = @ + 1]
  <2>1. loop' = [loop EXCEPT ![s] = l] BY <1>10 DEF Retry, LoopInv, Loop
  <2>2. l.result = loop[s].result BY <1>3 DEF Loop
  <2> QED BY <1>1, <1>4, <2>1, <2>2
<1>11. ASSUME Excuse PROVE FALSE
  <2>1. loop'[r] = [loop[r] EXCEPT !.excused = @ \/ (loop[r].on /\ Restarted)]
    BY <1>11 DEF Excuse
  <2> QED BY <1>1, <1>3, <2>1 DEF Loop
<1>12. ASSUME NEW s \in Request, GiveUp(s) PROVE Unreported(r, "limited")
  <2>1. PICK res \in {"failed", "limited"} :
            Unreported(s, res) /\ loop' = [loop EXCEPT ![s] = Ended(res)]
    BY <1>12 DEF GiveUp, End
  <2>2. s = r BY <1>4, <2>1
  <2>3. res = "limited" BY <1>2, <1>4, <2>1
  <2> QED BY <2>1, <2>2, <2>3
<1> QED
  BY <1>5, <1>6, <1>7, <1>8, <1>9, <1>10, <1>11, <1>12
  DEF FNext, CallStep, StartLoginAll, WalkOn, fvars

(* With a failover for each limited account and cooldowns that outlast a   *)
(* call, no client is handed the upstream's limit, whatever other calls    *)
(* and operators do: a call would have spent its failovers on as many      *)
(* limited accounts, and there is no other it could be limited on.  The    *)
(* pool's own refusals, the 429 of a pool that is cooling down among them, *)
(* are other endings.                                                      *)
THEOREM LimitsNotPassedOn ==
    ASSUME DistinctIds
    PROVE  FSpec => LimitNotPassedOn
<1> DEFINE Inv == MaxTime < Cooldown => SpentInv
           Enough == MaxTime < Cooldown /\ Cardinality(Exhausted) <= MaxFailovers
           Unlimited == \A r \in Request :
                           loop[r].on /\ ~loop[r].excused => loop'[r].result # "limited"
<1>1. FInit => LoopInv
  BY NoLoopBound DEF FInit, LoopInv
<1>2. FInit => Inv
  <2> SUFFICES ASSUME FInit PROVE SpentInv OBVIOUS
  <2>1. now <= MaxTime BY BoundAssumption DEF FInit, Init
  <2>2. \A r \in Request : ~loop[r].on BY DEF FInit, NoLoop
  <2> QED BY <2>1, <2>2 DEF SpentInv, Spent
<1>3. LoopInv /\ [FNext]_fvars => LoopInv' BY NextLoop
<1>4. TypeOK /\ TypeOK' /\ CooldownBound /\ LoopInv /\ Inv /\ [FNext]_fvars => Inv'
  BY NextSpent
<1>5. TypeOK /\ LoopInv /\ Inv /\ [FNext]_fvars => [Enough => Unlimited]_fvars
  <2> SUFFICES ASSUME TypeOK, LoopInv, Inv, FNext, Enough, NEW r \in Request,
                      loop[r].on, ~loop[r].excused, loop'[r].result = "limited"
               PROVE  FALSE
    OBVIOUS
  <2>1. SpentInv OBVIOUS
  <2>2. Unreported(r, "limited") BY <2>1, LimitedIsGivenUp
  <2> DEFINE k == req[r].label
  <2>3. /\ req[r].pc = "holding" /\ k \in Exhausted
        /\ ~(loop[r].failovers < MaxFailovers)
    BY <2>2 DEF Unreported, FailoverLeft
  <2>4. PICK S \in SUBSET Exhausted : SpentOn(r, S) BY <2>1 DEF SpentInv, Spent
  <2>5. k \notin S BY <2>3, <2>4 DEF SpentOn, AtAccount, LabelsAhead
  <2>6. IsFiniteSet(Exhausted)
    <3>1. IsFiniteSet(Label) BY LabelAssumption, FS_Interval DEF Label
    <3> QED BY <3>1, FS_Subset, UpstreamAssumption
  <2>7. IsFiniteSet(S) BY <2>6, FS_Subset
  <2>8. Cardinality(S \cup {k}) = Cardinality(S) + 1
    BY <2>5, <2>7, FS_AddElement
  <2>9. Cardinality(S \cup {k}) <= Cardinality(Exhausted)
    <3>1. S \cup {k} \in SUBSET Exhausted BY <2>3
    <3> QED BY <2>6, <3>1, FS_Subset
  <2>10. /\ Cardinality(S) \in Nat /\ Cardinality(S \cup {k}) \in Nat
         /\ Cardinality(Exhausted) \in Nat /\ MaxFailovers \in Nat
    BY <2>6, <2>7, <2>8, FS_CardinalityType, RetryAssumption
  <2>11. Cardinality(S) = loop[r].failovers BY <2>4 DEF SpentOn
  <2> QED BY <2>3, <2>8, <2>9, <2>10, <2>11
<1> QED
  BY <1>1, <1>2, <1>3, <1>4, <1>5, CallsUsePool, TypeCorrect, CooldownsBounded, PTL
  DEF FSpec, LimitNotPassedOn

=============================================================================
