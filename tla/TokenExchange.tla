---------------------------- MODULE TokenExchange ----------------------------
(***************************************************************************)
(* The exchange of one account's refresh token (app/modules/accounts).     *)
(*                                                                         *)
(* A refresh token works once: the provider consumes it and issues the     *)
(* next.  A process that dies, or loses the answer, between sending the    *)
(* token and storing its successor does not know whether the stored token  *)
(* still works.  So the exchange is written ahead: an intent row with the  *)
(* token is inserted before the token is sent and deleted with the store   *)
(* of its successor.  An intent that is found again means an unknown       *)
(* outcome: the account is exchange_uncertain, and the token is replayed   *)
(* once, after a window in which the first exchange must have ended.       *)
(* Operators and the scheduler may reset the intent for another replay.    *)
(*                                                                         *)
(* An action is one database transaction or one step of the conversation   *)
(* with the provider.  A read followed by a conditional write that tests   *)
(* again what was read is one action.  The lock stands for the advisory    *)
(* lock on PostgreSQL, lost with its connection, and for the single flight *)
(* of one process on SQLite, where a new login may overlap an exchange:    *)
(* LoseLock.  Tokens are numbered in the order the provider issued them.   *)
(***************************************************************************)
EXTENDS Integers, FiniteSets

CONSTANTS
    Procs,          \* refreshes that may run at the same time
    Timeout,        \* exchange_timeout_seconds
    Margin,         \* 900 seconds
    Base,           \* exchange_auto_reset_base_seconds
    MaxAutoResets,  \* exchange_auto_reset_max_attempts
    Longest,        \* how long an exchange may take, from its intent to the
                    \* last effect of its request and its answer
    MaxTime,        \* bound of the clock
    MaxTokens,      \* bound of the tokens issued
    MaxCrashes,     \* bound of the crashes
    MaxLosses,      \* bound of the lost locks
    None

ASSUME ExchangeAssumption ==
    /\ Timeout \in Nat /\ Margin \in Nat \ {0} /\ Base \in Nat
    /\ MaxAutoResets \in Nat /\ MaxTime \in Nat /\ MaxTokens \in Nat \ {0}
    /\ MaxCrashes \in Nat /\ MaxLosses \in Nat
    /\ Longest \in Nat /\ Longest < Timeout + Margin
    /\ None \notin Procs

VARIABLES
    now,       \* the clock of the database
    acct,      \* the account row: its refresh token and status
    intent,    \* its account_exchange_intents row, or None
    lock,      \* who holds the refresh lock
    proc,      \* where each refresh is: see Refreshes
    live,      \* provider: the tokens that work
    issued,    \* provider: the last token issued
    wire,      \* requests on the way to the provider
    unsaved,   \* history: tokens marked as consumed without a successor
    refused,   \* history: tokens whose refusal was raised to the callers
    misjudged, \* history: tokens that were blamed for an earlier one's refusal
    stranded,  \* history: a crash separated an aborted exchange from its status
    faults     \* how many crashes and lost locks there were

vars == <<now, acct, intent, lock, proc, live, issued, wire, unsaved, refused, misjudged,
          stranded, faults>>

database == <<acct, intent>>
provider == <<live, issued, wire>>
history == <<unsaved, refused, misjudged, stranded, faults>>

-----------------------------------------------------------------------------
(* Types *)

Tokens == 1..MaxTokens
Statuses == {"active", "exchange_uncertain", "reauth_required"}
ResetReasons == {"operator_reset", "auto_reset"}
Reasons == ResetReasons \cup {"none", "unsaved", "auto_exhausted"}

Intents == [token: Tokens, started_at: 0..MaxTime, replay: BOOLEAN, reason: Reasons,
            auto_resets: 0..MaxAutoResets]

ASSUME NoIntentAssumption == None \notin Intents

\* Between the insert of the intent and the last write about the exchange.
Exchanging == {"ready", "sent", "answered", "unsaved", "restoring", "failing"}
Phases == {"idle", "checking", "begin"} \cup Exchanging

\* "tokens": the successor; "garbled": an answer without usable tokens;
\* "temporary": refused for now; "dead": the token does not work; "ambiguous":
\* no answer, or one that leaves it open.
Answers == {"none", "tokens", "garbled", "temporary", "dead", "ambiguous"}

Refreshes == [pc: Phases, token: Tokens \cup {0}, status: Statuses, replay: BOOLEAN,
              at: 0..MaxTime, answer: Answers, new: Tokens \cup {0}]

Requests == [token: Tokens, at: 0..MaxTime, by: Procs]

Idle == [pc |-> "idle", token |-> 0, status |-> "active", replay |-> FALSE, at |-> 0,
         answer |-> "none", new |-> 0]

-----------------------------------------------------------------------------
(* The database operations *)

\* Mutant: the processing window is not awaited.
ReadyAtOnce(i) == TRUE

\* The processing window of exchange_intent_window is over.
Ready(i) == now >= i.started_at + Timeout + Margin

\* An intent is replayed once, and again after a reset.
MayReplay(i) == i.reason \in ResetReasons \/ (~i.replay /\ i.reason = "none")

IntentFor(t) == intent # None /\ intent.token = t

\* Mutant: the status is written whatever token the account has.
UpdateStatusUnfenced(t, status) == [acct EXCEPT !.status = status]

\* update_status, on condition that the token is still t.
UpdateStatus(t, status) == IF acct.token = t THEN [acct EXCEPT !.status = status] ELSE acct

\* Mutant: the mark does not look for its intent and token.
MarkWithoutToken(t) == [acct EXCEPT !.status = "exchange_uncertain"]

\* mark_exchange_uncertain, without and with a reason.
MarkUncertain(t) ==
    IF IntentFor(t) THEN UpdateStatus(t, "exchange_uncertain") ELSE acct

MarkUnsaved(t) ==
    IF IntentFor(t) /\ acct.token = t THEN [intent EXCEPT !.reason = "unsaved"] ELSE intent

\* abort_exchange.
Aborted(t) == IF IntentFor(t) THEN None ELSE intent

-----------------------------------------------------------------------------
(* A refresh: refresh_account_locked *)

Init ==
    /\ now = 0
    /\ acct = [token |-> 1, status |-> "active"]
    /\ intent = None
    /\ lock = None
    /\ proc = [p \in Procs |-> Idle]
    /\ live = {1}
    /\ issued = 1
    /\ wire = {}
    /\ unsaved = {} /\ refused = {} /\ misjudged = {}
    /\ stranded = FALSE
    /\ faults = [crashes |-> 0, losses |-> 0]

Done(p) ==
    /\ proc' = [proc EXCEPT ![p] = Idle]
    /\ lock' = IF lock = p THEN None ELSE lock

Goes(p, pc) ==
    /\ proc' = [proc EXCEPT ![p].pc = pc]
    /\ UNCHANGED lock

\* The lock is taken and the account reloaded.
Reload(p) ==
    /\ proc[p].pc = "idle" /\ lock = None
    /\ lock' = p
    /\ proc' = [proc EXCEPT ![p] = [Idle EXCEPT !.pc = "checking", !.token = acct.token,
                                                !.status = acct.status]]
    /\ UNCHANGED <<now, database, provider, history>>

\* No intent: a first exchange, unless the status says that there was one.
NoIntent(p) ==
    /\ proc[p].pc = "checking" /\ intent = None
    /\ IF proc[p].status = "exchange_uncertain" THEN Done(p) ELSE Goes(p, "begin")
    /\ UNCHANGED <<now, database, provider, history>>

\* The intent of another token: dropped if the account still has this one.
OtherIntent(p) ==
    /\ proc[p].pc = "checking" /\ intent # None /\ ~IntentFor(proc[p].token)
    /\ IF /\ proc[p].status # "exchange_uncertain"
          /\ acct.token = proc[p].token /\ acct.status # "exchange_uncertain"
       THEN intent' = None /\ Goes(p, "begin")
       ELSE Done(p) /\ UNCHANGED intent
    /\ UNCHANGED <<now, acct, provider, history>>

\* The intent of this token: a replay, or the outcome stays uncertain.
SameIntent(p) ==
    LET t == proc[p].token IN
    /\ proc[p].pc = "checking" /\ IntentFor(t)
    /\ \/ /\ proc[p].status # "reauth_required" /\ Ready(intent) /\ MayReplay(intent)
          /\ proc' = [proc EXCEPT ![p].pc = "begin", ![p].replay = TRUE]
          /\ UNCHANGED <<lock, acct>>
       \/ /\ proc[p].status # "reauth_required" /\ ~(Ready(intent) /\ MayReplay(intent))
          /\ acct' = IF proc[p].status = "exchange_uncertain" THEN acct ELSE MarkUncertain(t)
          /\ Done(p)
       \/ proc[p].status = "reauth_required" /\ Done(p) /\ UNCHANGED acct
    /\ UNCHANGED <<now, intent, provider, history>>

\* What begin_exchange tests in its transaction.
CanBegin(p) ==
    /\ acct.token = proc[p].token
    /\ IF proc[p].replay
       THEN /\ acct.status # "reauth_required"
            /\ IntentFor(proc[p].token) /\ Ready(intent) /\ MayReplay(intent)
       ELSE acct.status # "exchange_uncertain" /\ intent = None

\* begin_exchange: the intent is there before the token is sent.
BeginExchange(p) ==
    /\ proc[p].pc = "begin" /\ CanBegin(p)
    /\ intent' = [token |-> proc[p].token, started_at |-> now, replay |-> proc[p].replay,
                  reason |-> "none",
                  auto_resets |-> IF proc[p].replay THEN intent.auto_resets ELSE 0]
    /\ proc' = [proc EXCEPT ![p].pc = "ready", ![p].at = now]
    /\ UNCHANGED <<now, lock, acct, provider, history>>

BeginFails(p) ==
    /\ proc[p].pc = "begin" /\ ~CanBegin(p)
    /\ acct' = MarkUncertain(proc[p].token)
    /\ Done(p)
    /\ UNCHANGED <<now, intent, provider, history>>

Send(p) ==
    /\ proc[p].pc = "ready"
    /\ wire' = wire \cup {[token |-> proc[p].token, at |-> proc[p].at, by |-> p]}
    /\ Goes(p, "sent")
    /\ UNCHANGED <<now, database, live, issued, history>>

\* The exchange did not take place: the intent goes, and then the status.
AbortExchange(p) ==
    /\ \/ proc[p].pc = "ready"
       \/ proc[p].pc = "answered" /\ proc[p].answer = "temporary"
    /\ intent' = Aborted(proc[p].token)
    /\ IF proc[p].replay THEN Goes(p, "restoring") ELSE Done(p)
    /\ UNCHANGED <<now, acct, provider, history>>

RestoreStatus(p) ==
    /\ proc[p].pc = "restoring"
    /\ acct' = UpdateStatus(proc[p].token, "active")
    /\ Done(p)
    /\ UNCHANGED <<now, intent, provider, history>>

\* The provider refuses the token for good.
AbortDead(p) ==
    /\ proc[p].pc = "answered" /\ proc[p].answer = "dead"
    /\ intent' = Aborted(proc[p].token)
    /\ Goes(p, "failing")
    /\ UNCHANGED <<now, acct, provider, history>>

\* The account is to log in again if it still has that token; the refusal is
\* raised to everybody who waits for the refresh, whatever was written.
RequireReauth(p) ==
    /\ proc[p].pc = "failing"
    /\ acct' = UpdateStatus(proc[p].token, "reauth_required")
    /\ refused' = refused \cup {proc[p].token}
    /\ Done(p)
    /\ UNCHANGED <<now, intent, provider, unsaved, misjudged, stranded, faults>>

\* mark_permanent_failure: a caller that selected the account while it was
\* active reports the refusal, at any later time and as often as there are
\* callers.  The write compares the status and not the token.
MarkPermanentFailure(t) ==
    /\ acct.status = "active"
    /\ acct' = [acct EXCEPT !.status = "reauth_required"]
    /\ misjudged' = IF acct.token = t THEN misjudged ELSE misjudged \cup {acct.token}
    /\ UNCHANGED <<now, intent, lock, proc, provider, unsaved, refused, stranded, faults>>

\* Nobody knows: the intent stays.
MarkExchangeUncertain(p) ==
    /\ proc[p].pc = "answered" /\ proc[p].answer = "ambiguous"
    /\ acct' = MarkUncertain(proc[p].token)
    /\ Done(p)
    /\ UNCHANGED <<now, intent, provider, history>>

\* Mutant: the successor is stored whatever token the account has.
SaveUnfenced(p) ==
    /\ proc[p].pc = "answered" /\ proc[p].answer = "tokens"
    /\ acct' = [token |-> proc[p].new, status |-> "active"]
    /\ intent' = None
    /\ Done(p)
    /\ UNCHANGED <<now, provider, history>>

\* Mutant: an answer without tokens is stored too.
SaveUnchecked(p) ==
    /\ proc[p].pc = "answered" /\ proc[p].answer \in {"tokens", "garbled"}
    /\ acct.token = proc[p].token /\ IntentFor(proc[p].token)
    /\ acct' = [token |-> proc[p].new, status |-> "active"]
    /\ intent' = None
    /\ Done(p)
    /\ UNCHANGED <<now, provider, history>>

\* update_tokens: the successor is stored and the intent deleted, on condition
\* that the token and the intent are still the ones of this exchange.
UpdateTokens(p) ==
    LET t == proc[p].token IN
    /\ proc[p].pc = "answered" /\ proc[p].answer = "tokens"
    /\ IF acct.token = t /\ IntentFor(t)
       THEN /\ acct' = [token |-> proc[p].new, status |-> "active"]
            /\ intent' = None
            /\ Done(p)
       ELSE /\ IF acct.token # t THEN Done(p) ELSE Goes(p, "unsaved")
            /\ UNCHANGED database
    /\ UNCHANGED <<now, provider, history>>

\* The store fails until its time is up, or the answer had no tokens.
NotSaved(p) ==
    /\ proc[p].pc = "answered" /\ proc[p].answer \in {"tokens", "garbled"}
    /\ Goes(p, "unsaved")
    /\ UNCHANGED <<now, database, provider, history>>

MarkExchangeUnsaved(p) ==
    LET t == proc[p].token IN
    /\ proc[p].pc = "unsaved"
    /\ acct' = MarkUncertain(t)
    /\ intent' = MarkUnsaved(t)
    /\ unsaved' = IF IntentFor(t) /\ acct.token = t THEN unsaved \cup {t} ELSE unsaved
    /\ Done(p)
    /\ UNCHANGED <<now, provider, refused, misjudged, stranded, faults>>

\* The process dies or is cut off from the database at any point.
Crash(p) ==
    /\ proc[p].pc # "idle" /\ faults.crashes < MaxCrashes
    /\ faults' = [faults EXCEPT !.crashes = @ + 1]
    /\ stranded' = (stranded \/ proc[p].pc \in {"restoring", "failing"})
    /\ Done(p)
    /\ UNCHANGED <<now, database, provider, unsaved, refused, misjudged>>

LoseLock ==
    /\ lock # None /\ faults.losses < MaxLosses
    /\ faults' = [faults EXCEPT !.losses = @ + 1]
    /\ lock' = None
    /\ UNCHANGED <<now, database, proc, provider, unsaved, refused, misjudged, stranded>>

-----------------------------------------------------------------------------
(* The provider *)

Waiting(w) == proc[w.by].pc = "sent" /\ proc[w.by].token = w.token /\ proc[w.by].at = w.at

\* The answer reaches the refresh if it still waits for it.
Answered(w, answer, new) ==
    /\ wire' = wire \ {w}
    /\ proc' = IF Waiting(w)
               THEN [proc EXCEPT ![w.by].pc = "answered", ![w.by].answer = answer,
                                 ![w.by].new = new]
               ELSE proc
    /\ UNCHANGED <<now, database, lock, history>>

\* The provider consumes the token; the successor may not get through.
ProviderExchanges(w) ==
    /\ w.token \in live /\ issued < MaxTokens
    /\ live' = (live \ {w.token}) \cup {issued + 1}
    /\ issued' = issued + 1
    /\ \/ Answered(w, "tokens", issued + 1)
       \/ \E answer \in {"garbled", "ambiguous"} : Answered(w, answer, 0)

\* The provider does not: for now, for good, or nobody knows.
ProviderRefuses(w) ==
    /\ \/ w.token \notin live /\ Answered(w, "dead", 0)
       \/ \E answer \in {"temporary", "ambiguous"} : Answered(w, answer, 0)
    /\ UNCHANGED <<live, issued>>

\* The refresh gives up while its request is still on the way.
AnswerTimeout(p) ==
    /\ proc[p].pc = "sent"
    /\ proc' = [proc EXCEPT ![p].pc = "answered", ![p].answer = "ambiguous"]
    /\ UNCHANGED <<now, database, lock, provider, history>>

-----------------------------------------------------------------------------
(* Operators, the scheduler, the clock *)

\* Mutant: the login leaves the intent of the old token.
ReloginKeepsIntent ==
    /\ issued < MaxTokens
    /\ issued' = issued + 1
    /\ acct' = [token |-> issued + 1, status |-> "active"]
    /\ live' \in {{issued + 1}, live \cup {issued + 1}}
    /\ stranded' = FALSE
    /\ UNCHANGED <<now, intent, lock, proc, wire, unsaved, refused, misjudged, faults>>

\* A new login stores a new token and drops the intent; the old token may
\* live on.
Relogin ==
    /\ issued < MaxTokens
    /\ issued' = issued + 1
    /\ acct' = [token |-> issued + 1, status |-> "active"]
    /\ intent' = None
    /\ live' \in {{issued + 1}, live \cup {issued + 1}}
    /\ stranded' = FALSE
    /\ UNCHANGED <<now, lock, proc, wire, unsaved, refused, misjudged, faults>>

\* Mutant: the reset does not ask whether the tokens were lost.
ClearAnyIntent ==
    /\ lock = None
    /\ intent # None /\ Ready(intent) /\ acct.status = "exchange_uncertain"
    /\ acct' = [acct EXCEPT !.status = "active"]
    /\ intent' = [intent EXCEPT !.reason = "operator_reset", !.auto_resets = 0]
    /\ UNCHANGED <<now, lock, proc, provider, history>>

\* exchange-reset: the operator allows another replay, under the lock.
ClearExchangeIntent ==
    /\ lock = None
    /\ intent # None /\ intent.reason # "unsaved" /\ Ready(intent)
    /\ acct.status = "exchange_uncertain"
    /\ acct' = [acct EXCEPT !.status = "active"]
    /\ intent' = [intent EXCEPT !.reason = "operator_reset", !.auto_resets = 0]
    /\ UNCHANGED <<now, lock, proc, provider, history>>

\* auto_reset_exchange_intent: the scheduler allows another replay of a replay
\* that stayed open, a few times and ever later.
AutoResetExchangeIntent ==
    /\ acct.status = "exchange_uncertain" /\ IntentFor(acct.token)
    /\ intent.reason = "none" /\ intent.replay
    /\ IF intent.auto_resets >= MaxAutoResets
       THEN intent' = [intent EXCEPT !.reason = "auto_exhausted"]
       ELSE /\ now >= intent.started_at + Timeout + Base * 2^intent.auto_resets
            /\ intent' = [intent EXCEPT !.reason = "auto_reset", !.auto_resets = @ + 1]
    /\ UNCHANGED <<now, acct, lock, proc, provider, history>>

\* The scheduler meets an exchange whose tokens were lost.
TokensLost ==
    /\ acct.status = "exchange_uncertain" /\ IntentFor(acct.token)
    /\ intent.reason = "unsaved"
    /\ acct' = UpdateStatus(acct.token, "reauth_required")
    /\ UNCHANGED <<now, intent, lock, proc, provider, history>>

\* An exchange is over after Longest, whoever answers or does not.
Tick ==
    /\ now < MaxTime
    /\ \A p \in Procs : proc[p].pc \in Exchanging => now < proc[p].at + Longest
    /\ \A w \in wire : now < w.at + Longest
    /\ now' = now + 1
    /\ UNCHANGED <<database, lock, proc, provider, history>>

RefreshStep(p) ==
    \/ Reload(p) \/ NoIntent(p) \/ OtherIntent(p) \/ SameIntent(p)
    \/ BeginExchange(p) \/ BeginFails(p) \/ Send(p) \/ AnswerTimeout(p)
    \/ AbortExchange(p) \/ RestoreStatus(p) \/ AbortDead(p) \/ RequireReauth(p)
    \/ MarkExchangeUncertain(p) \/ UpdateTokens(p) \/ NotSaved(p) \/ MarkExchangeUnsaved(p)
    \/ Crash(p)

ProviderStep == \E w \in wire : ProviderExchanges(w) \/ ProviderRefuses(w)

Next ==
    \/ \E p \in Procs : RefreshStep(p)
    \/ ProviderStep
    \/ \E t \in refused : MarkPermanentFailure(t)
    \/ LoseLock \/ Relogin \/ ClearExchangeIntent \/ AutoResetExchangeIntent
    \/ TokensLost \/ Tick

Spec == Init /\ [][Next]_vars

-----------------------------------------------------------------------------
(* Properties *)

\* Type invariant.
TypeOK ==
    /\ now \in 0..MaxTime
    /\ acct \in [token: Tokens, status: Statuses]
    /\ intent \in Intents \cup {None}
    /\ lock \in Procs \cup {None}
    /\ proc \in [Procs -> Refreshes]
    /\ live \subseteq Tokens
    /\ issued \in Tokens
    /\ wire \subseteq Requests
    /\ unsaved \subseteq Tokens /\ refused \subseteq Tokens /\ misjudged \subseteq Tokens
    /\ stranded \in BOOLEAN
    /\ faults \in [crashes: 0..MaxCrashes, losses: 0..MaxLosses]

\* A token is in at most one exchange at a time, also when the lock of a
\* running exchange is lost or its process died with the request on the way:
\* the intent and its window alone see to it (begin_exchange).
SingleSender ==
    /\ \A p, q \in Procs :
         /\ proc[p].pc \in {"ready", "sent"} /\ proc[q].pc \in {"ready", "sent"}
         /\ proc[p].token = proc[q].token
         => p = q
    /\ \A v, w \in wire : v.token = w.token => v = w
    /\ \A w \in wire, p \in Procs :
         proc[p].pc = "ready" => proc[p].token # w.token

\* The intent is always about the stored token: whatever replaces the token
\* (update_tokens, a new login) removes the intent of the old one, so the
\* branch of the refresh that drops the intent of another token is never
\* needed.
IntentFollowsToken ==
    intent # None => intent.token = acct.token

\* A token that was answered and whose successor could not be stored is never
\* sent again, whatever operators and the scheduler reset
\* (exchange_persist.mark_exchange_unsaved: "consumed refresh token will NOT
\* be replayed").
UnsavedNotReplayed ==
    [][\A p \in Procs : proc[p].pc = "begin" /\ proc'[p].pc = "ready"
                        => proc[p].token \notin unsaved]_vars

\* An account asks for a new login only when its stored token is dead, however
\* late the answers of overlapping exchanges come (update_status with the
\* expected token).  The exception is the report of a caller, which carries no
\* token: a refusal of an earlier token condemns the one that is stored by then
\* (mark_permanent_failure).
ReauthMeansDead ==
    acct.status = "reauth_required" => acct.token \notin live \/ acct.token \in misjudged

\* A stored token is only ever replaced by one that was issued later: an
\* exchange that finishes late never overwrites a newer token (update_tokens).
NewestTokenWins ==
    [][acct'.token >= acct.token]_vars

\* As long as refreshes keep their locks, an account whose exchange is
\* uncertain has the intent that a replay or a reset needs, or its refresh is
\* about to settle the status.  Only a crash between the two writes of an
\* abort strands it, until the next login.
UncertainRecoverable ==
    acct.status = "exchange_uncertain" /\ faults.losses = 0 =>
        \/ IntentFor(acct.token)
        \/ \E p \in Procs : /\ proc[p].pc \in {"restoring", "failing"}
                            /\ proc[p].token = acct.token
        \/ stranded

\* Recovery does not replay a replay whose outcome is unknown, unless an
\* operator asks for it.
AmbiguousReplayNotRepeated ==
    [][\A p \in Procs :
          /\ proc[p].pc = "begin" /\ proc'[p].pc = "ready"
          /\ intent # None /\ intent.replay
          => intent.reason = "operator_reset"]_vars

=============================================================================
