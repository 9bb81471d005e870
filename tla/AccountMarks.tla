---------------------------- MODULE AccountMarks ----------------------------
(***************************************************************************)
(* Cooldowns and account status in the load balancer (app/modules/proxy).  *)
(*                                                                         *)
(* What is known about an account's health is in two places: its database  *)
(* row (status, reset_at, blocked_at), shared by everybody, and the        *)
(* RuntimeState of the balancer, which dies with the process.  A selection *)
(* merges the two into one AccountState per account, lets the routing      *)
(* logic judge and change these states, writes them back to the runtime,   *)
(* and persists them with a compare-and-set on the row it had read.  A     *)
(* request that fails upstream marks its account the same way.  Operators  *)
(* pause and reactivate accounts, and the token exchange takes them out,   *)
(* in the database only.                                                   *)
(*                                                                         *)
(* The module follows the path of AnthropicProxyService, one balancer for  *)
(* three providers whose selections take no lease (AccountLeases has the   *)
(* leases).  An action is what one task does between two awaits.  Of the   *)
(* usage samples only those are here that end Kimi's monthly limit; health *)
(* tiers and the choice between available accounts are left open; 0 stands *)
(* for None in a time stamp.                                               *)
(***************************************************************************)
EXTENDS Integers, FiniteSets

CONSTANTS
    Accounts, Requests, Providers,
    Kimi,             \* the provider whose limits may be monthly ones
    ProviderOf,       \* [Accounts -> Providers]
    Asks,             \* [Requests -> Providers]
    StickyRequests,   \* the requests that come with a sticky key
    Delays,           \* how far away a rate limit may end
    BoundAfter,       \* 3600 seconds, bounded_retry_at
    BoundRetry,       \* 60 seconds
    Grace,            \* _STICKY_GRACE_PERIOD_SECONDS
    Capacity,         \* CAPACITY_COOLDOWN_SECONDS
    RuleDelays,       \* for how long a report may exclude an account: the
                      \* cooldown_seconds of the rules, 15 and 60 seconds of a mirror
    BackoffAfter,     \* 3 errors put an account in backoff
    Backoff,          \* [1..MaxErrors -> Nat], the backoff by error count
    MaxAttempts,      \* _MAX_SELECTION_ATTEMPTS
    MaxErrors,        \* bound of the error counts
    MaxTime,          \* bound of the clock
    MaxEvents,        \* bound of the failures that are reported, the operator and
                      \* exchange steps, samples and restarts
    None

ASSUME MarkAssumption ==
    /\ ProviderOf \in [Accounts -> Providers]
    /\ Asks \in [Requests -> Providers]
    /\ StickyRequests \subseteq Requests
    /\ Delays \subseteq Nat \ {0}
    /\ BoundAfter \in Nat /\ BoundRetry \in Nat
    /\ Grace \in Nat /\ Capacity \in Nat /\ RuleDelays \subseteq Nat \ {0}
    /\ BackoffAfter \in Nat \ {0} /\ Backoff \in [1..MaxErrors -> Nat]
    /\ MaxAttempts \in Nat \ {0} /\ MaxErrors \in Nat /\ MaxTime \in Nat \ {0}
    /\ MaxEvents \in Nat
    /\ None \notin Accounts \cup Requests

VARIABLES
    now,       \* time.time()
    row,       \* the accounts table
    runtime,   \* LoadBalancer._runtime
    lock,      \* which request holds the lock of each account
    req,       \* where each request is: see RequestStates
    sample,    \* when the latest monthly sample was taken, if it shows quota left
    shown,     \* history: when a monthly sample last showed quota left
    excluded,  \* history: until when the last report excludes each account
    events     \* how many of the events there were that MaxEvents bounds

vars == <<now, row, runtime, lock, req, sample, shown, excluded, events>>

-----------------------------------------------------------------------------
(* Types *)

Limited == {"rate_limited", "quota_exceeded"}
Statuses == Limited \cup {"active", "paused", "exchange_uncertain", "deactivated"}

\* monthly: the deactivation_reason is KIMI_MONTHLY_LIMIT_REASON.
Rows == [status: Statuses, reset_at: Nat, blocked_at: Nat, monthly: BOOLEAN]

Runtimes == [reset_at: Nat, blocked_at: Nat, cooldown_until: Nat, rule_until: Nat,
             error_count: Nat, last_error_at: Nat]

\* AccountState: a runtime with a status.
States == [status: Statuses, reset_at: Nat, blocked_at: Nat, monthly: BOOLEAN,
           cooldown_until: Nat, rule_until: Nat, error_count: Nat, last_error_at: Nat]

RuntimeState == [reset_at |-> 0, blocked_at |-> 0, cooldown_until |-> 0, rule_until |-> 0,
                 error_count |-> 0, last_error_at |-> 0]

Phases == {"idle", "loaded", "sticky", "persist", "held", "marking", "recording"}

NoRow == [status |-> "active", reset_at |-> 0, blocked_at |-> 0, monthly |-> FALSE]

RequestStates ==
    [pc: Phases,
     attempt: 0..MaxAttempts,
     scope: SUBSET Accounts,             \* the accounts it may select
     rows: [Accounts -> Rows],           \* their rows as it read them
     left: SUBSET Accounts,              \* the ones a sample frees from their monthly limit
     barred: [Accounts -> Nat],          \* history: excluded when it built its states
     states: [Accounts -> States],       \* their states as it built them
     pick: Accounts \cup {None},         \* the selected account
     snapshot: Rows,                     \* the copy of its row the caller gets
     todo: SUBSET Accounts,              \* states still to persist
     stale: BOOLEAN,                     \* the selected row had changed
     moved: BOOLEAN]                     \* the cache generation has changed

-----------------------------------------------------------------------------
(* Row and runtime become an account state *)

BoundedRetryAt(reset, blocked) ==
    IF reset = 0 \/ reset > blocked + BoundAfter THEN blocked + BoundRetry ELSE reset

Or(x, y) == IF x # 0 THEN x ELSE y

\* When the limit of a row ends if no sample ends it earlier.
RetryAt(rw) == IF rw.monthly THEN rw.reset_at ELSE BoundedRetryAt(rw.reset_at, rw.blocked_at)

\* kimi_monthly_selection_state, its first test: a sample taken after the block
\* shows quota left.
MonthlyLeft(rw, taken) == rw.monthly /\ rw.blocked_at # 0 /\ taken > rw.blocked_at

\* kimi_monthly_selection_state: the limit holds until its time has come or a
\* sample says otherwise; neither of the bounds applies.
MonthlyState(rw, rt, left) ==
    LET reset == Or(rw.reset_at, rt.reset_at)
    IN  IF left \/ (reset # 0 /\ reset <= now)
        THEN [status |-> "active", reset_at |-> 0, cooldown_until |-> 0]
        ELSE [status |-> rw.status, reset_at |-> reset, cooldown_until |-> rt.cooldown_until]

\* The status, reset and cooldown of any other row; an unresolved exchange does
\* not prevent selection.
BoundedState(rw, rt) ==
    LET seed == IF rw.status = "exchange_uncertain" THEN "active" ELSE rw.status
        blocked == Or(rw.blocked_at, rt.blocked_at)
        raw == Or(rw.reset_at, rt.reset_at)
    IN  [status |-> seed,
         reset_at |-> IF seed \in Limited /\ blocked # 0 THEN BoundedRetryAt(raw, blocked) ELSE raw,
         cooldown_until |-> IF rt.cooldown_until # 0 /\ blocked # 0
                            THEN BoundedRetryAt(rt.cooldown_until, blocked)
                            ELSE rt.cooldown_until]

\* _state_from_account: the row wins over the runtime, and a block that has
\* passed is lifted.
StateFromAccount(rw, rt, left) ==
    LET seed == IF rw.monthly THEN MonthlyState(rw, rt, left) ELSE BoundedState(rw, rt)
        blocked == Or(rw.blocked_at, rt.blocked_at)
        lifted == seed.status \in Limited /\ (blocked = 0 \/ seed.reset_at <= now)
        status == IF lifted THEN "active" ELSE seed.status
    IN  [status |-> status,
         reset_at |-> IF lifted THEN 0 ELSE seed.reset_at,
         blocked_at |-> IF status \in Limited THEN blocked ELSE 0,
         monthly |-> rw.monthly /\ status # "active",
         cooldown_until |-> seed.cooldown_until,
         rule_until |-> rt.rule_until,
         error_count |-> rt.error_count,
         last_error_at |-> rt.last_error_at]

\* _state_for: what a request that marks its account starts from.
StateFor(rw, rt) ==
    [status |-> rw.status,
     reset_at |-> rt.reset_at,
     blocked_at |-> Or(rw.blocked_at, rt.blocked_at),
     monthly |-> rw.monthly,
     cooldown_until |-> rt.cooldown_until,
     rule_until |-> rt.rule_until,
     error_count |-> rt.error_count,
     last_error_at |-> rt.last_error_at]

\* _sync_runtime_state: the whole state goes back, whatever it was built from.
SyncRuntimeState(s) ==
    [reset_at |-> s.reset_at, blocked_at |-> s.blocked_at,
     cooldown_until |-> s.cooldown_until, rule_until |-> s.rule_until,
     error_count |-> s.error_count, last_error_at |-> s.last_error_at]

\* What a state looks like as a row; an unresolved exchange stays one.
AsRow(s, read) ==
    [status |-> IF read.status = "exchange_uncertain" THEN read.status ELSE s.status,
     reset_at |-> s.reset_at,
     blocked_at |-> s.blocked_at,
     monthly |-> IF read.status = "exchange_uncertain" THEN read.monthly ELSE s.monthly]

\* Mutants: the row is overwritten, or only its status is compared.
UpdateAnyRow(a, read, new) == [row EXCEPT ![a] = new]
UpdateOnStatus(a, read, new) ==
    IF row[a].status = read.status THEN [row EXCEPT ![a] = new] ELSE row

\* update_status_if_current: compare-and-set on the row as it was read.
UpdateStatusIfCurrent(a, read, new) ==
    IF row[a] = read THEN [row EXCEPT ![a] = new] ELSE row

-----------------------------------------------------------------------------
(* Judging the states: the first half of core/balancer/logic.select_account *)

\* The status after limits whose time has come are lifted.
Lift(s, t) ==
    IF s.status \in Limited /\ s.reset_at # 0 /\ t >= s.reset_at
    THEN [s EXCEPT !.status = "active", !.reset_at = 0] ELSE s

Usable(s) == s.status = "active"

\* Mutant: the error rule is cleared with the cooldowns.
ExpireIgnoringRule(s, t) ==
    LET cooled == s.cooldown_until # 0 /\ t >= s.cooldown_until
    IN  [s EXCEPT !.rule_until = 0,
                  !.cooldown_until = IF cooled THEN 0 ELSE @,
                  !.last_error_at = IF cooled THEN 0 ELSE @,
                  !.error_count = IF cooled /\ s.blocked_at = 0 THEN 0 ELSE @]

\* Cooldowns that are over are cleared, unless an error rule still excludes.
Expire(s, t) ==
    LET cooled == s.cooldown_until # 0 /\ t >= s.cooldown_until
    IN  IF s.rule_until # 0 /\ t < s.rule_until THEN s
        ELSE [s EXCEPT !.rule_until = 0,
                       !.cooldown_until = IF cooled THEN 0 ELSE @,
                       !.last_error_at = IF cooled THEN 0 ELSE @,
                       !.error_count = IF cooled /\ s.blocked_at = 0 THEN 0 ELSE @]

Cooling(s, t) == s.cooldown_until # 0 /\ t < s.cooldown_until

InBackoff(s, t) ==
    /\ s.error_count >= BackoffAfter /\ s.blocked_at = 0
    /\ s.last_error_at # 0 /\ t - s.last_error_at < Backoff[s.error_count]

\* The state as select_account leaves it, and whether it is available.
Judged(s, t) ==
    LET l == Lift(s, t)
        e == Expire(l, t)
    IN  IF ~Usable(l) THEN l
        ELSE IF e.rule_until # 0 \/ Cooling(e, t) \/ InBackoff(e, t) THEN e
        ELSE [e EXCEPT !.error_count = IF @ >= BackoffAfter /\ e.blocked_at = 0 THEN 0 ELSE @,
                       !.last_error_at = IF e.error_count >= BackoffAfter /\ e.blocked_at = 0
                                         THEN 0 ELSE @]

Available(s, t) ==
    LET j == Judged(s, t)
    IN  Usable(j) /\ j.rule_until = 0 /\ ~Cooling(j, t) /\ ~InBackoff(j, t)

\* Cooling and backing-off accounts are chosen when nothing else is there;
\* an account that an error rule excludes never is.
Fallback(s, t) ==
    LET j == Judged(s, t)
    IN  Usable(j) /\ j.rule_until = 0 /\ (Cooling(j, t) \/ InBackoff(j, t))

\* The routing picks from one pool of states (burn-first, within budget, or
\* all).
Pickable(states, pool) ==
    LET open == {a \in pool : Available(states[a], now)}
    IN  IF open # {} THEN open ELSE {a \in pool : Fallback(states[a], now)}

-----------------------------------------------------------------------------
(* Actions *)

Event == events < MaxEvents /\ events' = events + 1

BlankState == StateFor(NoRow, RuntimeState)

Idle == [pc |-> "idle", attempt |-> 0, scope |-> {},
         rows |-> [a \in Accounts |-> NoRow], left |-> {}, barred |-> [a \in Accounts |-> 0],
         states |-> [a \in Accounts |-> BlankState],
         pick |-> None, snapshot |-> NoRow, todo |-> {}, stale |-> FALSE, moved |-> FALSE]

Init ==
    /\ now = 1
    /\ row = [a \in Accounts |-> NoRow]
    /\ runtime = [a \in Accounts |-> RuntimeState]
    /\ lock = [a \in Accounts |-> None]
    /\ req = [r \in Requests |-> Idle]
    /\ sample = [a \in Accounts |-> 0]
    /\ shown = [a \in Accounts |-> 0]
    /\ excluded = [a \in Accounts |-> 0]
    /\ events = 0

\* Invalidating the selection cache shows to the selections that are between
\* their pick and the end of persisting; the generation is read when they
\* start to persist.
Invalidated(rq) ==
    [r \in Requests |-> IF rq[r].pc = "persist" THEN [rq[r] EXCEPT !.moved = TRUE] ELSE rq[r]]

\* The selection inputs of attempt n: the rows and samples of the provider's
\* accounts that can be selected, without the ones the request has tried.
Loaded(r, n, tried) ==
    LET scope == {a \in Accounts \ tried : /\ ProviderOf[a] = Asks[r]
                                           /\ row[a].status \notin {"deactivated", "paused"}}
    IN  [Idle EXCEPT !.pc = "loaded", !.attempt = n, !.scope = scope,
                     !.rows = [a \in Accounts |-> IF a \in scope THEN row[a] ELSE NoRow],
                     !.left = {a \in scope : MonthlyLeft(row[a], sample[a])}]

LoadSelectionInputs(r) ==
    /\ req[r].pc = "idle"
    /\ \E tried \in SUBSET Accounts : req' = [req EXCEPT ![r] = Loaded(r, 1, tried)]
    /\ UNCHANGED <<now, row, runtime, lock, sample, shown, excluded, events>>

\* _prune_runtime: what is known about other providers' accounts is dropped.
PruneRuntime(r) ==
    [a \in Accounts |-> IF ProviderOf[a] = Asks[r] THEN runtime[a] ELSE RuntimeState]

\* History: what that forgets of exclusions.
Pruned(r) == [a \in Accounts |-> IF ProviderOf[a] = Asks[r] THEN excluded[a] ELSE 0]

\* _build_states, on a runtime.
BuildStates(r, rt) ==
    [a \in Accounts |-> IF a \in req[r].scope
                       THEN StateFromAccount(req[r].rows[a], rt[a], a \in req[r].left)
                       ELSE BlankState]

\* The states of the accounts in scope go back to the runtime, and become
\* what is to be persisted; the caller's copy of the selected row keeps the
\* blocked_at that was read.
Written(rt, scope, states) ==
    [a \in Accounts |-> IF a \in scope THEN SyncRuntimeState(states[a]) ELSE rt[a]]

Decided(r, states, pick) ==
    [req[r] EXCEPT !.pc = "persist", !.states = states, !.pick = pick,
                   !.todo = req[r].scope, !.barred = [a \in Accounts |-> 0],
                   !.snapshot = IF pick = None THEN NoRow ELSE
                       [status |-> states[pick].status, reset_at |-> states[pick].reset_at,
                        blocked_at |-> req[r].rows[pick].blocked_at,
                        monthly |-> states[pick].monthly]]

JudgedStates(states, pool) ==
    [a \in Accounts |-> IF a \in pool THEN Judged(states[a], now) ELSE states[a]]

\* Selection without a sticky key: build, judge, pick and write back in one
\* section.  Without a pick the last pool was the whole scope.
Select(r) ==
    /\ req[r].pc = "loaded" /\ r \notin StickyRequests
    /\ LET rt == PruneRuntime(r)
           built == BuildStates(r, rt)
       IN  \E pool \in SUBSET req[r].scope :
             LET states == JudgedStates(built, pool) IN
             /\ runtime' = Written(rt, req[r].scope, states)
             /\ \/ \E a \in Pickable(built, pool) :
                     req' = [req EXCEPT ![r] = Decided(r, states, a)]
                \/ /\ pool = req[r].scope /\ Pickable(built, pool) = {}
                   /\ req' = [req EXCEPT ![r] = Decided(r, states, None)]
    /\ excluded' = Pruned(r)
    /\ UNCHANGED <<now, row, lock, sample, shown, events>>

\* Selection with a sticky key: build, await the sticky lookup.
StickyBegin(r) ==
    /\ req[r].pc = "loaded" /\ r \in StickyRequests
    /\ runtime' = PruneRuntime(r)
    /\ excluded' = Pruned(r)
    /\ req' = [req EXCEPT ![r].pc = "sticky", ![r].states = BuildStates(r, runtime'),
                          ![r].barred = excluded']
    /\ UNCHANGED <<now, row, lock, sample, shown, events>>

\* History: an exclusion that a sticky selection wrote older states over is lost.
Overwritten(rt) ==
    [a \in Accounts |-> IF rt[a].rule_until < excluded[a] THEN 0 ELSE excluded[a]]

\* ... then judge and pick on the states built before, and write them back.
StickyCommit(r) ==
    /\ req[r].pc = "sticky"
    /\ \E pool \in SUBSET req[r].scope :
         LET states == JudgedStates(req[r].states, pool) IN
         /\ runtime' = Written(runtime, req[r].scope, states)
         /\ \/ \E a \in Pickable(req[r].states, pool) :
                 req' = [req EXCEPT ![r] = Decided(r, states, a)]
            \/ /\ pool = req[r].scope /\ Pickable(req[r].states, pool) = {}
               /\ req' = [req EXCEPT ![r] = Decided(r, states, None)]
    /\ excluded' = Overwritten(runtime')
    /\ UNCHANGED <<now, row, lock, sample, shown, events>>

\* The pinned account is rate limited for a moment more: it is used anyway.
\* Only the copy that was judged loses its marks.
StickyGrace(r, a) ==
    /\ req[r].pc = "sticky" /\ a \in req[r].scope
    /\ LET s == Judged(req[r].states[a], now) IN
       /\ s.status = "rate_limited"
       /\ Available(s, now + Grace)
       /\ runtime' = Written(runtime, req[r].scope, [req[r].states EXCEPT ![a] = s])
       /\ req' = [req EXCEPT ![r] =
                    Decided(r, [req[r].states EXCEPT ![a] = [s EXCEPT !.status = "active"]], a)]
    /\ excluded' = Overwritten(runtime')
    /\ UNCHANGED <<now, row, lock, sample, shown, events>>

\* One state is persisted; a state equal to the row that was read is not.
PersistState(r, a) ==
    /\ req[r].pc = "persist" /\ a \in req[r].todo
    /\ LET read == req[r].rows[a]
           new == AsRow(req[r].states[a], read)
           stale == a = req[r].pick /\ new # read /\ row[a] # read
       IN  /\ row' = IF new = read THEN row ELSE UpdateStatusIfCurrent(a, read, new)
           /\ req' = [req EXCEPT ![r] = [req[r] EXCEPT
                !.todo = @ \ {a}, !.rows[a] = NoRow, !.states[a] = BlankState,
                !.left = @ \ {a}, !.stale = @ \/ stale]]
    /\ UNCHANGED <<now, runtime, lock, sample, shown, excluded, events>>

\* Mutant: off by one.
LastAttemptLate(r) == req[r].attempt > MaxAttempts

LastAttempt(r) == req[r].attempt >= MaxAttempts

\* Everything is persisted.  A stale pick, or a cache that moved on under a
\* plain selection, means another attempt; so may finding nothing.
PersistEnd(r) ==
    /\ req[r].pc = "persist" /\ req[r].todo = {}
    /\ LET last == LastAttempt(r)
           again == Loaded(r, req[r].attempt + 1, Accounts \ req[r].scope)
           held == [Idle EXCEPT !.pc = "held", !.pick = req[r].pick,
                                !.snapshot = req[r].snapshot]
       IN  \/ /\ req[r].stale \/ (req[r].pick = None /\ r \notin StickyRequests)
              /\ ~last
              /\ req' = [req EXCEPT ![r] = again]
           \/ /\ (req[r].stale /\ last) \/ req[r].pick = None
              /\ req' = [req EXCEPT ![r] = Idle]
           \/ /\ ~req[r].stale /\ req[r].pick # None
              /\ req[r].moved /\ r \notin StickyRequests /\ ~last
              /\ req' = [req EXCEPT ![r] = again]
           \/ /\ ~req[r].stale /\ req[r].pick # None
              /\ ~req[r].moved \/ r \in StickyRequests \/ last
              /\ req' = [req EXCEPT ![r] = held]
    /\ UNCHANGED <<now, row, runtime, lock, sample, shown, excluded, events>>

-----------------------------------------------------------------------------
(* What a request reports about its account *)

RateLimited(s, status, delay, monthly) ==
    [s EXCEPT !.status = status, !.monthly = @ \/ monthly, !.error_count = @ + 1, !.last_error_at = now,
              !.blocked_at = now, !.reset_at = now + delay, !.cooldown_until = now + delay]

\* The runtime part of a mark, under the lock of the account.
BeginMark(r, s, pc) ==
    LET a == req[r].pick IN
    /\ req[r].pc = "held" /\ lock[a] = None
    /\ runtime' = [runtime EXCEPT ![a] = SyncRuntimeState(s)]
    /\ lock' = [lock EXCEPT ![a] = r]
    /\ req' = [req EXCEPT ![r].pc = pc, ![r].states[a] = s]
    /\ Event

StateToMark(r) == StateFor(req[r].snapshot, runtime[req[r].pick])

\* mark_rate_limit and mark_quota_exceeded; a rate limit of Kimi may be the
\* monthly one.
MarkLimit(r) ==
    /\ req[r].pc = "held"
    /\ StateToMark(r).error_count < MaxErrors
    /\ \E status \in Limited, delay \in Delays, monthly \in BOOLEAN :
         /\ monthly => status = "rate_limited" /\ ProviderOf[req[r].pick] = Kimi
         /\ BeginMark(r, RateLimited(StateToMark(r), status, delay, monthly), "marking")
    /\ UNCHANGED <<now, row, sample, shown, excluded>>

\* mark_rate_limit for an upstream that is out of capacity.
MarkCapacity(r) ==
    /\ req[r].pc = "held"
    /\ BeginMark(r, [StateToMark(r) EXCEPT !.last_error_at = now,
                                           !.cooldown_until = now + Capacity], "marking")
    /\ UNCHANGED <<now, row, sample, shown, excluded>>

\* mark_permanent_failure.
MarkPermanentFailure(r) ==
    /\ req[r].pc = "held"
    /\ BeginMark(r, [StateToMark(r) EXCEPT !.status = "deactivated", !.blocked_at = 0,
                                           !.monthly = FALSE], "marking")
    /\ UNCHANGED <<now, row, sample, shown, excluded>>

\* record_error.
RecordError(r) ==
    /\ req[r].pc = "held"
    /\ StateToMark(r).error_count < MaxErrors
    /\ BeginMark(r, [StateToMark(r) EXCEPT !.error_count = @ + 1, !.last_error_at = now], "recording")
    /\ UNCHANGED <<now, row, sample, shown, excluded>>

\* The database part of a mark; if the row has changed it is left alone.  An
\* error that was only counted does not invalidate the cache.
EndMark(r) ==
    LET a == req[r].pick
        new == AsRow(req[r].states[a], req[r].snapshot)
        done == [req EXCEPT ![r] = Idle]
    IN  /\ req[r].pc \in {"marking", "recording"}
        /\ row' = IF new = req[r].snapshot THEN row
                  ELSE UpdateStatusIfCurrent(a, req[r].snapshot, new)
        /\ lock' = [lock EXCEPT ![a] = None]
        /\ req' = IF req[r].pc = "marking" THEN Invalidated(done) ELSE done
        /\ UNCHANGED <<now, runtime, sample, shown, excluded, events>>

\* cool_down for an upstream error rule, or for a mirror whose token is gone:
\* runtime only.  The last report governs, also when it ends sooner.
CoolDown(r) ==
    LET a == req[r].pick IN
    /\ req[r].pc = "held" /\ lock[a] = None
    /\ \E d \in RuleDelays :
         /\ runtime' = [runtime EXCEPT ![a] =
              SyncRuntimeState([StateToMark(r) EXCEPT !.rule_until = now + d])]
         /\ excluded' = [excluded EXCEPT ![a] = now + d]
    /\ req' = Invalidated([req EXCEPT ![r] = Idle])
    /\ Event
    /\ UNCHANGED <<now, row, lock, sample, shown>>

\* record_success: errors that are a minute old are forgotten.
RecordSuccess(r) ==
    LET a == req[r].pick IN
    /\ req[r].pc = "held" /\ lock[a] = None
    /\ runtime' = IF runtime[a].error_count > 0 /\ now - runtime[a].last_error_at >= BoundRetry
                  THEN [runtime EXCEPT ![a].error_count = 0, ![a].last_error_at = 0]
                  ELSE runtime
    /\ req' = [req EXCEPT ![r] = Idle]
    /\ UNCHANGED <<now, row, lock, sample, shown, excluded, events>>

-----------------------------------------------------------------------------
(* Operators, the token exchange, restarts, time *)

PauseAccount(a) ==
    /\ row[a].status \notin {"deactivated", "exchange_uncertain"}
    /\ row' = [row EXCEPT ![a] = [NoRow EXCEPT !.status = "paused"]]
    /\ req' = Invalidated(req)
    /\ Event
    /\ UNCHANGED <<now, runtime, lock, sample, shown, excluded>>

ReactivateAccount(a) ==
    /\ row[a].status # "exchange_uncertain"
    /\ row' = [row EXCEPT ![a] = NoRow]
    /\ req' = Invalidated(req)
    /\ Event
    /\ UNCHANGED <<now, runtime, lock, sample, shown, excluded>>

MarkExchangeUncertain(a) ==
    /\ row' = [row EXCEPT ![a].status = "exchange_uncertain", ![a].monthly = FALSE]
    /\ req' = Invalidated(req)
    /\ Event
    /\ UNCHANGED <<now, runtime, lock, sample, shown, excluded>>

\* An exchange that is saved makes its account active, whatever it was; the
\* time stamps stay (see TokenExchange for the exchange itself).
UpdateTokens(a) ==
    /\ row' = [row EXCEPT ![a].status = "active", ![a].monthly = FALSE]
    /\ req' = Invalidated(req)
    /\ Event
    /\ UNCHANGED <<now, runtime, lock, sample, shown, excluded>>

\* Not counted as an event: it takes a mark before it.
ResolveExchange(a) ==
    /\ row[a].status = "exchange_uncertain"
    /\ row' = [row EXCEPT ![a].status = "active", ![a].monthly = FALSE]
    /\ UNCHANGED <<now, runtime, lock, req, sample, shown, excluded, events>>

OperatorStep ==
    \E a \in Accounts : \/ PauseAccount(a) \/ ReactivateAccount(a)
                        \/ MarkExchangeUncertain(a) \/ UpdateTokens(a) \/ ResolveExchange(a)

\* The process restarts: the runtime and the requests are gone.
Restart ==
    /\ runtime' = [a \in Accounts |-> RuntimeState]
    /\ lock' = [a \in Accounts |-> None]
    /\ req' = [r \in Requests |-> Idle]
    /\ excluded' = [a \in Accounts |-> 0]
    /\ Event
    /\ UNCHANGED <<now, row, sample, shown>>

\* The usage refresh stores a monthly sample of a Kimi account, which shows
\* quota left, or none; the second is not counted, it takes one of the first.
MonthlySample(a) ==
    /\ ProviderOf[a] = Kimi
    /\ \/ /\ sample' = [sample EXCEPT ![a] = now]
          /\ shown' = [shown EXCEPT ![a] = now]
          /\ Event
       \/ /\ sample[a] # 0
          /\ sample' = [sample EXCEPT ![a] = 0]
          /\ UNCHANGED <<shown, events>>
    /\ UNCHANGED <<now, row, runtime, lock, req, excluded>>

Tick ==
    /\ now < MaxTime
    /\ now' = now + 1
    /\ UNCHANGED <<row, runtime, lock, req, sample, shown, excluded, events>>

RequestStep ==
    \E r \in Requests :
        \/ LoadSelectionInputs(r) \/ Select(r) \/ StickyBegin(r) \/ StickyCommit(r)
        \/ PersistEnd(r) \/ MarkLimit(r) \/ MarkCapacity(r) \/ MarkPermanentFailure(r)
        \/ RecordError(r) \/ EndMark(r) \/ CoolDown(r) \/ RecordSuccess(r)
        \/ \E a \in Accounts : StickyGrace(r, a) \/ PersistState(r, a)

Next == RequestStep \/ OperatorStep \/ Restart \/ Tick \/ \E a \in Accounts : MonthlySample(a)

Spec == Init /\ [][Next]_vars

-----------------------------------------------------------------------------
(* Properties *)

\* Type invariant.
TypeOK ==
    /\ now \in 1..MaxTime
    /\ row \in [Accounts -> Rows]
    /\ runtime \in [Accounts -> Runtimes]
    /\ lock \in [Accounts -> Requests \cup {None}]
    /\ req \in [Requests -> RequestStates]
    /\ sample \in [Accounts -> Nat] /\ shown \in [Accounts -> Nat]
    /\ excluded \in [Accounts -> Nat]
    /\ events \in 0..MaxEvents

\* While the exclusion of the last report runs (docs/upstream-error-rules.md:
\* "Exclude the account from selection for cooldown_seconds"), no selection
\* picks the account, however selections, marks, persists and operators overlap.
\* An exclusion is lost in three ways, and in no other: with the process, when a
\* selection for another provider prunes the runtime, and when a sticky selection
\* writes back states it built before; such a selection itself obeys what was
\* excluded when it built them, give or take the sticky grace.
RuleExcludes ==
    [][\A r \in Requests :
          req[r].pick = None /\ req'[r].pick # None =>
            LET a == req'[r].pick
            IN  IF r \in StickyRequests THEN now + Grace >= req[r].barred[a]
                                        ELSE now >= excluded[a]]_vars

\* The balancer never changes the status of an account that an operator has
\* paused, that is deactivated, or whose token exchange is unresolved, also
\* when it happens between reading the row and persisting it.
StatusGuarded ==
    [][\A a \in Accounts :
          /\ row[a].status \in {"paused", "exchange_uncertain", "deactivated"}
          /\ row'[a].status # row[a].status
          => OperatorStep]_vars

\* The balancer lifts the limit of an account only when the retry time of the
\* row as it stands has come (the bounded one, except for Kimi's monthly limit),
\* give or take the sticky grace, or when a monthly sample taken after that block
\* showed quota left.
RecoveryNotEarly ==
    [][\A a \in Accounts :
          /\ row[a].status \in Limited
          /\ row'[a].status = "active"
          /\ ~OperatorStep
          => \/ now + Grace >= RetryAt(row[a])
             \/ MonthlyLeft(row[a], shown[a])]_vars

=============================================================================
