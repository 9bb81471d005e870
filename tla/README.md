# Formal models of agent-lb

TLA+ models of the parts of agent-lb whose correctness depends on the order in
which concurrent requests, schedulers, operators, crashes and the upstream
providers act. Every module is a translation of the Python code under
`src/app`; `PROJECT.json` names the lines behind each definition.

Contents: 1 the system, 2 the modules, 3 the runs, 4 the theorems, 5 findings,
6 what is left out, 7 the plan, 8 how to run it.

## 1. The system

agent-lb is an asyncio (FastAPI) proxy that sends requests of coding agents to
a pool of upstream accounts (OpenAI, Anthropic, GLM, Kimi). One or several
instances share a database (SQLite, or PostgreSQL with several processes).
About 128 000 lines of Python are in `src/app`, most of them protocol
translation, transport, reports and the dashboard. What carries the core logic:

| Component | State | Operations | Interacts with | Hard because | Correct if |
|---|---|---|---|---|---|
| API-key quota (`modules/api_keys`) | limit rows, reservations and their items | admit (reserve), touch, settle, release, sweep, reset a window, edit, delete | every proxied request; hourly scheduler; operators | read and write are separate statements; windows roll over under running requests; processes die | the counters are what the items add up to; nothing reserved past a limit; settled once; abandoned quota returns |
| Account leases (`load_balancer.py`, `runtime_state.py`) | per account: leases, in-flight counters, leased tokens | select, acquire, release, reclaim, prune | selection; stream and bridge services | sticky selections use two locked sections; holders vanish; accounts come and go | counters equal leases; caps hold; a live stream keeps its lease; stale leases do not block |
| Account marks (`load_balancer.py`, `core/balancer`) | account row (status, reset_at, blocked_at) and in-memory cooldowns and errors | select, mark a limit or failure, cool down, record error or success, persist | the database row is shared with operators, exchanges, other instances | two copies of the state, a cache, compare-and-set writes, restarts | excluded accounts are not picked; a status set by others is never undone; limits are not lifted early |
| Token exchange (`modules/accounts/auth_exchange.py` and repositories) | refresh token and status of an account, its exchange intent, the advisory lock | refresh, replay, abort, save, mark, login, operator reset, automatic reset | OAuth providers; usage scheduler; guardian; operators | refresh tokens work once; a crash or a timeout leaves the outcome unknown | a token is in one exchange at a time; a newer token is never overwritten; an unsaved successor is not asked for again; an account asks for login only if its token is dead |
| Sticky sessions | key to account table | look up, bind, rebind, clean up | selection | lookup is an await inside a selection | a session stays with its account unless it is unusable |
| HTTP bridge (`_service/http_bridge`, `durable_bridge_*`) | registry of sessions, in-flight markers, queues; session rows: owner, epoch, lease, state | get or create, wait, reuse, evict, submit, reconnect, retire, close; claim, renew, take over, release | account leases; other instances through the rows; shutdown | creations fail, time out and are cancelled; clean-ups overtake each other; owners die or are cut off | a marker is settled on every path; capacity holds; a lease has somebody who gives it back; a row changes hands under a new token only; no wait is for ever |
| Streamed requests (`_service/streaming`, `api_key_usage.py`) | the retry state of a request: attempt, excluded accounts, leases, settlement | select, refresh, open, deliver, fail over, retry, settle, clean up | selection, leases, exchange, reservation | some thirty ways to end, each with cancellation at every await | nothing is sent again after output; attempts run where they may; leases and reservation are given back |
| Ring membership, leader election, cache invalidation | heartbeat rows; leader row; version counters | join, beat, expire; acquire, renew; bump, poll | schedulers, bridge, caches | terms expire under a paused process | at most one leader outside the overlap of a term; caches become fresh |
| Resilience and admission (`core/resilience`, `work_admission.py`) | breaker state, counters, waiting queues | check, record, probe; enter, leave | every request | late results of old calls; cancelled waiters | counters return to zero; one probe |
| Federation (`modules/federation`) | in each database: owner and tokens of an account, transfers by nonce | check out, confirm, check in, abort, reclaim, mirror | token exchange; the other instance over HTTP | answers get lost, calls arrive late, processes restart between two steps | one owner at a time; the owner has the live token; no token is lost; both sides agree; custody comes back |
| Usage refresh, warm-up, planner, guardian | usage samples, schedules | sample, recover, warm up, refresh | marks, exchange | long background passes | background writes never undo newer state |
| OAuth flow, team and pools, request logs, reports, dashboard, frontend, clients | rows and presentation | - | - | mostly sequential | - |

The components interact through the database rows, the `LoadBalancer` object in
memory, and calls: a request is admitted against its API key, selects an account
and takes a lease, refreshes the token if needed, is sent upstream, marks the
account by the answer, settles the reservation and releases the lease.

## 2. The modules

| Module | Models | Composes or uses |
|---|---|---|
| `ApiKeyReservations` | quota accounting of one API key | |
| `AccountLeases` | leases and caps of the load balancer | |
| `AccountMarks` | status, limits and cooldowns of accounts | treats the token exchange as steps of the environment |
| `TokenExchange` | exchange of one account's refresh token, with the provider | |
| `BridgeSessions` | sessions of the HTTP bridge on one instance, with the durable rows it shares with others | implements `OwnerLease` |
| `OwnerLease` | what the durable rows promise: the abstract specification | |
| `AccountTransfers` | custody of an account between a hub and a taker | has the exchange of `TokenExchange` in three steps |
| `StreamRetry` | one streamed request with all its attempts | takes and gives back the leases of `AccountLeases` and the reservation of `ApiKeyReservations` |
| `*Proofs` | the theorems about the module of the same name | extends it |
| `FiniteSumProofs` | what the sum of a function over a finite set is | used by the proofs about `ApiKeyReservations` and `AccountLeases` |
| `MC*` | the constants of the runs | extends it |

The modules share no variables. Where two of them meet, each has the other's
effect as a step of its environment: `AccountMarks` has `MarkExchangeUncertain`,
`UpdateTokens` and `ResolveExchange` from the token exchange; `AccountTransfers` has
`BeginExchange`, `UpdateTokens` and `AbortExchange` on both sides; `StreamRetry` holds
leases as a set and the reservation as its status, whose bookkeeping the modules of
their own are about: what it leaves behind when it is cut short is what `Abandon` of
`AccountLeases` and `RequestDies` of `ApiKeyReservations` stand for.

**Granularity.** In memory an action is what one task does between two awaits;
`_runtime_lock` is never held across an await that yields, so a section under it
is one action. In the database an action is one transaction where its locks or its
conditional statements make it one. An operation that reads and later writes from what
it read is two actions.

**Two databases.** PostgreSQL locks the rows that are selected FOR UPDATE. SQLite, the
default, ignores the clause, and a transaction begins with its first write, so that
everything before it is a read of its own. `AccountTransfers` has both: `RowLocks` is the
set of instances that lock, and the transactions of the others look (`Look`, `LookUp`)
and write later what they decided on. Where the code takes `sqlite_writer_section`
instead (the durable rows of the bridge) it is PostgreSQL that has no lock:
`BridgeSessions` reads and writes a release in two actions. `ApiKeyReservations`,
`AccountMarks` and `TokenExchange` rest on conditional statements, which both databases
execute as one.

### ApiKeyReservations

`limit` is the table `api_key_limits`, `res` the reservations with their items,
`pending` what an admission has read, `update` what an edit has read.
`EnforceRead` and `EnforceCommit`/`EnforceReject` are
`_enforce_limits_for_request_once`: the applicable limits are read, then each is
raised by a conditional UPDATE (`CanReserve`) in one transaction that rolls back
as a whole. `SettleUsageReservation`, `ReleaseUsageReservation` and
`ReleaseStaleUsageReservation` are the three ways a reservation ends; each
corrects the counter only in the window it was charged to
(`AdjustReservedUsage`, with `reset_at` as the token). `RequestDies` is a request
that ends without settling. `ValidateKey` and `ResetExpiredLimit` roll windows
over; `UpdateRead`/`UpdateCommit`/`UpdateFails` are an operator's edit. The price
of a request is any member of `Budgets`, what it used any member of `Actuals`.
`Next` has edits that reset usage; `EditNext` also those that keep it.

### AccountLeases

`lb` is the part of `LoadBalancer._runtime` that leases touch: which accounts
have an entry, the leases, and the counters the code keeps beside them. The
operators `Drop`, `ReclaimStale`, `Prune`, `Touch`, `Acquire` are the sections
under the lock. A plain selection is `LoadSelectionInputs`, `Select`, then
`PersistDone`, `PersistRetry` or `PersistRaises`; a sticky one `StickyBegin`, then
`StickyCommit` or `StickyNone`. `AcquireAccountLease` is the direct acquisition on
a known account. `Finish` and `Abandon` are the caller that releases, and the one
that disappears. Which of the candidates is preferred is open.

### AccountMarks

`row` is the accounts table, `runtime` the in-memory marks. `StateFromAccount` and
`StateFor` merge the two (`MonthlyState` for a row with Kimi's monthly limit, which has
no bounded retry time and ends early by a usage sample, `BoundedState` for any other), `Judged` is the loop of `core/balancer/logic.py` that
lifts limits and clears cooldowns, `SyncRuntimeState` and `Written` write the states
back, `UpdateStatusIfCurrent` is the compare-and-set on the row. Marks by upstream
answers (`MarkLimit`, `MarkCapacity`, `MarkPermanentFailure`, `CoolDown`,
`RecordError`, `RecordSuccess`) hold the lock of the account; `BeginMark` and
`EndMark` are before and after their database write. `PauseAccount`,
`ReactivateAccount` and the three exchange steps are others who write the row;
`Restart` empties the runtime; `MonthlySample` is the usage refresh, as far as it ends a
monthly limit. `CoolDown` excludes for any of `RuleDelays`, and the last report governs,
as in the code. `excluded` is history: until when the last report excludes the account;
`Pruned` and `Overwritten` say when the code forgets it. `shown` is history too: when a
sample last showed quota left.

### TokenExchange

`acct` is the row, `intent` its row in `account_exchange_intents`, `lock` the
advisory lock, `proc` the refreshes in progress, `wire` the requests on the way to
the provider, `live` and `issued` the provider. Tokens are numbers in the order of
issue. The actions follow `refresh_account_locked`: `Reload`; `NoIntent`,
`OtherIntent` or `SameIntent`; `BeginExchange` or `BeginFails`; `Send`; then by
answer `AbortExchange` and `RestoreStatus`, `AbortDead` and `RequireReauth`,
`MarkExchangeUncertain`, `UpdateTokens`, or `NotSaved` and `MarkExchangeUnsaved`.
`RequireReauth` compares the token, and raises the refusal in any case;
`MarkPermanentFailure` is what the callers that catch it may do any time later, without a
look at the token. `refused` is history: the tokens of such refusals; `misjudged` those
that were blamed for another's.
The provider (external) may exchange a live token or refuse it, and its answer may
get lost, garbled, or arrive after the refresh gave up. `Crash` ends a process at
any point, `LoseLock` ends the database session that holds the lock while the
refresh goes on. The read of the intent and the mark that follows from it are one
action; the mark is itself conditional on token and intent.

### BridgeSessions and OwnerLease

`reg` and `fut` are the registry and the in-flight markers, both under one lock;
`outcome` the futures; `ses` the sessions, each named after the request that created
it; `tasks` the clean-ups in progress; `row` the durable table; `drain` the shutdown.
`Arrive` looks the durable row up, `Enter` is the locked section of `get_or_create`
with its six results (`EnterReuse`, `EnterRefused`, `EnterJoin`, `EnterAliasMiss`,
`EnterPublish`, `EnterFull`), which sweeps, detaches and evicts on its way. A request
that waits goes on by `JoinSession`, `WakeAgain`, `WakeFailed` or `WaitTimeout`; one
that creates by `CreateFails`, `Claim`, `ClaimCancelled`, `ClaimFails`, `Register` or
`RegisterFails`. `SubmitClosed` to `Resend` are the submit with its queue, gate and
reconnects; `Terminal`, `ClientLeaves`, `FirstEventTimeout`, `AbandonedAfterSubmit`
and `UpstreamLost` the ends of a request. A creation or a reconnect that fails inside its
error handlers leaks the lease it has just taken (`CreateFails`, `Unconnected`). Closing
and retiring are several actions each, since others run between them: one reads the
durable row (`CloseReleases`, `RetireReleases`) and, if it is the owner's, another writes
it (`CloseWrites`, `RetireWrites`). `MarkDraining` and `CloseAll` are the shutdown;
`RivalClaims`, `RivalLooks`, `RivalReleases`, `RivalDrains`, `LeaseExpires` and `Purge` the other
instances, the clock and the retention job.

`OwnerLease` says of each key: it has at most one owner, and is taken over under a later
token. It is given up in two steps: `Leave` records who found itself the owner and under
which token, `Yield` writes what a recorded release has decided. So a release with a
stale handle is no step of it. A release that was overtaken between its read and its
write is one, since the code does it: `Yield` compares only that the row is still the
same one, and takes it from whoever owns it by then. The refinement maps `owner` to the
row's owner, `token` to the pair of the row's generation (a purged row starts over) and
its epoch, and `leaving` to the releases that are to be written, here and elsewhere.

### AccountTransfers

`row`, `transfers` and `intent` are the tables of both databases, `op` the requests of
operators of the taker, `calls` the calls on their way to the hub. Checkout is
`ReserveCheckout` (or `RetryCheckout`), `ReleaseForCheckout` on the hub,
`ImportCheckout`, `SettleCheckoutAndBlankRefresh` on the hub, `Confirmed`. Checkin is
`ReleaseForCheckin`, `SendCheckin`, `AcceptCheckin` on the hub,
`SettleCheckinAndBlank`; one that fails is reclaimed in the same request. Reclaim is
`ReclaimSettled`, `ReclaimCheckin` or `ReclaimCheckout` with `BeginCheckoutAbort`,
`AbortPeerTransfer` on the hub, then `FinishAbort` or `SettleCheckinAndBlank`.
`Timeout` leaves a call under way that nobody waits for; `Restart` does so with all of
them. For an instance without row locks, `Look` and `LookUp` are the reads of a
transaction, taken at one moment, and the action of the transaction is its write;
what the writing statement itself compares it compares (`Reserved`, the owner in
`ReleaseForCheckout`, the uniqueness of a nonce). `torn` is history: a transaction wrote
what it would no longer decide. `FetchMirror` and `UpsertMirrorAccount` are the mirror, `Exchange` the token
exchange on either side.

### StreamRetry

`st` is `RetryState`, `once` the running `_stream_once` with its settlement and the
buffer of `retry_protocol_only_failures`, `held` what the balancer has booked. An
attempt is `SelectAccount`; `EnsureFresh` or one of the three failures of a refresh;
`OpenStream`; its events (`Deliver`) or errors. `Decide` and `DecideRefreshed` say what
becomes of an error before output: the same account again (`RetrySame`), another one
(`FailOver`), a forced refresh, or the end; `Surfaces` is the test whether the client
may have seen output. `EndOfStream`, `Settle`, `ReleaseLease` and `Finish` are the
way out; `Leave`, `Cancel`, `Interrupt` and `Expire` what may cut it short. `orphan` is
the lease of an inner generator that Python closes later than the outer one. What the
balancer, the provider and the database answer is open.

## 3. The runs

| Run | Module, instance | Checks |
|---|---|---|
| `api_key_ledger` | 2 requests, a global and a scoped limit, budgets of 2, 2 windows | `TypeOK`, `LedgerMatchesItems`, `NoOvercommit`, `SettledOnce`, `AbandonedQuotaReturns` (liveness) |
| `api_key_edit` (violated) | with edits that keep usage | `EditPreservesUsage` |
| `account_leases` | 2 accounts, 2 streams, cap 1, 2 attempts, clock to 2 | `TypeOK`, `CountersMatchLeases`, `CapRespected`, `TokensMatchLeases`, `LiveStreamKeepsLease`, `CapRejectionIsFresh` |
| `account_marks` | 1 account of Kimi, a sticky and a plain request, 2 events, clock to 2 | `TypeOK`, `RuleExcludes`, `StatusGuarded`, `RecoveryNotEarly` |
| `exchange_safety` | 2 refreshes, 1 crash, 1 lost lock, 3 tokens, clock to 5 | `TypeOK`, `IntentFollowsToken`, `SingleSender`, `ReauthMeansDead`, `UncertainRecoverable`, `UnsavedNotReplayed`, `NewestTokenWins` |
| `exchange_replay` (violated) | the same without lost locks | `AmbiguousReplayNotRepeated` |
| `bridge_registry` | 2 requests, a hard and a soft key, room for 1 session and 1 queued request, 1 mishap | `TypeOK`, `MarkerOwned`, `CapacityBound`, `LeaseTracked`, `OwnershipKept` (refinement), `Answered` (liveness) |
| `bridge_orphan_marker` (violated) | the same | `NoOrphanMarker` |
| `bridge_stale_release` (violated) | the same | `ReplacementKeepsOwnership` |
| `account_transfers` | no row locks, 2 operators, 3 nonces, 2 tokens, 1 timeout or restart | `TypeOK`, `SingleOwner`, `OwnerHoldsLive`, `TokenKept`, `OutcomesAgree`, `CustodyReturns` (liveness) |
| `transfer_race` (violated) | no row locks, 2 operators, 1 nonce, no faults | `NeverTwoOwners` |
| `stream_retry` | 3 accounts, one of them authorized, the code's 3 attempts and 3 tries per account | `TypeOK`, `AttemptEligible`, `NoReplay`, `EndsClean` (liveness) |

**Bounds.** Every bound is a constant of its module (`MaxTime`, `MaxRowId`,
`MaxLeases`, `MaxAttempts`, `MaxErrors`, `MaxEvents`, `MaxTokens`, `MaxCrashes`,
`MaxLosses`, `MaxFaults`, `MaxNonces`). They were chosen so that the case each property is about happens:
two actors are enough for a race over a row or a counter, and for a limit or a cap
that one fills while the other waits; the clock passes one window and the stale
age, or the exchange window twice (a replay and its reset); 3 tokens allow an
exchange and a login, in both orders. That each property can fail at these bounds
is shown by a mutant of the code for each (`PROJECT.json`, `mutants`): a dropped
guard, a missing roll-back, an unfenced write. `AccountMarks` runs with one account,
since accounts meet only in pruning; with a third request, which asks for another
provider and so prunes the account (10 million states), it passes too.

In `BridgeSessions` two requests race for one marker, one session and one place in
its queue, and two keys for one place in the registry. A mishap is any one of the
failures the module has, from a cancellation to a claim by another instance;
deadlines and clients that leave are not counted. Instances with 2 mishaps or 3
requests were explored in part only; the theorems of 4 hold for all of them. That this
matters was seen with `LeaseTracked`: one of its exceptions needs three requests on one
session (see 5), and the proof found it, not the run.
`AccountTransfers` starts with the account checked out under the first nonce, so that
the 2 others allow a checkin and a checkout. The run stops at the first torn transaction
(`CONSTRAINT Untorn`), after which its properties promise nothing; how one comes about is
in the run. Larger instances, which take longer than a run may, pass as well: 4 nonces
(a checkin, a checkout and a checkin: only then can a late answer to the first meet the
second, and only there, without faults, does `reblanked` become true), also with row
locks at the hub, and 3 nonces with what follows a torn transaction. The theorems of 4
hold for all of them. `StreamRetry` has the limits of the code, so only the number
of accounts is a bound: three attempts see at most three.

**Deadlock** is checked in `stream_retry`, where only a finished request may stop.
Elsewhere clocks and counters are bounded, so the instances stop at their bounds.

**Fairness** is assumed in four places.

- `SweepFairness`: the clock advances and the release of each stale reservation
  eventually happens. `reset_scheduler.py` runs the sweep on the elected leader, in a
  loop that survives exceptions, in batches until none is left; that some instance is
  leader is assumed with it. Requests, operators and crashes are under no fairness.
- `BridgeSessions`: the event loop runs each request that can go on. All waits of a
  request have deadlines, whose expiry is a step of the request. Nothing is assumed of
  clean-ups, the shutdown or other instances.
- `AccountTransfers`: requests go on, and the hub handles calls somebody waits for
  (weak); an operator who finds a transfer open again and again reclaims it at some
  time (strong). No scheduler does this: the code leaves recovery to operators.
- `StreamRetry`: the event loop runs the request and the clean-up task, the provider
  answers or a timeout strikes, and Python closes abandoned generators.

**Timing.** `TokenExchange` assumes `Longest < Timeout + Margin`: an exchange, from
its intent to the last effect of its request, is over before the window of its
intent opens. In the code the request takes at most 8 s
(`token_refresh_timeout_seconds`) and storing or marking its result tries for about
a minute or two, against a window of 30 + 900 s. The assumption matters for
`SingleSender` and `UnsavedNotReplayed` only.

## 4. The theorems

TLAPS proves these for all values of the constants that satisfy the `ASSUME`s of the
module: types and positivity of the constants; that `None` is none of the records it
stands beside; that the thresholds of a limit are finitely many; and the timing
assumption of 3, which only `OneSender` and `LostTokensStayUnused` use.

Every invariant and every action property of a passing run is stated by a theorem; what
is left to TLC is liveness.

| Theorem | States | Along |
|---|---|---|
| **`ApiKeyReservationsProofs`** `TypeCorrect` | `EditSpec => []TypeOK` | `TypeOK` is inductive; the work is in `AdvanceLimitReset` (it stays in the range of times) and in the correction of a counter, which only takes off what the counter holds |
| `SettledAtMostOnce` | `EditSpec => SettledOnce` | needs `AdmissionFresh`: an admission is only under way for a reservation that does not exist yet |
| `LedgerBalances`, `NeverOvercommitted` | `Spec => []LedgerMatchesItems`, `[]NoOvercommit` | `LedgerInv`, one conjunct per limit (`LimitGood`): the counter is the sum over the items charged to the row and window that stand (`Balanced`), what is outstanding is within the largest threshold (`Bounded`), an item belongs to the row that stands and to no later window of it (`Linked`), and so does what a pending admission has read (`Seen`): a correction that finds the same `reset_at` finds the same window. Each step changes the sum at one reservation, or starts an empty window |
| **`FiniteSumProofs`** `SumEmpty`, `SumAdd`, `SumRemove`, `SumChange`, `SumMonotone`, `SumBounds`, `SumParts` (lemmas) | the sum of a function over a finite set, written as a fold in the models, is zero for the empty set and adds up element by element | `SubsetInduction`: induction over the finite subsets, where the good subsets are given as a set and not as an operator, so that the provers can use it |
| **`AccountLeasesProofs`** `TypeCorrect`, `CountersAlwaysMatch`, `CapsAlwaysRespected`, `StreamsKeepLeases` | `Spec => []TypeOK`, `[]CountersMatchLeases`, `[]CapRespected`, `[]LiveStreamKeepsLease` | `IInv`: the book agrees with itself (`BookOK`) and the cap (`CapOK`), ids handed out are below the next one and handles are distinct (`HandlesOK`), a selection that has not chosen holds nothing (`SelectingOK`), and the lease of a live stream is in the book until it is stale (`KeepsOK`). Without the facts on handles a release could take a lease of somebody else. The lemmas on cardinality (`CountDifference`, `CountAdd`) carry the counters |
| `TokensAlwaysMatch` | `Spec => []TokensMatchLeases` | `BookOK` has it beside the counters; the sums are those of `FiniteSumProofs` |
| `RejectionsAreFresh` | `Spec => CapRejectionIsFresh` | from `IInv`: the section that turns a request away has just reclaimed what is stale |
| **`AccountMarksProofs`** `TypeCorrect` | `Spec => []TypeOK` | `Inv`: besides the types, a limited row has its times (`RowInv`) and what a request carries across its awaits was read from a row of that kind (`ReqInv`) |
| `StatusAlwaysGuarded`, `LimitsNotLiftedEarly` | `Spec => StatusGuarded`, `RecoveryNotEarly` | a write goes through only if the row is still the one that was read (`UpdateStatusIfCurrent`); by `ReqInv` what was judged about that row is true of the row as it stands, and a request that found a monthly limit ended by a sample carries that fact until it writes |
| `SelectionsObeyRules` | `Spec => RuleExcludes`, for any providers, sticky and plain requests | `RuleInv` adds that an exclusion which has not run out is in the runtime, or, for a sticky selection between its sections, in the states it built |
| **`TokenExchangeProofs`** `TypeCorrect`, `ReauthIsJustified`, `IntentIsCurrent`, `TokensOnlyAdvance` | `Spec => []TypeOK`, `[]ReauthMeansDead`, `[]IntentFollowsToken`, `NewestTokenWins` | `IInv` adds to these `Known` (every token in use was issued; a successor is newer than what it replaces), `Told` (a refresh that was told its token is dead has a dead token; so has every refusal raised to the callers) and `Consumed` (an unsaved token is dead). The key fact is that a dead token stays dead. These four use neither the lock nor the timing assumption: the fences on token and intent are enough |
| `OneSender`, `LostTokensStayUnused` | `Spec => []SingleSender`, `UnsavedNotReplayed` | `OneExchange`: a token is in one exchange (`Single`), no exchange outlasts `Longest` (`InTime`), an exchange of the stored token has an intent at least as young (`Covered`), and a token marked unsaved is old or its intent says so (`Spent`). Whoever replays waits for the window of the intent, and by `InTime` and the timing assumption the exchange before it is over. The lock is not used: a lost one does no harm here |
| `UncertainHasAWayOut` | `Spec => []UncertainRecoverable` | `Recoverable` adds `Locked`: while no lock was lost, one refresh runs at a time and a first exchange runs on an account that is not uncertain. This is the one place where the lock matters |
| **`BridgeSessionsProofs`** `OwnershipRefined` | `Spec => OwnershipKept` | step simulation of `OwnerLease`: every write of a row is a claim under a later token, the write of a release whose read was a `Leave`, or leaves owner and token alone |
| `BridgeTypes`, `MarkersAlwaysOwned` | `Spec => []TypeOK`, `[]MarkerOwned` | `MarkerInv` adds that no two keys have the marker of one request: else the settlement of one would leave the other behind |
| `CapacityAlwaysBounded` | `Spec => []CapacityBound` | `HeldInv` adds that the creator of a registered session is past its creation (`RegisteredPast`), so that registering takes the place of a marker |
| `LeasesAlwaysTracked` | `Spec => []LeaseTracked` | `UseInv`: nobody uses or closes a session before its creator is past the registry, and a registered session has the key it is registered under. `LeaseInv`: in a registered session the count of queued requests is at least the number of its requests (`Tended`), so the count is zero only when nobody is left; and each session with a lease is registered, being created, being cleaned up, retiring with a request left, or stray (`Tracked`). The count is what decides who retires a session last; the lemmas `TallyLess`, `TallyMore` and `TallyZero` carry it |
| **`AccountTransfersProofs`** `TypeCorrect`, `OneOwner`, `TablesAgree`, `OwnerIsLive`, `LiveTokenKept`, `ExchangeIsOwners` | `Spec => []TypeOK`, `[]SingleOwner`, `[]OutcomesAgree`, `[]OwnerHoldsLive`, `[]TokenKept`; an exchange belongs to the owner; all for either database, until a transaction is torn | until then, `IInv`: for some k, the last transfer that was begun, the nonces up to k are used (`Numbering`), the two tables hold a pair of states the protocol can be in (`Pairing`), the hub has one open transfer at most, and who owns the account follows from the k-th transfer (`Custody`); then what each operator and each call, however late, may still say (`OpsInv`, `CallsInv`), whose exchange it is (`IntentInv`) and where the live token is (`TokenInv`). A write by a transaction that read before is either one it would still decide, and then like the step with locks, or it sets `torn` |
| `LockedOneOwner` | if both instances have row locks, `Spec => []NeverTwoOwners` | with row locks no transaction is torn |
| **`StreamRetryProofs`** `TypeCorrect`, `AttemptsEligible`, `NeverReplays` | `Spec => []TypeOK`, `[]AttemptEligible`, `NoReplay` | `Inv`: between attempts only the leases of failed refreshes are held (`LeaseInv`); output was passed on by the stream that runs or by the last one (`ShownInv`); the finally clause knows every lease (`ReturnInv`); what was completed has been passed on (`ServedInv`); the reservation is settled once, by what the last stream came to (`SettleInv`) |
| `EndedIsClean` | once the request, its clean-up task and its generators are over, `Clean` holds | from `Inv`; it is the safety half of `EndsClean` |

Only model-checked: `AbandonedQuotaReturns`, `Answered`, `CustodyReturns` and
`EndsClean`, since liveness under fairness is outside the prover. The properties of the
five violated runs are false of the code and have no theorem.

## 5. Findings

Five places where the code does not do what a document of the repository says;
`PROJECT.json` has the quotations.

1. *Edits lose usage* (`api_key_edit`): an edit of a key writes `current_value` and
   `reset_at` back as it read them, over reservations and settlements committed in
   between. For this reason the ledger is checked without such edits. What still holds
   with them is proved: `TypeCorrect` and `SettledAtMostOnce` are about `EditSpec`.
2. *Ambiguous replays are repeated* (`exchange_replay`): the automatic reset does what
   the requirement on recovery excludes.
3. *A forwarded request leaves its marker* (`bridge_orphan_marker`): later requests of
   the key wait until their timeout, and the marker keeps a place of the registry.
4. *A retirement releases its successor's row* (`bridge_stale_release`): the epoch does
   not advance when an instance claims a row it still owns.
5. *Two owners on SQLite* (`transfer_race`): a reclaim reads a checkout as pending, the
   import of the same checkout commits, and the reclaim marks it all the same; the hub
   then aborts what the taker has settled. The other transactions of the federation read
   before they write as well: an exchange may begin between the look for an intent and
   the change of the owner (`repository.py:46-63`, `86-105`), and its successor is then
   refused and lost. The properties of `account_transfers` hold until such a write
   (`torn`). With row locks the requirement is proved (`LockedOneOwner`).

Smaller observations, which the properties exempt by name or the text of a run cannot
show:

- `docs/upstream-error-rules.md:23` promises that a rule excludes an account for
  `cooldown_seconds` unless the process restarts. In the code a later report with a
  shorter time ends a standing exclusion early (`cool_down` assigns,
  `load_balancer.py:1541`; the 15 and 60 s of a mirror without a token go the same
  way); a selection for another provider forgets it (`_prune_runtime` sees the accounts
  of one provider only); a sticky selection writes back states from before its await;
  and the sticky grace of 10 s (`load_balancer.py:1423-1436`) also shortens it.
  `RuleExcludes` speaks of the last report and names the others.
- A permanent refusal that reaches the callers of the exchange after another token was
  stored marks the account for a new login although its token is live:
  `mark_permanent_failure` (`load_balancer.py:1528`) compares no token, and
  `auth_exchange.py:150-160` raises the error also when its own conditional mark found
  the token changed. `openspec/specs/oauth-refresh-safety/spec.md:12-14` asks to "keep
  the account routable and converge on the newer stored account state", line 47 that the
  Messages proxy "SHALL NOT repeat an unconditional account-status write".
  `ReauthMeansDead` names the case (`misjudged`).
- An error or a cancellation inside the handlers of a failed session creation
  (`mixin.py:1918-1976`) or reconnect (`reconnect.py:174-265`) passes by the sibling
  `except BaseException` (`mixin.py:2049`), and the account lease just taken is not given
  back (`leaked`). Only the reclaim of stale leases does that, as `AccountLeases` has it.
- On PostgreSQL a release that is overtaken by a takeover between its read and its write
  (`durable_bridge_repository.py:291-303`) clears the row of the new owner.
- `settle_checkin_and_blank` accepts a checkin that is already settled. A late second
  settle, when the account went out again and is being checked in once more, blanks a
  token the hub has not stored yet (`reblanked`).
- A checkout that is repeated after its answer was lost is refused, since the hub knows
  the nonce: it converges by reclaim, not by the retry that
  `openspec/changes/add-local-first-instance-federation/design.md:60-63` describes.
- A streamed request keeps the lease of an account whose token could not be refreshed
  until it ends (`kept`), although `openspec/specs/responses-api-compat/spec.md:161`
  has leases released on failover and retry.
- With lines kept back, a first event that is a failure which is not retried is lost:
  the error raised after it discards the buffer, and the client gets an empty stream.
- The reservation is released, not finalized, when the client closes the stream right
  after `response.completed` or the database fails at settlement; a finally clause
  that is itself cancelled leaves leases and reservation to the watchdog and the sweep.
- Sessions of the bridge that left the registry outside its close keep their account
  lease until it is stale (`stray`): evicted for a request that is then refused,
  overwritten by a turn state bound anew, reconnected after they were detached, or
  retiring outside the registry when their last request gives up at the gate
  (`request_submit.py:788-804` gives its place in the queue back and looks no further).
  The last one takes three requests on one session: the attempt to prove
  `LeaseTracked` found it, and the property names it since.

`UncertainRecoverable` has two exceptions that document smaller ones. A crash between
the two transactions of an aborted replay leaves an uncertain account without an
intent, and only a new login recovers it (`stranded`). So does an exchange that loses
its lock before it sends: another refresh marks the account uncertain, and the first
one then deletes the intent (`faults.losses`).

## 6. What is left out

In the modelled components: tariffs and prices; routing scores, health tiers, usage
samples (but for the end of Kimi's monthly limit) and the background recovery from them;
opportunistic traffic; more than one outstanding report of a request about its
account; the statuses paused and rate-limited inside `TokenExchange` (an exchange that ends well sets `active` whatever
was there: listed as a hazard); the in-process single flight and failure cache of
refreshes, which only remove behaviours. `deactivated` after a permanent failure is
`reauth_required` in `TokenExchange`: both wait for an operator.
`AutoResetExchangeIntent` and `TokensLost` apply to the providers in
`exchange_auto_reset_providers`. A replay in `begin_exchange` is one action, which the
row lock makes it on PostgreSQL; two processes on one SQLite file, which have no
advisory lock either, are not modelled.

In `BridgeSessions`: the indexes of turn states and previous responses and the
promotion of keys; errors of continuity, which are refusals (`EnterRefused`); the
details of the response-create gate and of admission; prewarming; the replay of
requests that had not started; the second call of `get_or_create` in `streaming.py`; the
second try of a claim. The locked section is one action although it awaits the
renewal of the durable row, where another instance may get in between; a session
whose own lock is busy may be passed over by sweep and eviction; a close gives the lease
back in the action that reads the row; a request is cancelled once. Claims are one
action (a claim on PostgreSQL inserts or locks; on SQLite it reads outside its writer
section, which matters only if several instances share a SQLite file: not modelled). So are renewals, whose late write changes nothing but the lease time, and the
marking of rows at shutdown, which changes nothing but their state.

In `AccountTransfers`: pushes of accounts that logged in elsewhere, usage reports and
log forwarding; more than one taker; a login on a mirrored row; transfers created
within one second, whose order `created_at` does not keep in SQLite. The reads of a
transaction without row locks are taken at one moment, although each is a statement of
its own: what it decides on is what was true at that moment. Nonces are in the order of
creation, also after a torn transaction.

In `StreamRetry`: other requests; the marks on accounts, which are those of
`AccountMarks`; suppressed and de-duplicated events, heartbeats and request logs; a
file and a previous response that pin different accounts; requests without an API
key, which have nothing to settle.

Not modelled: see the components of `PROJECT.json`. Transport and translation
(`core/clients`, `anthropic_service.py`, the websocket service, the frames on a
bridge's websocket) are the environment of the models: most of the repository's lines
are of this kind, or are user interface, reports and migrations, so
the modules cover a small share of the lines and the larger part of the protocols. Presentation, reports and clients have no protocol state. Forecasts of the
quota planner are arithmetic over real-valued rates.

## 7. Plan

In order of importance:

1. done: `ApiKeyReservations`, `AccountLeases`, `AccountMarks`, `TokenExchange`.
2. done: `BridgeSessions` with its refinement of `OwnerLease`; `AccountTransfers`;
   `StreamRetry`. Theorems for all of 1 and 2.
3. Extend `AccountMarks` with usage samples and the background recovery, the sticky
   table, and compose it with `TokenExchange` (the pause that an exchange loses).
4. Resilience and admission: circuit breaker, bulkheads, queues, the limiter.
5. `LeaderElection`, ring membership and cache invalidation: terms, heartbeats,
   version polling; liveness of freshness.
6. The websocket service, beside `StreamRetry`; seats of pools.
7. An abstract quota ledger that `ApiKeyReservations` implements, and an abstract
   one-time-token specification for `TokenExchange`.
8. Theorems: the refinements of 7; what of the ledger survives edits that keep usage;
   what custody guarantees after a torn transaction.

## 8. Running it

    tlc -workers 2 -config ExchangeSafety.cfg MCTokenExchange
    tlapm TokenExchangeProofs.tla

Each run of `PROJECT.json` names its module and configuration. All runs end within
five minutes.
