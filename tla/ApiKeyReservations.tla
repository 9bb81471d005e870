------------------------- MODULE ApiKeyReservations -------------------------
(***************************************************************************)
(* Quota accounting of one API key (app/modules/api_keys).                 *)
(*                                                                         *)
(* A key has limit rows (current_value, max_value, reset_at).  A request   *)
(* reserves part of every limit that applies to it, runs, and is settled:  *)
(* finalized or failed with what it really used, released with nothing, or *)
(* released by the hourly sweep when nobody touched it for StaleAge.       *)
(* Windows roll over under requests in flight and operators edit limits    *)
(* concurrently.  reset_at is the compare-and-set token: a reservation     *)
(* item remembers the reset_at it was charged under and is only adjusted   *)
(* while the limit still has it.                                           *)
(*                                                                         *)
(* One action is one database transaction (the writer lock of SQLite, the  *)
(* row locks of PostgreSQL under READ COMMITTED).  Operations that read    *)
(* first and write in a later statement from what they read are two        *)
(* actions: admission (EnforceRead, EnforceCommit) and the operator's edit *)
(* (UpdateRead, UpdateCommit).  Status "settling" is set and replaced in   *)
(* one transaction and is never visible.                                   *)
(***************************************************************************)
EXTENDS Integers, FiniteSets, FiniteSetsExt

CONSTANTS
    Reservations,   \* reservation ids, one per request
    Limits,         \* limit identities: (limit_type, limit_window, model_filter)
    Applicable,     \* [Reservations -> SUBSET Limits], _limit_applies_for_request
    MaxValues,      \* thresholds an operator can configure
    Budgets,        \* what a request may ask to reserve of a limit
    Actuals,        \* what a request may turn out to use of a limit
    Window,         \* limit_window_delta
    StaleAge,       \* _STALE_USAGE_RESERVATION_AGE
    MaxTime,        \* bound of the clock
    MaxRowId,       \* bound of the row ids given to limit rows
    None            \* no row, nothing read

ASSUME QuotaAssumption ==
    /\ Applicable \in [Reservations -> SUBSET Limits]
    /\ MaxValues \subseteq Nat \ {0} /\ IsFiniteSet(MaxValues)
    /\ Budgets \subseteq Nat
    /\ Actuals \subseteq Nat
    /\ Window \in Nat \ {0}
    /\ StaleAge \in Nat
    /\ MaxTime \in Nat
    /\ MaxRowId \in Nat \ {0}
    /\ None \notin [id: Nat, max: Nat, cur: Nat, reset_at: Nat]
    /\ None \notin [id: Nat, reserved: Nat, actual: Int, reset_at: Nat]

VARIABLES
    now,        \* utcnow()
    limit,      \* api_key_limits: [Limits -> LimitRow or NoRow]
    rowId,      \* last row id handed out
    res,        \* api_key_usage_reservations with their items
    pending,    \* what an admission under way has read
    running,    \* requests whose process is alive (they touch and settle)
    update,     \* what an operator's edit under way has read
    keyExists   \* the api_keys row

vars == <<now, limit, rowId, res, pending, running, update, keyExists>>

-----------------------------------------------------------------------------
(* Types *)

Times == 0..(MaxTime + Window)

LimitRows == [id: 1..MaxRowId, max: MaxValues, cur: Nat, reset_at: Times]
LimitTables == [Limits -> LimitRows \cup {None}]
Items == [id: 1..MaxRowId, reserved: Nat, actual: Nat \cup {-1}, reset_at: Times]
Statuses == {"none", "reserved", "finalized", "failed", "released"}

TypeOK ==
    /\ now \in 0..MaxTime
    /\ limit \in LimitTables
    /\ rowId \in 0..MaxRowId
    /\ res \in [Reservations -> [status: Statuses, updated_at: 0..MaxTime,
                                 items: [Limits -> Items \cup {None}]]]
    /\ pending \in [Reservations -> LimitTables \cup {None}]
    /\ running \in SUBSET Reservations
    /\ update \in [reset: BOOLEAN, at: 0..MaxTime, read: LimitTables] \cup {None}
    /\ keyExists \in BOOLEAN

-----------------------------------------------------------------------------
(* Helpers *)

Exists(row) == row # None

NoItems == [l \in Limits |-> None]

NextLimitReset(t) == t + Window

\* The loop adds whole windows until the result lies after t.
AdvanceLimitReset(reset_at, t) ==
    IF reset_at > t
    THEN reset_at
    ELSE reset_at + ((t - reset_at) \div Window + 1) * Window

Expired(row, t) == Exists(row) /\ row.reset_at < t

ResetRow(row, t) ==
    [row EXCEPT !.cur = 0, !.reset_at = AdvanceLimitReset(row.reset_at, t)]

LazyResetExpiredLimits(table, t) ==
    [l \in Limits |-> IF Expired(table[l], t) THEN ResetRow(table[l], t) ELSE table[l]]

\* Mutant: the threshold is left out of the conditional UPDATE.
CanReserveUnbounded(row, read, delta) ==
    Exists(row) /\ row.id = read.id /\ row.reset_at = read.reset_at

\* The conditional UPDATE of try_reserve_usage.
CanReserve(row, read, delta) ==
    /\ Exists(row)
    /\ row.id = read.id
    /\ row.reset_at = read.reset_at
    /\ row.cur + delta <= row.max

\* Mutant: a refund is applied to whatever window the limit is in.
AdjustAnyWindow(row, item, delta) ==
    IF Exists(row) /\ row.id = item.id /\ (delta < 0 => row.cur >= -delta)
    THEN [row EXCEPT !.cur = @ + delta]
    ELSE row

\* Mutant: a refund larger than the counter goes through.
AdjustBelowZero(row, item, delta) ==
    IF Exists(row) /\ row.id = item.id /\ row.reset_at = item.reset_at
    THEN [row EXCEPT !.cur = @ + delta]
    ELSE row

\* The conditional UPDATE of adjust_reserved_usage; a row that does not match
\* is left alone and the caller ignores the result.
AdjustReservedUsage(row, item, delta) ==
    IF /\ Exists(row)
       /\ row.id = item.id
       /\ row.reset_at = item.reset_at
       /\ delta < 0 => row.cur >= -delta
    THEN [row EXCEPT !.cur = @ + delta]
    ELSE row

ReserveDeltaForLimit(read, budget) ==
    IF read.max - read.cur <= 0 THEN 0
    ELSE IF read.max - read.cur <= budget THEN read.max - read.cur ELSE budget

-----------------------------------------------------------------------------
(* Admission: enforce_limits_for_request *)

\* The key and its limits are read, windows that ran out are reset (each
\* reset commits) and the limits read again.
EnforceRead(r) ==
    /\ keyExists
    /\ res[r].status = "none"
    /\ pending[r] = None
    /\ limit' = LazyResetExpiredLimits(limit, now)
    /\ pending' = [pending EXCEPT ![r] = limit']
    /\ UNCHANGED <<now, rowId, res, running, update, keyExists>>

\* The limits r has read and that apply to it.
ReadLimits(r) == {l \in Applicable[r] : Exists(pending[r][l])}

\* Every conditional UPDATE goes through, or the transaction is rolled back.
\* The foreign keys refuse an item of a deleted limit or key.
Admissible(r, budget) ==
    \A l \in ReadLimits(r) :
        LET read  == pending[r][l]
            delta == ReserveDeltaForLimit(read, budget[l])
        IN  /\ read.cur < read.max
            /\ IF delta > 0 THEN CanReserve(limit[l], read, delta)
                            ELSE Exists(limit[l]) /\ limit[l].id = read.id

EnforceCommit(r, budget) ==
    /\ pending[r] # None
    /\ keyExists
    /\ Admissible(r, budget)
    /\ LET delta(l) == ReserveDeltaForLimit(pending[r][l], budget[l])
       IN  /\ limit' = [l \in Limits |-> IF l \in ReadLimits(r)
                                         THEN [limit[l] EXCEPT !.cur = @ + delta(l)]
                                         ELSE limit[l]]
           /\ res' = [res EXCEPT ![r] =
                 [status |-> "reserved", updated_at |-> now,
                  items |-> [l \in Limits |->
                      IF l \in ReadLimits(r)
                      THEN [id |-> pending[r][l].id, reserved |-> delta(l),
                            actual |-> -1, reset_at |-> pending[r][l].reset_at]
                      ELSE None]]]
    /\ pending' = [pending EXCEPT ![r] = None]
    /\ running' = running \cup {r}
    /\ UNCHANGED <<now, rowId, update, keyExists>>

\* The limit was used up, changed under the admission or is gone: rollback,
\* and the request is refused.
EnforceReject(r, budget) ==
    /\ pending[r] # None
    /\ ~(keyExists /\ Admissible(r, budget))
    /\ pending' = [pending EXCEPT ![r] = None]
    /\ UNCHANGED <<now, limit, rowId, res, running, update, keyExists>>

-----------------------------------------------------------------------------
(* Settlement *)

\* The limit table after every item of r was moved from its reserved delta to
\* what was really used.
Settled(r, actual) ==
    [l \in Limits |->
        IF res[r].items[l] # None
        THEN AdjustReservedUsage(limit[l], res[r].items[l],
                                 actual[l] - res[r].items[l].reserved)
        ELSE limit[l]]

WithActuals(items, actual) ==
    [l \in Limits |-> IF items[l] # None THEN [items[l] EXCEPT !.actual = actual[l]]
                                        ELSE None]

\* Mutant: the status is not tested before the reservation is settled.
CloseAgain(r, status, actual) ==
    /\ res[r].status # "none"
    /\ limit' = Settled(r, actual)
    /\ res' = [res EXCEPT ![r] = [status |-> status, updated_at |-> 0,
                                  items |-> WithActuals(res[r].items, actual)]]
    /\ UNCHANGED <<now, rowId, pending, update, keyExists>>

\* Mutant: the intermediate status is committed and never replaced.
CloseStaysSettling(r, status, actual) ==
    /\ res[r].status = "reserved"
    /\ limit' = Settled(r, actual)
    /\ res' = [res EXCEPT ![r] = [status |-> "settling", updated_at |-> 0,
                                  items |-> WithActuals(res[r].items, actual)]]
    /\ UNCHANGED <<now, rowId, pending, update, keyExists>>

\* Reservation r takes its final status and the items their actual delta.
\* Nobody reads updated_at of a settled reservation: it is dropped.
Close(r, status, actual) ==
    /\ res[r].status = "reserved"
    /\ limit' = Settled(r, actual)
    /\ res' = [res EXCEPT ![r] = [status |-> status, updated_at |-> 0,
                                  items |-> WithActuals(res[r].items, actual)]]
    /\ UNCHANGED <<now, rowId, pending, update, keyExists>>

Nothing == [l \in Limits |-> 0]

\* finalize_usage_reservation and fail_usage_reservation.
SettleUsageReservation(r, status, actual) ==
    /\ r \in running
    /\ Close(r, status, actual)
    /\ UNCHANGED running

\* release_usage_reservation.
ReleaseUsageReservation(r) ==
    /\ r \in running
    /\ Close(r, "released", Nothing)
    /\ UNCHANGED running

\* Mutant: the cutoff of the sweep lies too far back.
StaleTooLate(r) == res[r].updated_at < now - StaleAge - 1

\* One reservation of release_stale_usage_reservations.
Stale(r) == res[r].updated_at < now - StaleAge

ReleaseStaleUsageReservation(r) ==
    /\ Stale(r)
    /\ Close(r, "released", Nothing)
    /\ UNCHANGED running

\* The heartbeat of a running request.
TouchUsageReservation(r) ==
    /\ r \in running
    /\ res[r].status = "reserved"
    /\ res[r].updated_at # now
    /\ res' = [res EXCEPT ![r].updated_at = now]
    /\ UNCHANGED <<now, limit, rowId, pending, running, update, keyExists>>

\* The process of the request dies before it settles.
RequestDies(r) ==
    /\ r \in running
    /\ res[r].status = "reserved"
    /\ running' = running \ {r}
    /\ UNCHANGED <<now, limit, rowId, res, pending, update, keyExists>>

-----------------------------------------------------------------------------
(* Windows, operators and the clock *)

\* validate_key resets what ran out before it answers.
ValidateKey ==
    /\ keyExists
    /\ \E l \in Limits : Expired(limit[l], now)
    /\ limit' = LazyResetExpiredLimits(limit, now)
    /\ UNCHANGED <<now, rowId, res, pending, running, update, keyExists>>

\* One limit of the hourly reset_expired_limits.
ResetExpiredLimit(l) ==
    /\ Expired(limit[l], now)
    /\ limit' = [limit EXCEPT ![l] = ResetRow(@, now)]
    /\ UNCHANGED <<now, rowId, res, pending, running, update, keyExists>>

\* update_key reads the key and its limits; reset is payload.reset_usage.
UpdateRead(reset) ==
    /\ keyExists
    /\ update = None
    /\ update' = [reset |-> reset, at |-> now, read |-> limit]
    /\ UNCHANGED <<now, limit, rowId, res, pending, running, keyExists>>

\* The row update_key submits for l: a rule it had read keeps the usage it had
\* read, a new rule and a reset start over.
SubmittedRow(l, max) ==
    LET read  == update.read[l]
        fresh == update.reset \/ ~Exists(read)
    IN  [id       |-> IF Exists(limit[l]) THEN limit[l].id ELSE rowId + 1,
         max      |-> max,
         cur      |-> IF fresh THEN 0 ELSE read.cur,
         reset_at |-> IF fresh THEN NextLimitReset(update.at) ELSE read.reset_at]

\* Every reset_at the database or an admission under way holds of limit l.
ResetTokens(l) ==
    {limit[k].reset_at : k \in {k \in {l} : Exists(limit[k])}}
        \cup {res[r].items[l].reset_at : r \in {r \in Reservations : res[r].items[l] # None}}
        \cup {pending[r][l].reset_at :
                 r \in {r \in Reservations : pending[r] # None /\ Exists(pending[r][l])}}

\* Timestamps have microseconds: a window started by an operator never falls
\* on the grid of the windows it replaces.
FreshInstant(l) ==
    \A t \in ResetTokens(l) : (NextLimitReset(update.at) - t) % Window # 0

\* upsert_limits: rules that match are overwritten, new ones inserted, the
\* others deleted together with their reservation items.
UpdateCommit(submitted) ==
    /\ update # None
    /\ keyExists
    /\ rowId < MaxRowId
    /\ \A l \in DOMAIN submitted : update.reset /\ Exists(limit[l]) => FreshInstant(l)
    /\ limit' = [l \in Limits |-> IF l \in DOMAIN submitted
                                  THEN SubmittedRow(l, submitted[l]) ELSE None]
    /\ rowId' = IF \E l \in DOMAIN submitted : ~Exists(limit[l]) THEN rowId + 1 ELSE rowId
    /\ res' = [r \in Reservations |->
                 [res[r] EXCEPT !.items = [l \in Limits |->
                     IF l \in DOMAIN submitted THEN @[l] ELSE None]]]
    /\ update' = None
    /\ UNCHANGED <<now, pending, running, keyExists>>

\* The key is gone when the edit gets there: ApiKeyNotFoundError.
UpdateFails ==
    /\ update # None
    /\ ~keyExists
    /\ update' = None
    /\ UNCHANGED <<now, limit, rowId, res, pending, running, keyExists>>

\* delete_key; limits, reservations and items go with it.
DeleteKey ==
    /\ keyExists
    /\ keyExists' = FALSE
    /\ limit' = NoItems
    /\ res' = [r \in Reservations |-> [status |-> "none", updated_at |-> 0, items |-> NoItems]]
    /\ UNCHANGED <<now, rowId, pending, running, update>>

Tick ==
    /\ now < MaxTime
    /\ now' = now + 1
    /\ UNCHANGED <<limit, rowId, res, pending, running, update, keyExists>>

-----------------------------------------------------------------------------
(* Specification *)

Init ==
    /\ now = 0
    /\ limit \in [Limits -> {[id |-> 1, max |-> m, cur |-> 0, reset_at |-> Window] :
                             m \in MaxValues}]
    /\ rowId = 1
    /\ res = [r \in Reservations |-> [status |-> "none", updated_at |-> 0, items |-> NoItems]]
    /\ pending = [r \in Reservations |-> None]
    /\ running = {}
    /\ update = None
    /\ keyExists = TRUE

RequestNext(r) ==
    \/ EnforceRead(r)
    \/ \E b \in [Limits -> Budgets] : EnforceCommit(r, b) \/ EnforceReject(r, b)
    \/ \E a \in [Limits -> Actuals], st \in {"finalized", "failed"} :
           SettleUsageReservation(r, st, a)
    \/ ReleaseUsageReservation(r)
    \/ TouchUsageReservation(r)
    \/ RequestDies(r)

UpdateNext(resets) ==
    \/ \E reset \in resets : UpdateRead(reset)
    \/ \E S \in SUBSET Limits : \E submitted \in [S -> MaxValues] : UpdateCommit(submitted)
    \/ UpdateFails

TrafficNext ==
    \/ \E r \in Reservations : RequestNext(r) \/ ReleaseStaleUsageReservation(r)
    \/ ValidateKey
    \/ \E l \in Limits : ResetExpiredLimit(l)
    \/ DeleteKey
    \/ Tick

\* Operators reset usage but do not edit limits that are in use.
Next == TrafficNext \/ UpdateNext({TRUE})

\* Operators also edit limits and keep their usage.
EditNext == TrafficNext \/ UpdateNext(BOOLEAN)

\* The hourly sweep runs and time passes; nothing else is assumed.
SweepFairness ==
    /\ WF_vars(Tick)
    /\ \A r \in Reservations : WF_vars(ReleaseStaleUsageReservation(r))

Spec == Init /\ [][Next]_vars /\ SweepFairness
EditSpec == Init /\ [][EditNext]_vars

-----------------------------------------------------------------------------
(* Properties *)

\* What the audit trail (the reservation items) charges to the current window
\* of limit l: the actual delta once settled, the reserved one before.
Charge(item) == IF item.actual = -1 THEN item.reserved ELSE item.actual

ChargedTo(l) ==
    {r \in Reservations : /\ res[r].items[l] # None
                          /\ res[r].items[l].id = limit[l].id
                          /\ res[r].items[l].reset_at = limit[l].reset_at}

\* The counter of every limit is exactly what the reservation items of its
\* current window add up to: no refund is lost, none is applied twice or to a
\* later window (try_reserve_usage, adjust_reserved_usage, the resets).
LedgerMatchesItems ==
    \A l \in Limits : Exists(limit[l]) =>
        limit[l].cur = MapThenSumSet(LAMBDA r : Charge(res[r].items[l]), ChargedTo(l))

\* Reservations outstanding in the current window never add up to more than
\* the largest threshold that was ever in force.
NoOvercommit ==
    \A l \in Limits : Exists(limit[l]) =>
        MapThenSumSet(LAMBDA r : res[r].items[l].reserved,
                      {r \in ChargedTo(l) : res[r].status = "reserved"}) <= Max(MaxValues)

\* A reservation that was settled is never settled again or reopened, and
\* what it was charged never changes: a late finalize after the sweep, a
\* release after a finalize and a double finalize are all no-ops.
SettledOnce ==
    [][\A r \in Reservations :
         /\ res[r].status \in {"finalized", "failed", "released"}
         /\ keyExists'
         => /\ res'[r].status = res[r].status
            /\ \A l \in Limits : res'[r].items[l] \in {res[r].items[l], None}]_vars

\* A reservation nobody will settle, old enough for a sweep within MaxTime.
Abandoned(r) ==
    /\ res[r].status = "reserved"
    /\ r \notin running
    /\ res[r].updated_at + StaleAge < MaxTime

\* A request that died without settling does not hold its quota for ever:
\* the sweep (release_stale_usage_reservations) gives it back.
AbandonedQuotaReturns ==
    \A r \in Reservations : Abandoned(r) ~> res[r].status # "reserved"

\* An edit that does not ask for a usage reset leaves the usage of the rules
\* it keeps alone.
EditPreservesUsage ==
    [][\A l \in Limits :
         /\ update # None /\ update' = None
         /\ ~update.reset
         /\ Exists(limit[l]) /\ Exists(update.read[l]) /\ Exists(limit'[l])
         /\ limit'[l].id = limit[l].id
         => limit'[l].cur = limit[l].cur /\ limit'[l].reset_at = limit[l].reset_at]_vars

=============================================================================
