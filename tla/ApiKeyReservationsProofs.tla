---------------------- MODULE ApiKeyReservationsProofs ----------------------
(***************************************************************************)
(* Theorems about ApiKeyReservations, for any number of reservations and   *)
(* limits.  They are proved for EditSpec, the specification with every     *)
(* operator action; Spec takes a subset of its steps.                      *)
(***************************************************************************)
EXTENDS ApiKeyReservations, FiniteSumProofs

\* A window that ran out is advanced into the future, by at most one window
\* past the present (advance_limit_reset).
LEMMA AdvanceRange ==
    ASSUME NEW e \in Times, NEW t \in 0..MaxTime
    PROVE  /\ AdvanceLimitReset(e, t) \in Times
           /\ AdvanceLimitReset(e, t) > t
<1>1. CASE e > t
  BY <1>1, QuotaAssumption DEF AdvanceLimitReset, Times
<1>2. CASE ~(e > t)
  <2> DEFINE q == (t - e) \div Window
  <2>1. Window \in Nat \ {0} /\ MaxTime \in Nat /\ e \in Nat /\ t \in Nat
    BY QuotaAssumption DEF Times
  <2>2. q \in Nat /\ q * Window <= t - e /\ t - e < q * Window + Window
    BY <1>2, <2>1
  <2>3. (q + 1) * Window = q * Window + Window
    BY <2>1, <2>2
  <2>4. AdvanceLimitReset(e, t) = e + (q + 1) * Window
    BY <1>2 DEF AdvanceLimitReset
  <2>5. q * Window \in Nat
    BY <2>1, <2>2
  <2> HIDE DEF q
  <2> QED BY <2>1, <2>2, <2>3, <2>4, <2>5 DEF Times
<1> QED BY <1>1, <1>2

\* Resetting the windows that ran out keeps the limit table well-formed.
LEMMA ResetTyped ==
    ASSUME NEW table \in LimitTables, NEW t \in 0..MaxTime
    PROVE  LazyResetExpiredLimits(table, t) \in LimitTables
<1> SUFFICES ASSUME NEW l \in Limits, Expired(table[l], t)
             PROVE  ResetRow(table[l], t) \in LimitRows
  BY DEF LazyResetExpiredLimits, LimitTables
<1>1. table[l] \in LimitRows
  BY DEF LimitTables, Expired, Exists
<1>2. AdvanceLimitReset(table[l].reset_at, t) \in Times
  BY <1>1, AdvanceRange DEF LimitRows
<1> QED BY <1>1, <1>2 DEF ResetRow, LimitRows

\* A reservation never takes a negative amount of a limit.
LEMMA DeltaNat ==
    ASSUME NEW row \in LimitRows, NEW b \in Budgets
    PROVE  ReserveDeltaForLimit(row, b) \in Nat
<1>1. row.max \in Nat /\ row.cur \in Nat /\ b \in Nat
  BY QuotaAssumption DEF LimitRows
<1> QED BY <1>1 DEF ReserveDeltaForLimit

\* An adjustment keeps the row well-formed, in particular not negative.
LEMMA AdjustTyped ==
    ASSUME NEW row \in LimitRows \cup {None}, NEW item \in Items, NEW delta \in Int
    PROVE  AdjustReservedUsage(row, item, delta) \in LimitRows \cup {None}
  BY DEF AdjustReservedUsage, LimitRows, Exists, Items

-----------------------------------------------------------------------------
(* Type correctness, one step per action. *)

\* What an item may be, and what a reservation record may be.
LEMMA CloseTyped ==
    ASSUME TypeOK, NEW r \in Reservations, NEW st \in Statuses,
           NEW actual \in [Limits -> Nat], Close(r, st, actual)
    PROVE  limit' \in LimitTables /\
           res' \in [Reservations -> [status: Statuses, updated_at: 0..MaxTime,
                                      items: [Limits -> Items \cup {None}]]]
<1>1. ASSUME NEW l \in Limits
      PROVE  Settled(r, actual)[l] \in LimitRows \cup {None}
  <2>1. limit[l] \in LimitRows \cup {None}
    BY DEF TypeOK, LimitTables
  <2>2. CASE res[r].items[l] # None
    <3>1. res[r].items[l] \in Items
      BY <2>2 DEF TypeOK
    <3>2. actual[l] - res[r].items[l].reserved \in Int
      BY <3>1 DEF Items
    <3>3. AdjustReservedUsage(limit[l], res[r].items[l],
                              actual[l] - res[r].items[l].reserved) \in LimitRows \cup {None}
      BY <2>1, <3>1, <3>2, AdjustTyped
    <3> QED BY <2>2, <3>3 DEF Settled
  <2> QED BY <2>1, <2>2 DEF Settled
<1>2. limit' \in LimitTables
  <2>1. limit' = Settled(r, actual)
    BY DEF Close
  <2> QED BY <1>1, <2>1 DEF LimitTables, Settled
<1>3. ASSUME NEW l \in Limits
      PROVE  WithActuals(res[r].items, actual)[l] \in Items \cup {None}
  <2>1. res[r].items[l] \in Items \cup {None}
    BY DEF TypeOK
  <2> QED BY <2>1 DEF WithActuals, Items
<1>4. WithActuals(res[r].items, actual) \in [Limits -> Items \cup {None}]
  BY <1>3 DEF WithActuals
<1>5. 0 \in 0..MaxTime
  BY QuotaAssumption
<1> QED BY <1>2, <1>4, <1>5 DEF Close, TypeOK

LEMMA EnforceCommitTyped ==
    ASSUME TypeOK, NEW r \in Reservations, NEW b \in [Limits -> Budgets],
           EnforceCommit(r, b)
    PROVE  TypeOK'
<1> DEFINE delta(l) == ReserveDeltaForLimit(pending[r][l], b[l])
<1>1. pending[r] \in LimitTables
  BY DEF TypeOK, EnforceCommit
<1>2. ASSUME NEW l \in ReadLimits(r)
      PROVE  /\ l \in Limits
             /\ pending[r][l] \in LimitRows
             /\ delta(l) \in Nat
             /\ limit[l] \in LimitRows
  <2>1. l \in Limits /\ pending[r][l] \in LimitRows
    BY <1>1, QuotaAssumption DEF ReadLimits, LimitTables, Exists
  <2>2. delta(l) \in Nat
    BY <2>1, DeltaNat
  <2>3. limit[l] # None
    BY DEF EnforceCommit, Admissible, CanReserve, Exists
  <2> QED BY <2>1, <2>2, <2>3 DEF TypeOK, LimitTables
<1>3. limit' \in LimitTables
  <2>1. ASSUME NEW l \in ReadLimits(r)
        PROVE  [limit[l] EXCEPT !.cur = @ + delta(l)] \in LimitRows
    BY <1>2 DEF LimitRows
  <2>2. limit' = [l \in Limits |-> IF l \in ReadLimits(r)
                                  THEN [limit[l] EXCEPT !.cur = @ + delta(l)]
                                  ELSE limit[l]]
    BY DEF EnforceCommit
  <2> QED BY <2>1, <2>2 DEF TypeOK, LimitTables
<1>4. res' \in [Reservations -> [status: Statuses, updated_at: 0..MaxTime,
                                 items: [Limits -> Items \cup {None}]]]
  <2> DEFINE item(l) == [id |-> pending[r][l].id, reserved |-> delta(l),
                         actual |-> -1, reset_at |-> pending[r][l].reset_at]
             its == [l \in Limits |-> IF l \in ReadLimits(r) THEN item(l) ELSE None]
  <2>1. ASSUME NEW l \in ReadLimits(r) PROVE item(l) \in Items
    BY <1>2 DEF Items, LimitRows
  <2>2. its \in [Limits -> Items \cup {None}]
    BY <2>1
  <2>3. res' = [res EXCEPT ![r] = [status |-> "reserved", updated_at |-> now, items |-> its]]
    BY DEF EnforceCommit
  <2> HIDE DEF its
  <2> QED BY <2>2, <2>3 DEF TypeOK, Statuses
<1> QED BY <1>3, <1>4 DEF TypeOK, EnforceCommit

\* The rows an edit submits.
LEMMA SubmittedTyped ==
    ASSUME TypeOK, NEW S \in SUBSET Limits, NEW submitted \in [S -> MaxValues],
           UpdateCommit(submitted), NEW l \in S
    PROVE  SubmittedRow(l, submitted[l]) \in LimitRows
<1>0. /\ update \in [reset: BOOLEAN, at: 0..MaxTime, read: LimitTables]
      /\ rowId < MaxRowId
      /\ rowId + 1 \in 1..MaxRowId
  BY QuotaAssumption DEF TypeOK, UpdateCommit
<1> DEFINE row == SubmittedRow(l, submitted[l])
           id == IF Exists(limit[l]) THEN limit[l].id ELSE rowId + 1
           fresh == update.reset \/ ~Exists(update.read[l])
           cur == IF fresh THEN 0 ELSE update.read[l].cur
           rst == IF fresh THEN NextLimitReset(update.at) ELSE update.read[l].reset_at
<1>1. limit[l] \in LimitRows \cup {None} /\ update.read[l] \in LimitRows \cup {None}
  BY <1>0 DEF TypeOK, LimitTables
<1>2. id \in 1..MaxRowId
  BY <1>0, <1>1 DEF Exists, LimitRows
<1>3. NextLimitReset(update.at) \in Times
  BY <1>0, QuotaAssumption DEF NextLimitReset, Times
<1>4. cur \in Nat /\ rst \in Times
  BY <1>1, <1>3 DEF Exists, LimitRows
<1>5. row = [id |-> id, max |-> submitted[l], cur |-> cur, reset_at |-> rst]
  BY DEF SubmittedRow
<1> HIDE DEF row, id, cur, rst
<1>6. row \in LimitRows
  BY <1>2, <1>4, <1>5 DEF LimitRows
<1> QED BY <1>6 DEF row

LEMMA UpdateCommitTyped ==
    ASSUME TypeOK, NEW S \in SUBSET Limits, NEW submitted \in [S -> MaxValues],
           UpdateCommit(submitted)
    PROVE  TypeOK'
<1>1. /\ update \in [reset: BOOLEAN, at: 0..MaxTime, read: LimitTables]
      /\ rowId < MaxRowId
      /\ rowId + 1 \in 1..MaxRowId
  BY QuotaAssumption DEF TypeOK, UpdateCommit
<1>2. ASSUME NEW l \in S
      PROVE  SubmittedRow(l, submitted[l]) \in LimitRows
  BY SubmittedTyped
<1>3. limit' \in LimitTables
  BY <1>2 DEF UpdateCommit, LimitTables
<1>4. rowId' \in 0..MaxRowId
  BY <1>1 DEF UpdateCommit, TypeOK
<1>5. res' \in [Reservations -> [status: Statuses, updated_at: 0..MaxTime,
                                 items: [Limits -> Items \cup {None}]]]
  BY DEF UpdateCommit, TypeOK
<1> QED BY <1>3, <1>4, <1>5 DEF TypeOK, UpdateCommit

LEMMA InitTyped == Init => TypeOK
<1> SUFFICES ASSUME Init PROVE TypeOK
  OBVIOUS
<1>1. limit \in LimitTables
  <2>1. ASSUME NEW m \in MaxValues
        PROVE  [id |-> 1, max |-> m, cur |-> 0, reset_at |-> Window] \in LimitRows
    BY QuotaAssumption DEF LimitRows, Times
  <2> QED BY <2>1 DEF Init, LimitTables
<1>2. NoItems \in [Limits -> Items \cup {None}]
  BY DEF NoItems
<1> QED BY <1>1, <1>2, QuotaAssumption DEF Init, TypeOK, Statuses

LEMMA StepTyped == TypeOK /\ [EditNext]_vars => TypeOK'
<1> SUFFICES ASSUME TypeOK, [EditNext]_vars PROVE TypeOK'
  OBVIOUS
<1>z. Nothing \in [Limits -> Nat] /\ NoItems \in [Limits -> Items \cup {None}]
      /\ NoItems \in LimitTables
  BY DEF Nothing, NoItems, LimitTables
<1>1. ASSUME NEW r \in Reservations, RequestNext(r)
      PROVE  TypeOK'
  <2>1. CASE EnforceRead(r)
    <3>1. limit' \in LimitTables
      BY <2>1, ResetTyped DEF EnforceRead, TypeOK
    <3> QED BY <2>1, <3>1 DEF EnforceRead, TypeOK
  <2>2. ASSUME NEW b \in [Limits -> Budgets], EnforceCommit(r, b) PROVE TypeOK'
    BY <2>2, EnforceCommitTyped
  <2>3. ASSUME NEW b \in [Limits -> Budgets], EnforceReject(r, b) PROVE TypeOK'
    BY <2>3 DEF EnforceReject, TypeOK
  <2>4. ASSUME NEW a \in [Limits -> Actuals], NEW st \in {"finalized", "failed"},
               SettleUsageReservation(r, st, a)
        PROVE  TypeOK'
    <3>1. a \in [Limits -> Nat] /\ st \in Statuses /\ Close(r, st, a)
      BY <2>4, QuotaAssumption DEF SettleUsageReservation, Statuses
    <3> QED BY <2>4, <3>1, CloseTyped DEF SettleUsageReservation, Close, TypeOK
  <2>5. CASE ReleaseUsageReservation(r)
    <3>1. "released" \in Statuses /\ Close(r, "released", Nothing)
      BY <2>5 DEF ReleaseUsageReservation, Statuses
    <3> QED BY <1>z, <2>5, <3>1, CloseTyped DEF ReleaseUsageReservation, Close, TypeOK
  <2>6. CASE TouchUsageReservation(r)
    BY <2>6 DEF TouchUsageReservation, TypeOK
  <2>7. CASE RequestDies(r)
    BY <2>7 DEF RequestDies, TypeOK
  <2> QED BY <1>1, <2>1, <2>2, <2>3, <2>4, <2>5, <2>6, <2>7 DEF RequestNext
<1>2. ASSUME NEW r \in Reservations, ReleaseStaleUsageReservation(r)
      PROVE  TypeOK'
  <2>1. "released" \in Statuses /\ Close(r, "released", Nothing)
    BY <1>2 DEF ReleaseStaleUsageReservation, Statuses
  <2> QED BY <1>z, <1>2, <2>1, CloseTyped DEF ReleaseStaleUsageReservation, Close, TypeOK
<1>3. CASE ValidateKey
  <2>1. limit' \in LimitTables
    BY <1>3, ResetTyped DEF ValidateKey, TypeOK
  <2> QED BY <1>3, <2>1 DEF ValidateKey, TypeOK
<1>4. ASSUME NEW l \in Limits, ResetExpiredLimit(l) PROVE TypeOK'
  <2>1. limit[l] \in LimitRows
    BY <1>4 DEF ResetExpiredLimit, Expired, Exists, TypeOK, LimitTables
  <2>2. AdvanceLimitReset(limit[l].reset_at, now) \in Times
    BY <2>1, AdvanceRange DEF LimitRows, TypeOK
  <2>3. ResetRow(limit[l], now) \in LimitRows
    BY <2>1, <2>2 DEF ResetRow, LimitRows
  <2>4. limit' \in LimitTables
    BY <1>4, <2>3 DEF ResetExpiredLimit, TypeOK, LimitTables
  <2> QED BY <1>4, <2>4 DEF ResetExpiredLimit, TypeOK
<1>5. CASE DeleteKey
  <2>1. [status |-> "none", updated_at |-> 0, items |-> NoItems]
          \in [status: Statuses, updated_at: 0..MaxTime, items: [Limits -> Items \cup {None}]]
    BY <1>z, QuotaAssumption DEF Statuses
  <2>2. res' \in [Reservations -> [status: Statuses, updated_at: 0..MaxTime,
                                   items: [Limits -> Items \cup {None}]]]
    BY <1>5, <2>1 DEF DeleteKey
  <2> QED BY <1>5, <1>z, <2>2 DEF DeleteKey, TypeOK
<1>6. CASE Tick
  BY <1>6, QuotaAssumption DEF Tick, TypeOK
<1>7. ASSUME NEW reset \in BOOLEAN, UpdateRead(reset) PROVE TypeOK'
  BY <1>7 DEF UpdateRead, TypeOK
<1>8. ASSUME NEW S \in SUBSET Limits, NEW submitted \in [S -> MaxValues],
             UpdateCommit(submitted)
      PROVE  TypeOK'
  BY <1>8, UpdateCommitTyped
<1>9. CASE UpdateFails
  BY <1>9 DEF UpdateFails, TypeOK
<1>10. CASE UNCHANGED vars
  BY <1>10 DEF vars, TypeOK
<1> QED
  BY <1>1, <1>2, <1>3, <1>4, <1>5, <1>6, <1>7, <1>8, <1>9, <1>10
     DEF EditNext, TrafficNext, UpdateNext

\* Every reachable state of the quota tables is well-formed, with operators
\* editing limits and resetting usage under requests in flight.
THEOREM TypeCorrect == EditSpec => []TypeOK
  BY InitTyped, StepTyped, PTL DEF EditSpec

-----------------------------------------------------------------------------
(* Settlement happens at most once. *)

\* Only a request without a reservation is being admitted.
AdmissionFresh ==
    \A r \in Reservations : pending[r] # None => res[r].status = "none"

LEMMA AdmissionFreshStep ==
    TypeOK /\ AdmissionFresh /\ [EditNext]_vars => AdmissionFresh'
<1> SUFFICES ASSUME TypeOK, AdmissionFresh, [EditNext]_vars PROVE AdmissionFresh'
  OBVIOUS
<1> USE DEF AdmissionFresh
<1>1. ASSUME NEW r \in Reservations, RequestNext(r) PROVE AdmissionFresh'
  <2>1. CASE EnforceRead(r)
    BY <2>1 DEF EnforceRead, TypeOK
  <2>2. ASSUME NEW b \in [Limits -> Budgets], EnforceCommit(r, b) PROVE AdmissionFresh'
    BY <2>2 DEF EnforceCommit, TypeOK
  <2>3. ASSUME NEW b \in [Limits -> Budgets], EnforceReject(r, b) PROVE AdmissionFresh'
    BY <2>3 DEF EnforceReject, TypeOK
  <2>4. ASSUME NEW a, NEW st, Close(r, st, a) PROVE AdmissionFresh'
    BY <2>4 DEF Close, TypeOK
  <2>5. CASE TouchUsageReservation(r)
    BY <2>5 DEF TouchUsageReservation, TypeOK
  <2>6. CASE RequestDies(r)
    BY <2>6 DEF RequestDies
  <2> QED
    BY <1>1, <2>1, <2>2, <2>3, <2>4, <2>5, <2>6
       DEF RequestNext, SettleUsageReservation, ReleaseUsageReservation
<1>2. ASSUME NEW r \in Reservations, ReleaseStaleUsageReservation(r) PROVE AdmissionFresh'
  BY <1>2 DEF ReleaseStaleUsageReservation, Close, TypeOK
<1>3. CASE ValidateKey
  BY <1>3 DEF ValidateKey
<1>4. ASSUME NEW l \in Limits, ResetExpiredLimit(l) PROVE AdmissionFresh'
  BY <1>4 DEF ResetExpiredLimit
<1>5. CASE DeleteKey
  BY <1>5 DEF DeleteKey
<1>6. CASE Tick
  BY <1>6 DEF Tick
<1>7. ASSUME NEW reset \in BOOLEAN, UpdateRead(reset) PROVE AdmissionFresh'
  BY <1>7 DEF UpdateRead
<1>8. ASSUME NEW submitted, UpdateCommit(submitted) PROVE AdmissionFresh'
  BY <1>8 DEF UpdateCommit, TypeOK
<1>9. CASE UpdateFails
  BY <1>9 DEF UpdateFails
<1>10. CASE UNCHANGED vars
  BY <1>10 DEF vars
<1> QED
  BY <1>1, <1>2, <1>3, <1>4, <1>5, <1>6, <1>7, <1>8, <1>9, <1>10
     DEF EditNext, TrafficNext, UpdateNext

\* What a step may do to a settled reservation: lose items of a deleted limit.
SettledStep ==
    \A r \in Reservations :
      /\ res[r].status \in {"finalized", "failed", "released"}
      /\ keyExists'
      => /\ res'[r].status = res[r].status
         /\ \A l \in Limits : res'[r].items[l] \in {res[r].items[l], None}

LEMMA SettledOnceStep ==
    TypeOK /\ AdmissionFresh /\ [EditNext]_vars => SettledStep
<1> SUFFICES ASSUME TypeOK, AdmissionFresh, [EditNext]_vars PROVE SettledStep
  OBVIOUS
<1> USE DEF SettledStep
<1>1. ASSUME res' = res PROVE SettledStep
  BY <1>1
<1>2. ASSUME NEW r \in Reservations, NEW b \in [Limits -> Budgets], EnforceCommit(r, b)
      PROVE  SettledStep
  <2>1. res[r].status = "none"
    BY <1>2 DEF EnforceCommit, AdmissionFresh
  <2>2. \A q \in Reservations \ {r} : res'[q] = res[q]
    BY <1>2 DEF EnforceCommit, TypeOK
  <2> QED BY <2>1, <2>2
<1>3. ASSUME NEW r \in Reservations, NEW a, NEW st, Close(r, st, a) PROVE SettledStep
  <2>1. res[r].status = "reserved"
    BY <1>3 DEF Close
  <2>2. \A q \in Reservations \ {r} : res'[q] = res[q]
    BY <1>3 DEF Close, TypeOK
  <2> QED BY <2>1, <2>2
<1>4. ASSUME NEW r \in Reservations, TouchUsageReservation(r) PROVE SettledStep
  <2>1. res[r].status = "reserved"
    BY <1>4 DEF TouchUsageReservation
  <2>2. \A q \in Reservations \ {r} : res'[q] = res[q]
    BY <1>4 DEF TouchUsageReservation, TypeOK
  <2> QED BY <2>1, <2>2
<1>5. ASSUME NEW submitted, UpdateCommit(submitted) PROVE SettledStep
  BY <1>5 DEF UpdateCommit, TypeOK
<1>6. CASE DeleteKey
  BY <1>6 DEF DeleteKey
<1>7. CASE \/ \E r \in Reservations : \/ EnforceRead(r)
                                       \/ RequestDies(r)
                                       \/ \E b \in [Limits -> Budgets] : EnforceReject(r, b)
           \/ ValidateKey
           \/ \E l \in Limits : ResetExpiredLimit(l)
           \/ Tick
           \/ \E reset \in BOOLEAN : UpdateRead(reset)
           \/ UpdateFails
           \/ UNCHANGED vars
  BY <1>1, <1>7 DEF EnforceRead, RequestDies, EnforceReject, ValidateKey,
                    ResetExpiredLimit, Tick, UpdateRead, UpdateFails, vars
<1> QED
  BY <1>2, <1>3, <1>4, <1>5, <1>6, <1>7
     DEF EditNext, TrafficNext, UpdateNext, RequestNext, SettleUsageReservation,
         ReleaseUsageReservation, ReleaseStaleUsageReservation

\* A settled reservation stays settled as it is: late, repeated and competing
\* settlements of one reservation are no-ops whatever else runs.
THEOREM SettledAtMostOnce == EditSpec => SettledOnce
<1>1. Init => AdmissionFresh
  BY DEF Init, AdmissionFresh
<1>2. EditSpec => []AdmissionFresh
  BY <1>1, AdmissionFreshStep, TypeCorrect, PTL DEF EditSpec
<1>3. TypeOK /\ AdmissionFresh /\ [EditNext]_vars => [SettledStep]_vars
  BY SettledOnceStep
<1>4. EditSpec => [][SettledStep]_vars
  BY <1>2, <1>3, TypeCorrect, PTL DEF EditSpec
<1> QED BY <1>4 DEF SettledOnce, SettledStep

-----------------------------------------------------------------------------
(* The ledger: what the counters of the limits add up to.  From here on the
   operators reset usage but do not write back what they read (Next). *)

\* Two instants lie on one grid of windows, and the second is not later.
OnGrid(w, t) == (w - t) % Window = 0 => t <= w

\* What the items of a reservation table charge to limit l, and to its row.
Weights(rs, l) == [r \in Reservations |-> Charge(rs[r].items[l])]

Charged(rs, row, l) ==
    {r \in Reservations : /\ rs[r].items[l] # None
                          /\ rs[r].items[l].id = row.id
                          /\ rs[r].items[l].reset_at = row.reset_at}

Reserved(rs, l) == [r \in Reservations |-> rs[r].items[l].reserved]

Outstanding(rs, row, l) == {r \in Charged(rs, row, l) : rs[r].status = "reserved"}

\* The two promises, for one limit row.
Balanced(rs, row, l) == row.cur = SumOf(Weights(rs, l), Charged(rs, row, l))

Bounded(rs, row, l) ==
    SumOf(Reserved(rs, l), Outstanding(rs, row, l)) <= Max(MaxValues)

\* The items of limit l belong to its row, and none of them to a window that
\* the row is still to reach.
Linked(rs, row, l) ==
    \A r \in Reservations : rs[r].items[l] # None =>
        /\ row # None /\ rs[r].items[l].id = row.id
        /\ OnGrid(row.reset_at, rs[r].items[l].reset_at)

\* The same for what an admission under way has read.
Seen(pd, row, l, n) ==
    \A r \in Reservations : pd[r] # None /\ pd[r][l] # None =>
        /\ pd[r][l].id <= n
        /\ row # None /\ pd[r][l].id = row.id => OnGrid(row.reset_at, pd[r][l].reset_at)

LimitGood(rs, pd, row, n, l) ==
    /\ Linked(rs, row, l) /\ Seen(pd, row, l, n)
    /\ row # None => row.id <= n /\ Balanced(rs, row, l) /\ Bounded(rs, row, l)

\* Reservations that were ever made are finitely many; the others have no
\* items; what is not settled has no actual usage.
Made(rs) == {r \in Reservations : rs[r].status # "none"}

Tidy(rs) ==
    /\ IsFiniteSet(Made(rs))
    /\ \A r \in Reservations, l \in Limits : rs[r].items[l] # None =>
         /\ rs[r].status # "none"
         /\ rs[r].status = "reserved" => rs[r].items[l].actual = -1

LedgerInv ==
    /\ TypeOK /\ AdmissionFresh /\ Tidy(res)
    /\ update # None => update.reset
    /\ \A l \in Limits : LimitGood(res, pending, limit[l], rowId, l)

LEMMA OnGridShift ==
    ASSUME NEW w \in Nat, NEW t \in Nat, NEW k \in Nat, OnGrid(w, t)
    PROVE  OnGrid(w + k * Window, t)
<1>1. PICK W \in Nat : W = Window /\ W # 0
  BY QuotaAssumption
<1>2. PICK d \in Int : d = w - t
  OBVIOUS
<1>3. PICK p \in Nat : p = k * W
  OBVIOUS
<1>4. CASE (d + p) % W = 0
  <2>1. PICK j \in Int : d + p = j * W
    <3>1. (d + p) \div W \in Int /\ d + p = ((d + p) \div W) * W
      BY <1>1, <1>4
    <3> QED BY <3>1
  <2>2. d = (j - k) * W
    BY <1>1, <1>3, <2>1
  <2>3. PICK i \in Int : i = j - k /\ d = i * W
    BY <2>2
  <2>4. (i * W) % W = 0
    BY <1>1
  <2>5. t <= w
    BY <1>1, <1>2, <2>3, <2>4 DEF OnGrid
  <2> QED BY <1>1, <1>3, <2>5 DEF OnGrid
<1>5. CASE ~((d + p) % W = 0)
  <2>1. (w + k * Window) - t = d + p
    BY <1>1, <1>2, <1>3
  <2> QED BY <1>1, <1>5, <2>1 DEF OnGrid
<1> QED BY <1>4, <1>5

LEMMA OnGridSelf ==
    ASSUME NEW w \in Nat
    PROVE  OnGrid(w, w)
BY DEF OnGrid

\* The largest threshold exists.
LEMMA MaxThreshold ==
    ASSUME NEW m \in MaxValues
    PROVE  Max(MaxValues) \in Nat /\ m <= Max(MaxValues)
<1> DEFINE G == {T \in SUBSET MaxValues : T # {} => \E x \in T : \A y \in T : x >= y}
<1>1. ASSUME NEW T \in SUBSET MaxValues, \A U \in SUBSET T : U # T => U \in G
      PROVE  T \in G
  <2>1. CASE T = {}
    BY <2>1
  <2>2. ASSUME T # {} PROVE \E x \in T : \A y \in T : x >= y
    <3>1. PICK x \in T : TRUE
      BY <2>2
    <3>2. \A y \in T : y \in Nat
      BY QuotaAssumption
    <3>3. CASE T \ {x} = {}
      <4>1. \A y \in T : y = x
        BY <3>3
      <4> QED BY <3>2, <4>1
    <3>4. CASE T \ {x} # {}
      <4>1. T \ {x} \in G
        BY <1>1
      <4>2. PICK z \in T \ {x} : \A y \in T \ {x} : z >= y
        BY <3>4, <4>1
      <4>3. CASE z >= x
        <5>1. \A y \in T : z >= y
          BY <4>2, <4>3
        <5> QED BY <5>1
      <4>4. CASE ~(z >= x)
        <5>1. \A y \in T : x >= y
          BY <3>2, <4>2, <4>4
        <5> QED BY <5>1
      <4> QED BY <4>3, <4>4
    <3> QED BY <3>3, <3>4
  <2> QED BY <2>2
<1>2. MaxValues \in G
  <2> HIDE DEF G
  <2>1. \A T \in SUBSET MaxValues : (\A U \in SUBSET T : U # T => U \in G) => T \in G
    BY <1>1
  <2>2. \A T \in SUBSET MaxValues : T \in G
    BY <2>1, SubsetInduction, QuotaAssumption
  <2> QED BY <2>2
<1>3. \E x \in MaxValues : \A y \in MaxValues : x >= y
  BY <1>2
<1>4. Max(MaxValues) \in MaxValues /\ \A y \in MaxValues : Max(MaxValues) >= y
  BY <1>3 DEF Max
<1> QED BY <1>4, QuotaAssumption

\* The properties speak of the same sums.
LEMMA ChargesAreSum ==
    ASSUME NEW l \in Limits, IsFiniteSet(ChargedTo(l))
    PROVE  MapThenSumSet(LAMBDA r : Charge(res[r].items[l]), ChargedTo(l))
             = SumOf(Weights(res, l), ChargedTo(l))
<1> DEFINE S == ChargedTo(l)
           F(h) == [s \in SUBSET S |->
               IF s = {} THEN 0
               ELSE Charge(res[CHOOSE x \in s : TRUE].items[l]) + h[s \ {CHOOSE x \in s : TRUE}]]
           i == CHOOSE h : h = F(h)
<1>1. S \subseteq Reservations
  BY DEF ChargedTo
<1>2. MapThenSumSet(LAMBDA r : Charge(res[r].items[l]), S) = i[S]
  BY DEF MapThenSumSet, MapThenFoldSet
<1> HIDE DEF S
<1>3. ASSUME NEW h PROVE IsFold(h, Weights(res, l), S) <=> h = F(h)
  <2>1. \A s \in SUBSET S : s # {} =>
          Weights(res, l)[Pick(s)] = Charge(res[CHOOSE x \in s : TRUE].items[l])
    BY <1>1, PickIn DEF Weights, Pick
  <2> QED BY <2>1 DEF IsFold, Pick
<1>4. IsFiniteSet(S)
  BY DEF S
<1>5. PICK g : IsFold(g, Weights(res, l), S)
  BY <1>4, FoldExists
<1>6. i = F(i)
  <2>1. g = F(g)
    BY <1>3, <1>5
  <2> HIDE DEF F
  <2> QED BY <2>1
<1> HIDE DEF i, F
<1>7. i[S] = SumOf(Weights(res, l), S)
  BY <1>3, <1>4, <1>6, SumIsFold
<1> QED BY <1>2, <1>7 DEF S

ReservationTables ==
    [Reservations -> [status: Statuses, updated_at: 0..MaxTime,
                      items: [Limits -> Items \cup {None}]]]

LEMMA ItemTyped ==
    ASSUME NEW rs \in ReservationTables, NEW r \in Reservations, NEW l \in Limits,
           rs[r].items[l] # None
    PROVE  /\ rs[r].items[l] \in Items
           /\ rs[r].items[l].reserved \in Nat /\ rs[r].items[l].reset_at \in Nat
           /\ Charge(rs[r].items[l]) \in Nat
           /\ rs[r].items[l].actual = -1 => Charge(rs[r].items[l]) = rs[r].items[l].reserved
<1>1. rs[r].items[l] \in Items
  BY DEF ReservationTables
<1> QED BY <1>1, QuotaAssumption DEF Items, Charge, Times

LEMMA ChargedFacts ==
    ASSUME NEW rs \in ReservationTables, Tidy(rs), NEW l \in Limits, NEW row
    PROVE  /\ IsFiniteSet(Charged(rs, row, l)) /\ IsFiniteSet(Outstanding(rs, row, l))
           /\ \A r \in Charged(rs, row, l) : /\ r \in Reservations
                                             /\ Weights(rs, l)[r] \in Nat
                                             /\ Reserved(rs, l)[r] \in Nat
           /\ \A r \in Outstanding(rs, row, l) : Weights(rs, l)[r] = Reserved(rs, l)[r]
<1>1. ASSUME NEW r \in Charged(rs, row, l)
      PROVE  /\ r \in Reservations /\ rs[r].items[l] # None /\ r \in Made(rs)
             /\ Weights(rs, l)[r] \in Nat /\ Reserved(rs, l)[r] \in Nat
  BY ItemTyped DEF Charged, Tidy, Made, Weights, Reserved
<1>2. Charged(rs, row, l) \subseteq Made(rs) /\ Outstanding(rs, row, l) \subseteq Made(rs)
  BY <1>1 DEF Outstanding
<1>3. IsFiniteSet(Charged(rs, row, l)) /\ IsFiniteSet(Outstanding(rs, row, l))
  BY <1>2, FS_Subset DEF Tidy
<1>4. ASSUME NEW r \in Outstanding(rs, row, l)
      PROVE  Weights(rs, l)[r] = Reserved(rs, l)[r]
  <2>1. r \in Charged(rs, row, l) /\ rs[r].status = "reserved"
    BY DEF Outstanding
  <2>2. r \in Reservations /\ rs[r].items[l] # None /\ rs[r].items[l].actual = -1
    BY <1>1, <2>1 DEF Tidy
  <2> QED BY <2>2, ItemTyped DEF Weights, Reserved
<1> QED BY <1>1, <1>3, <1>4

\* Nothing is charged to a window that has just begun.
LEMMA EmptyWindow ==
    ASSUME NEW rs, NEW row \in LimitRows, NEW l, Charged(rs, row, l) = {}, row.cur = 0
    PROVE  Balanced(rs, row, l) /\ Bounded(rs, row, l)
<1>1. Outstanding(rs, row, l) = {}
  BY DEF Outstanding
<1>2. row.max \in MaxValues
  BY DEF LimitRows
<1>3. Max(MaxValues) \in Nat
  BY <1>2, MaxThreshold
<1> QED BY <1>1, <1>3, SumEmpty DEF Balanced, Bounded

\* The sums of limit l depend on its items and on who is outstanding.
LEMMA SameItems ==
    ASSUME NEW rs \in ReservationTables, NEW rs2 \in ReservationTables, NEW l \in Limits,
           \A r \in Reservations : /\ rs2[r].items[l] = rs[r].items[l]
                                   /\ rs[r].items[l] # None => rs2[r].status = rs[r].status,
           NEW row
    PROVE  /\ Linked(rs, row, l) => Linked(rs2, row, l)
           /\ Balanced(rs, row, l) => Balanced(rs2, row, l)
           /\ Bounded(rs, row, l) => Bounded(rs2, row, l)
           /\ Charged(rs2, row, l) = Charged(rs, row, l)
<1>1. Charged(rs2, row, l) = Charged(rs, row, l)
  BY DEF Charged
<1>2. Outstanding(rs2, row, l) = Outstanding(rs, row, l)
  <2>1. \A r \in Charged(rs, row, l) : rs2[r].status = rs[r].status
    BY DEF Charged
  <2> QED BY <1>1, <2>1 DEF Outstanding
<1>3. Weights(rs2, l) = Weights(rs, l) /\ Reserved(rs2, l) = Reserved(rs, l)
  BY DEF Weights, Reserved
<1>4. Linked(rs, row, l) => Linked(rs2, row, l)
  BY DEF Linked
<1> QED BY <1>1, <1>2, <1>3, <1>4 DEF Balanced, Bounded

LEMMA NotLaterOnGrid ==
    ASSUME NEW w \in Nat, NEW k \in Nat, k # 0, OnGrid(w, w + k * Window)
    PROVE  FALSE
<1>1. PICK W \in Nat : W = Window /\ W # 0
  BY QuotaAssumption
<1>2. k * W \in Nat /\ k * W > 0
  BY <1>1
<1>3. PICK j \in Int : j = -k
  OBVIOUS
<1>4. w - (w + k * W) = j * W
  BY <1>2, <1>3
<1>5. (j * W) % W = 0
  BY <1>1
<1>6. w + k * W <= w
  BY <1>1, <1>4, <1>5 DEF OnGrid
<1> QED BY <1>2, <1>6

LEMMA AdvanceShifts ==
    ASSUME NEW e \in Times, NEW t \in 0..MaxTime, e < t
    PROVE  \E k \in Nat : k # 0 /\ AdvanceLimitReset(e, t) = e + k * Window
<1>1. Window \in Nat /\ Window # 0 /\ e \in Nat /\ t \in Nat
  BY QuotaAssumption DEF Times
<1>2. (t - e) \div Window \in Nat
  BY <1>1
<1>3. AdvanceLimitReset(e, t) = e + ((t - e) \div Window + 1) * Window
  BY <1>1 DEF AdvanceLimitReset
<1>4. PICK k \in Nat : k = (t - e) \div Window + 1 /\ k # 0
  BY <1>2
<1> QED BY <1>3, <1>4

\* A window that ran out is reset.
LEMMA ResetGood ==
    ASSUME NEW rs \in ReservationTables, NEW pd \in [Reservations -> LimitTables \cup {None}],
           NEW row \in LimitRows, NEW n, NEW l \in Limits, LimitGood(rs, pd, row, n, l), row # None,
           NEW t \in 0..MaxTime, row.reset_at < t, ResetRow(row, t) # None
    PROVE  LimitGood(rs, pd, ResetRow(row, t), n, l)
<1>1. PICK k \in Nat : k # 0 /\ AdvanceLimitReset(row.reset_at, t) = row.reset_at + k * Window
  BY AdvanceShifts DEF LimitRows
<1>2. PICK new \in LimitRows : new = ResetRow(row, t)
  <2>1. AdvanceLimitReset(row.reset_at, t) \in Times
    BY AdvanceRange DEF LimitRows
  <2> QED BY <2>1 DEF ResetRow, LimitRows
<1>3. new.id = row.id /\ new.cur = 0 /\ new.reset_at = row.reset_at + k * Window
  BY <1>1, <1>2 DEF ResetRow, LimitRows
<1>4. row.reset_at \in Nat
  BY QuotaAssumption DEF LimitRows, Times
<1>5. \A u \in Nat : OnGrid(row.reset_at, u) => OnGrid(new.reset_at, u) /\ u # new.reset_at
  BY <1>1, <1>3, <1>4, OnGridShift, NotLaterOnGrid
<1>6. \A r \in Reservations : rs[r].items[l] # None => rs[r].items[l].reset_at \in Nat
  BY ItemTyped
<1>7. Linked(rs, new, l) /\ Charged(rs, new, l) = {}
  BY <1>2, <1>3, <1>5, <1>6 DEF LimitGood, Linked, Charged
<1>8. Seen(pd, new, l, n)
  <2>1. \A r \in Reservations : pd[r] # None /\ pd[r][l] # None => pd[r][l].reset_at \in Nat
    BY QuotaAssumption DEF LimitTables, LimitRows, Times
  <2> QED BY <1>3, <1>5, <2>1 DEF LimitGood, Seen
<1>9. Balanced(rs, new, l) /\ Bounded(rs, new, l)
  BY <1>3, <1>7, EmptyWindow
<1> QED BY <1>2, <1>3, <1>7, <1>8, <1>9 DEF LimitGood

\* Likewise for what is outstanding.
LEMMA OutstandingIsSum ==
    ASSUME NEW l \in Limits, NEW S, S \subseteq Reservations, IsFiniteSet(S)
    PROVE  MapThenSumSet(LAMBDA r : res[r].items[l].reserved, S)
             = SumOf(Reserved(res, l), S)
<1> DEFINE F(h) == [s \in SUBSET S |->
               IF s = {} THEN 0
               ELSE res[CHOOSE x \in s : TRUE].items[l].reserved + h[s \ {CHOOSE x \in s : TRUE}]]
           i == CHOOSE h : h = F(h)
<1>1. MapThenSumSet(LAMBDA r : res[r].items[l].reserved, S) = i[S]
  BY DEF MapThenSumSet, MapThenFoldSet
<1>2. ASSUME NEW h PROVE IsFold(h, Reserved(res, l), S) <=> h = F(h)
  <2>1. \A s \in SUBSET S : s # {} =>
          Reserved(res, l)[Pick(s)] = res[CHOOSE x \in s : TRUE].items[l].reserved
    BY PickIn DEF Reserved, Pick
  <2> QED BY <2>1 DEF IsFold, Pick
<1>3. PICK g : IsFold(g, Reserved(res, l), S)
  BY FoldExists
<1>4. i = F(i)
  <2>1. g = F(g)
    BY <1>2, <1>3
  <2> HIDE DEF F
  <2> QED BY <2>1
<1> HIDE DEF i, F
<1>5. i[S] = SumOf(Reserved(res, l), S)
  BY <1>2, <1>4, SumIsFold
<1> QED BY <1>1, <1>5

LEMMA RowsExist ==
    /\ \A row \in LimitRows : row # None
    /\ \A item \in Items : item # None
<1>0. Times \subseteq Nat /\ 1..MaxRowId \subseteq Nat /\ MaxValues \subseteq Nat
  BY QuotaAssumption DEF Times
<1>1. \A row \in LimitRows : row \in [id: Nat, max: Nat, cur: Nat, reset_at: Nat]
  BY <1>0 DEF LimitRows
<1>2. ASSUME NEW item \in Items
      PROVE  item \in [id: Nat, reserved: Nat, actual: Int, reset_at: Nat]
  <2> DEFINE A == Nat \cup {-1}
  <2>1. A \subseteq Int
    OBVIOUS
  <2>2. item \in [id: 1..MaxRowId, reserved: Nat, actual: A, reset_at: Times]
    BY DEF Items
  <2> HIDE DEF A
  <2> QED BY <1>0, <2>1, <2>2
<1> QED BY <1>1, <1>2, QuotaAssumption

\* Limits are reset, all that ran out at once or one of them.
LEMMA ResetStep ==
    ASSUME LedgerInv, NEW S \in SUBSET Limits, NEW table,
           table = [l \in Limits |-> IF l \in S /\ Expired(limit[l], now)
                                     THEN ResetRow(limit[l], now) ELSE limit[l]]
    PROVE  \A l \in Limits : LimitGood(res, pending, table[l], rowId, l)
<1> SUFFICES ASSUME NEW l \in Limits
             PROVE  LimitGood(res, pending, table[l], rowId, l)
  OBVIOUS
<1>0. LimitGood(res, pending, limit[l], rowId, l)
  BY DEF LedgerInv
<1>1. CASE l \in S /\ Expired(limit[l], now)
  <2>1. limit[l] \in LimitRows /\ limit[l] # None /\ limit[l].reset_at < now
    BY <1>1 DEF LedgerInv, TypeOK, LimitTables, Expired, Exists
  <2>2. ResetRow(limit[l], now) \in LimitRows
    <3>1. AdvanceLimitReset(limit[l].reset_at, now) \in Times
      BY <2>1, AdvanceRange DEF LimitRows, LedgerInv, TypeOK
    <3> QED BY <2>1, <3>1 DEF ResetRow, LimitRows
  <2>3. ResetRow(limit[l], now) # None
    BY <2>2, RowsExist
  <2>4. res \in ReservationTables /\ now \in 0..MaxTime
        /\ pending \in [Reservations -> LimitTables \cup {None}]
    BY DEF LedgerInv, TypeOK, ReservationTables
  <2>5. LimitGood(res, pending, ResetRow(limit[l], now), rowId, l)
    BY <1>0, <2>1, <2>3, <2>4, ResetGood
  <2> QED BY <1>1, <2>5
<1> QED BY <1>0, <1>1

\* An admission reads the table as it is.
LEMMA SeenAdd ==
    ASSUME NEW rs, NEW pd, NEW table \in LimitTables, NEW n, NEW l \in Limits, NEW r,
           NEW pd2, \A q \in Reservations : pd2[q] = IF q = r THEN table ELSE pd[q],
           LimitGood(rs, pd, table[l], n, l)
    PROVE  LimitGood(rs, pd2, table[l], n, l)
<1>1. table[l] # None => table[l].reset_at \in Nat
  BY QuotaAssumption DEF LimitTables, LimitRows, Times
<1>2. table[l] # None => OnGrid(table[l].reset_at, table[l].reset_at)
  BY <1>1, OnGridSelf
<1>3. Seen(pd2, table[l], l, n)
  BY <1>2 DEF LimitGood, Seen
<1> QED BY <1>3 DEF LimitGood

\* An admission that ends leaves what the others have read.
LEMMA SeenDrop ==
    ASSUME NEW rs, NEW pd, NEW row, NEW n, NEW l \in Limits, NEW pd2,
           \A q \in Reservations : pd2[q] = None \/ pd2[q] = pd[q],
           LimitGood(rs, pd, row, n, l)
    PROVE  LimitGood(rs, pd2, row, n, l)
BY DEF LimitGood, Seen

\* A row whose window is the same leaves the items and the admissions linked.
LEMMA SameWindow ==
    ASSUME NEW rs, NEW pd, NEW n, NEW l \in Limits, NEW row \in LimitRows, NEW new \in LimitRows,
           new.id = row.id, new.reset_at = row.reset_at
    PROVE  /\ Charged(rs, new, l) = Charged(rs, row, l)
           /\ Outstanding(rs, new, l) = Outstanding(rs, row, l)
           /\ Linked(rs, row, l) => Linked(rs, new, l)
           /\ Seen(pd, row, l, n) => Seen(pd, new, l, n)
<1>1. row # None /\ new # None
  BY RowsExist
<1>2. Charged(rs, new, l) = Charged(rs, row, l)
  BY DEF Charged
<1>3. Outstanding(rs, new, l) = Outstanding(rs, row, l)
  BY <1>2 DEF Outstanding
<1>4. Linked(rs, row, l) => Linked(rs, new, l)
  BY <1>1 DEF Linked
<1>5. Seen(pd, row, l, n) => Seen(pd, new, l, n)
  BY <1>1 DEF Seen
<1> QED BY <1>2, <1>3, <1>4, <1>5

\* An admission charges a limit: to its window if that is still the one that
\* was read, and nothing if it is not.
LEMMA ChargeGood ==
    ASSUME NEW rs \in ReservationTables, Tidy(rs), NEW rs2 \in ReservationTables, Tidy(rs2),
           NEW pd, NEW n, NEW l \in Limits, NEW r \in Reservations, rs[r].items[l] = None,
           \A q \in Reservations \ {r} : rs2[q] = rs[q],
           rs2[r].items[l] \in Items, rs2[r].status = "reserved",
           NEW row \in LimitRows, NEW new \in LimitRows, NEW d \in Nat,
           d = rs2[r].items[l].reserved, rs2[r].items[l].actual = -1,
           rs2[r].items[l].id = row.id, OnGrid(row.reset_at, rs2[r].items[l].reset_at),
           new.id = row.id, new.reset_at = row.reset_at, new.max = row.max,
           new.cur = row.cur + d,
           d > 0 => rs2[r].items[l].reset_at = row.reset_at /\ row.cur + d <= row.max,
           LimitGood(rs, pd, row, n, l)
    PROVE  LimitGood(rs2, pd, new, n, l)
<1> DEFINE C == Charged(rs, row, l)
           O == Outstanding(rs, row, l)
<1>0. row # None /\ new # None /\ rs2[r].items[l] # None
  BY RowsExist
<1>1. /\ Linked(rs, row, l) /\ Seen(pd, row, l, n) /\ row.id <= n
      /\ row.cur = SumOf(Weights(rs, l), C) /\ SumOf(Reserved(rs, l), O) <= Max(MaxValues)
  BY <1>0 DEF LimitGood, Balanced, Bounded
<1>2. /\ IsFiniteSet(C) /\ IsFiniteSet(O)
      /\ \A q \in C : Weights(rs, l)[q] \in Nat /\ Reserved(rs, l)[q] \in Nat
  BY ChargedFacts
<1>3. Linked(rs2, new, l) /\ Seen(pd, new, l, n)
  <2>1. Linked(rs2, row, l)
    BY <1>0, <1>1 DEF Linked
  <2> QED BY <1>1, <2>1, SameWindow
<1>4. r \notin C /\ r \notin O /\ O \subseteq C /\ C \subseteq Reservations
  BY DEF Charged, Outstanding
<1>5. /\ \A q \in C : Weights(rs, l)[q] = Weights(rs2, l)[q]
      /\ \A q \in C : Reserved(rs, l)[q] = Reserved(rs2, l)[q]
  BY <1>4 DEF Weights, Reserved
<1>6. /\ Weights(rs2, l)[r] = d /\ Reserved(rs2, l)[r] = d
  BY <1>0 DEF Weights, Reserved, Charge
<1>7. /\ SumOf(Weights(rs2, l), C) = SumOf(Weights(rs, l), C)
      /\ SumOf(Reserved(rs2, l), O) = SumOf(Reserved(rs, l), O)
  BY <1>2, <1>4, <1>5, SumSame
<1>8. row.max \in MaxValues /\ row.cur \in Nat /\ row.max \in Nat
  BY QuotaAssumption DEF LimitRows
<1>9. Max(MaxValues) \in Nat /\ row.max <= Max(MaxValues)
  BY <1>8, MaxThreshold
<1>10. Charged(rs2, new, l) = Charged(rs2, row, l)
       /\ Outstanding(rs2, new, l) = Outstanding(rs2, row, l)
  BY SameWindow
<1>11. CASE rs2[r].items[l].reset_at = row.reset_at
  <2>1. Charged(rs2, row, l) = C \cup {r}
    BY <1>0, <1>11 DEF Charged
  <2>2. Outstanding(rs2, row, l) = O \cup {r}
    BY <2>1, <1>4 DEF Outstanding
  <2> HIDE DEF C, O
  <2>n. /\ \A q \in C \cup {r} : Weights(rs2, l)[q] \in Nat
        /\ \A q \in O \cup {r} : Reserved(rs2, l)[q] \in Nat
    BY <1>2, <1>4, <1>5, <1>6
  <2>3. SumOf(Weights(rs2, l), C \cup {r}) = d + SumOf(Weights(rs2, l), C)
    BY <1>2, <1>4, <1>6, <2>n, SumAdd
  <2>m. SumOf(Reserved(rs2, l), O \cup {r}) = d + SumOf(Reserved(rs2, l), O)
    <3>1. IsFiniteSet(O) /\ r \notin O
      BY <1>2, <1>4
    <3>2. SumOf(Reserved(rs2, l), O \cup {r}) = Reserved(rs2, l)[r] + SumOf(Reserved(rs2, l), O)
      BY <3>1, <2>n, SumAdd
    <3> QED BY <1>6, <3>2
  <2>4. Balanced(rs2, new, l)
    BY <1>1, <1>7, <1>8, <1>10, <2>1, <2>3 DEF Balanced
  <2>5. CASE d > 0
    <3>1. /\ IsFiniteSet(C \cup {r}) /\ O \cup {r} \in SUBSET (C \cup {r})
      BY <1>2, <1>4, FS_AddElement
    <3>3. \A q \in O \cup {r} : Reserved(rs2, l)[q] = Weights(rs2, l)[q]
      BY <2>2, ChargedFacts
    <3>4. \A q \in O \cup {r} : Reserved(rs2, l)[q] <= Weights(rs2, l)[q]
      BY <2>n, <3>3
    <3>5. SumOf(Reserved(rs2, l), O \cup {r}) <= SumOf(Weights(rs2, l), C \cup {r})
      BY <3>1, <2>n, <3>4, SumMonotone
    <3>6. SumOf(Reserved(rs2, l), O \cup {r}) \in Nat
      BY <3>1, <2>n, FS_Subset, SumType
    <3> QED BY <1>1, <1>7, <1>8, <1>9, <1>10, <1>3, <1>0, <2>2, <2>3, <2>4, <2>5, <3>5, <3>6 DEF LimitGood, Bounded
  <2>6. CASE d = 0
    <3>2. SumOf(Reserved(rs2, l), O) \in Nat
      BY <1>2, <1>4, <1>5, SumType
    <3>3. Bounded(rs2, new, l)
      BY <1>1, <1>7, <1>10, <2>2, <2>6, <2>m, <3>2 DEF Bounded
    <3> QED BY <1>0, <1>1, <1>3, <2>4, <3>3 DEF LimitGood
  <2> QED BY <2>5, <2>6
<1>12. CASE rs2[r].items[l].reset_at # row.reset_at
  <2>1. d = 0
    BY <1>12
  <2>2. Charged(rs2, row, l) = C
    BY <1>0, <1>12 DEF Charged
  <2>3. Outstanding(rs2, row, l) = O
    BY <2>2, <1>4 DEF Outstanding
  <2> HIDE DEF C, O
  <2>4. Balanced(rs2, new, l)
    BY <1>1, <1>7, <1>8, <1>10, <2>1, <2>2 DEF Balanced
  <2>5. Bounded(rs2, new, l)
    BY <1>1, <1>7, <1>10, <2>3 DEF Bounded
  <2> QED BY <1>0, <1>1, <1>3, <2>4, <2>5 DEF LimitGood
<1> QED BY <1>11, <1>12

\* A settlement moves an item from what it reserved to what was used, in its
\* own window; the guard of the refund always lets it through there.
LEMMA SettleGood ==
    ASSUME NEW rs \in ReservationTables, Tidy(rs), NEW rs2 \in ReservationTables, Tidy(rs2),
           NEW pd, NEW n, NEW l \in Limits, NEW r \in Reservations,
           NEW item \in Items, item = rs[r].items[l],
           rs[r].status = "reserved", rs2[r].status # "reserved",
           \A q \in Reservations \ {r} : rs2[q] = rs[q],
           NEW a \in Nat, rs2[r].items[l] \in Items, rs2[r].items[l].actual = a,
           rs2[r].items[l].id = item.id, rs2[r].items[l].reset_at = item.reset_at,
           rs2[r].items[l].reserved = item.reserved,
           NEW row \in LimitRows, NEW new \in LimitRows,
           new = AdjustReservedUsage(row, item, a - item.reserved),
           LimitGood(rs, pd, row, n, l)
    PROVE  LimitGood(rs2, pd, new, n, l)
<1> DEFINE C == Charged(rs, row, l)
           O == Outstanding(rs, row, l)
<1>0. row # None /\ new # None /\ rs2[r].items[l] # None /\ item # None
  BY RowsExist
<1>1. /\ Linked(rs, row, l) /\ Seen(pd, row, l, n) /\ row.id <= n
      /\ row.cur = SumOf(Weights(rs, l), C) /\ SumOf(Reserved(rs, l), O) <= Max(MaxValues)
  BY <1>0 DEF LimitGood, Balanced, Bounded
<1>2. /\ IsFiniteSet(C) /\ IsFiniteSet(O)
      /\ \A q \in C : Weights(rs, l)[q] \in Nat /\ Reserved(rs, l)[q] \in Nat
  BY ChargedFacts
<1>3. Charged(rs2, row, l) = C
  BY <1>0 DEF Charged
<1>4. C \subseteq Reservations /\ O \subseteq C
        /\ Outstanding(rs2, row, l) \subseteq O
  BY <1>3 DEF Charged, Outstanding
<1>5. /\ \A q \in C \ {r} : Weights(rs, l)[q] = Weights(rs2, l)[q]
      /\ \A q \in C : Reserved(rs, l)[q] = Reserved(rs2, l)[q]
  BY <1>4 DEF Weights, Reserved
<1>6. item.reserved \in Nat /\ item.actual = -1
  BY <1>0 DEF Items, Tidy
<1>7. Weights(rs, l)[r] = item.reserved /\ Weights(rs2, l)[r] = a
  BY <1>6 DEF Weights, Charge
<1>8. Linked(rs2, row, l)
  BY <1>0, <1>1 DEF Linked
<1>9. SumOf(Reserved(rs2, l), Outstanding(rs2, row, l)) <= Max(MaxValues)
  <2>0. Max(MaxValues) \in Nat
    BY MaxThreshold DEF LimitRows
  <2> DEFINE P == Outstanding(rs2, row, l)
  <2>1. P \in SUBSET O /\ IsFiniteSet(P)
    BY <1>2, <1>4, FS_Subset
  <2>2. /\ \A q \in O : Reserved(rs, l)[q] \in Nat
        /\ \A q \in P : Reserved(rs2, l)[q] \in Nat
                        /\ Reserved(rs2, l)[q] <= Reserved(rs, l)[q]
    BY <1>2, <1>4, <1>5
  <2> HIDE DEF P, O
  <2>3. SumOf(Reserved(rs2, l), P) <= SumOf(Reserved(rs, l), O)
    BY <1>2, <2>1, <2>2, SumMonotone
  <2>4. SumOf(Reserved(rs2, l), P) \in Nat /\ SumOf(Reserved(rs, l), O) \in Nat
    BY <1>2, <2>1, <2>2, SumType
  <2>5. SumOf(Reserved(rs2, l), P) <= Max(MaxValues)
    BY <1>1, <2>0, <2>3, <2>4
  <2> QED BY <2>5 DEF P
<1>10. row.cur \in Nat
  BY DEF LimitRows
<1>11. item.id = row.id
  BY <1>0, <1>1 DEF Linked
<1>12. CASE item.reset_at = row.reset_at
  <2>1. r \in C
    BY <1>0, <1>11, <1>12 DEF Charged
  <2>2. item.reserved <= row.cur
    <3> HIDE DEF C
    <3>1. Weights(rs, l)[r] <= SumOf(Weights(rs, l), C)
      BY <1>2, <2>1, SumBounds
    <3> QED BY <1>1, <1>7, <3>1
  <2>3. new = [row EXCEPT !.cur = @ + (a - item.reserved)]
    BY <1>0, <1>6, <1>10, <1>11, <1>12, <2>2 DEF AdjustReservedUsage, Exists
  <2>4. new.cur = row.cur + (a - item.reserved) /\ new.id = row.id /\ new.reset_at = row.reset_at
    BY <2>3 DEF LimitRows
  <2>5. SumOf(Weights(rs2, l), C) = SumOf(Weights(rs, l), C) - item.reserved + a
    <3>1. \A q \in C : Weights(rs, l)[q] \in Nat /\ Weights(rs2, l)[q] \in Nat
      BY <1>2, <1>5, <1>7
    <3> HIDE DEF C
    <3>2. SumOf(Weights(rs2, l), C)
            = SumOf(Weights(rs, l), C) - Weights(rs, l)[r] + Weights(rs2, l)[r]
      BY <1>2, <1>5, <2>1, <3>1, SumChange
    <3> QED BY <1>7, <3>2
  <2>6. Balanced(rs2, new, l)
    <3>1. Charged(rs2, new, l) = C
      BY <1>3, <2>4, SameWindow
    <3> HIDE DEF C
    <3> QED BY <1>1, <1>6, <1>10, <2>4, <2>5, <3>1 DEF Balanced
  <2>7. Bounded(rs2, new, l) /\ Linked(rs2, new, l) /\ Seen(pd, new, l, n)
    BY <1>1, <1>8, <1>9, <2>4, SameWindow DEF Bounded
  <2> QED BY <1>1, <2>4, <2>6, <2>7 DEF LimitGood
<1>13. CASE item.reset_at # row.reset_at
  <2>1. new = row
    BY <1>13 DEF AdjustReservedUsage
  <2>2. r \notin C
    BY <1>13 DEF Charged
  <2>3. SumOf(Weights(rs2, l), C) = SumOf(Weights(rs, l), C)
    <3>1. \A q \in C : Weights(rs2, l)[q] = Weights(rs, l)[q]
      BY <1>5, <2>2
    <3> HIDE DEF C
    <3> QED BY <1>2, <3>1, SumSame
  <2> QED BY <1>1, <1>3, <1>8, <1>9, <2>1, <2>3 DEF LimitGood, Balanced, Bounded
<1> QED BY <1>12, <1>13

\* A new limit row, or one whose usage an operator resets, starts a window of
\* its own: no item and no admission under way refers to it.
LEMMA FreshGood ==
    ASSUME NEW rs, NEW pd, NEW n, NEW l \in Limits, NEW row \in LimitRows, row.cur = 0, row.id <= n,
           \A r \in Reservations : rs[r].items[l] # None =>
               /\ rs[r].items[l].id = row.id
               /\ (row.reset_at - rs[r].items[l].reset_at) % Window # 0,
           \A r \in Reservations : pd[r] # None /\ pd[r][l] # None =>
               /\ pd[r][l].id <= n
               /\ pd[r][l].id = row.id => (row.reset_at - pd[r][l].reset_at) % Window # 0
    PROVE  LimitGood(rs, pd, row, n, l)
<1>1. row # None
  BY RowsExist
<1>2. row.reset_at \in Nat /\ (row.reset_at - row.reset_at) % Window = 0
  <2>1. row.reset_at \in Nat /\ Window \in Nat /\ Window # 0
    BY QuotaAssumption DEF LimitRows, Times
  <2> QED BY <2>1
<1>3. Charged(rs, row, l) = {}
  BY <1>2 DEF Charged
<1>4. Balanced(rs, row, l) /\ Bounded(rs, row, l)
  BY <1>3, EmptyWindow
<1>5. Linked(rs, row, l) /\ Seen(pd, row, l, n)
  BY <1>1 DEF Linked, Seen, OnGrid
<1> QED BY <1>4, <1>5 DEF LimitGood

LEMMA SameGood ==
    ASSUME NEW rs \in ReservationTables, NEW rs2 \in ReservationTables, NEW l \in Limits,
           \A r \in Reservations : /\ rs2[r].items[l] = rs[r].items[l]
                                   /\ rs[r].items[l] # None => rs2[r].status = rs[r].status,
           NEW pd, NEW row, NEW n, LimitGood(rs, pd, row, n, l)
    PROVE  LimitGood(rs2, pd, row, n, l)
<1>1. /\ Linked(rs, row, l) => Linked(rs2, row, l)
      /\ Balanced(rs, row, l) => Balanced(rs2, row, l)
      /\ Bounded(rs, row, l) => Bounded(rs2, row, l)
  BY SameItems
<1> QED BY <1>1 DEF LimitGood

-----------------------------------------------------------------------------
(* One step of the ledger per action. *)

LEMMA CommitLedger ==
    ASSUME LedgerInv, TypeOK', NEW r \in Reservations, NEW b \in [Limits -> Budgets],
           EnforceCommit(r, b)
    PROVE  /\ Tidy(res')
           /\ \A l \in Limits : LimitGood(res', pending', limit'[l], rowId', l)
<1> DEFINE delta(l) == ReserveDeltaForLimit(pending[r][l], b[l])
<1>0. /\ TypeOK /\ Tidy(res) /\ res \in ReservationTables /\ res' \in ReservationTables
      /\ limit \in LimitTables /\ limit' \in LimitTables /\ pending[r] \in LimitTables
  BY DEF LedgerInv, TypeOK, ReservationTables, EnforceCommit
<1>1. res[r].status = "none" /\ \A l \in Limits : res[r].items[l] = None
  BY DEF LedgerInv, AdmissionFresh, EnforceCommit, Tidy
<1>2. /\ \A q \in Reservations \ {r} : res'[q] = res[q]
      /\ res'[r].status = "reserved"
      /\ \A l \in Limits \ ReadLimits(r) : res'[r].items[l] = None /\ limit'[l] = limit[l]
      /\ \A l \in Limits \cap ReadLimits(r) :
           /\ res'[r].items[l] = [id |-> pending[r][l].id, reserved |-> delta(l),
                                  actual |-> -1, reset_at |-> pending[r][l].reset_at]
           /\ limit'[l] = [limit[l] EXCEPT !.cur = @ + delta(l)]
  BY <1>0 DEF EnforceCommit, ReservationTables
<1>3. Tidy(res')
  <2>1. Made(res') = Made(res) \cup {r}
    BY <1>2 DEF Made
  <2>2. IsFiniteSet(Made(res'))
    BY <1>0, <2>1, FS_AddElement DEF Tidy
  <2>3. ASSUME NEW q \in Reservations, NEW l \in Limits, res'[q].items[l] # None
        PROVE  /\ res'[q].status # "none"
               /\ res'[q].status = "reserved" => res'[q].items[l].actual = -1
    <3>1. CASE q = r
      <4>1. l \in Limits \cap ReadLimits(r)
        BY <1>2, <2>3, <3>1
      <4>2. res'[r].items[l] = [id |-> pending[r][l].id, reserved |-> delta(l),
                                actual |-> -1, reset_at |-> pending[r][l].reset_at]
        BY <1>2, <4>1
      <4>3. res'[r].items[l].actual = -1
        BY <4>2
      <4> QED BY <1>2, <3>1, <4>3
    <3>2. CASE q # r
      BY <1>0, <1>2, <2>3, <3>2 DEF Tidy
    <3> QED BY <3>1, <3>2
  <2> QED BY <2>2, <2>3 DEF Tidy
<1>4. ASSUME NEW l \in Limits PROVE LimitGood(res', pending, limit'[l], rowId, l)
  <2>0. LimitGood(res, pending, limit[l], rowId, l)
    BY DEF LedgerInv
  <2>1. CASE l \in ReadLimits(r)
    <3>1. /\ pending[r][l] \in LimitRows /\ pending[r][l] # None
          /\ limit[l] # None /\ limit[l].id = pending[r][l].id
          /\ delta(l) > 0 => /\ limit[l].reset_at = pending[r][l].reset_at
                             /\ limit[l].cur + delta(l) <= limit[l].max
      BY <1>0, <2>1 DEF ReadLimits, Exists, EnforceCommit, Admissible, CanReserve, LimitTables
    <3>2. limit[l] \in LimitRows /\ delta(l) \in Nat
      BY <1>0, <3>1, DeltaNat DEF LimitTables
    <3>3. PICK d \in Nat : d = delta(l)
      BY <3>2
    <3>4. limit'[l] = [limit[l] EXCEPT !.cur = @ + d]
      BY <1>2, <2>1, <3>3
    <3>5. /\ limit'[l] \in LimitRows
          /\ limit'[l].id = limit[l].id /\ limit'[l].reset_at = limit[l].reset_at
          /\ limit'[l].max = limit[l].max /\ limit'[l].cur = limit[l].cur + d
      BY <3>2, <3>4 DEF LimitRows
    <3>i. res'[r].items[l] = [id |-> pending[r][l].id, reserved |-> d,
                              actual |-> -1, reset_at |-> pending[r][l].reset_at]
      BY <1>2, <2>1, <3>3
    <3>6. /\ res'[r].items[l].id = limit[l].id /\ res'[r].items[l].reserved = d
          /\ res'[r].items[l].actual = -1
          /\ res'[r].items[l].reset_at = pending[r][l].reset_at
      BY <3>1, <3>i
    <3>7. res'[r].items[l] \in Items
      BY <3>1, <3>i DEF Items, LimitRows
    <3>8. OnGrid(limit[l].reset_at, pending[r][l].reset_at)
      BY <2>0, <3>1 DEF LimitGood, Seen, EnforceCommit
    <3> HIDE DEF delta
    <3> QED
      BY <1>0, <1>1, <1>2, <1>3, <2>0, <3>1, <3>2, <3>3, <3>5, <3>6, <3>7, <3>8, ChargeGood
  <2>2. CASE l \notin ReadLimits(r)
    <3>1. \A q \in Reservations : /\ res'[q].items[l] = res[q].items[l]
                                  /\ res[q].items[l] # None => res'[q].status = res[q].status
      BY <1>1, <1>2, <2>2
    <3>2. limit'[l] = limit[l]
      BY <1>2, <2>2
    <3> QED BY <1>0, <2>0, <3>1, <3>2, SameGood
  <2> QED BY <2>1, <2>2
<1>5. \A q \in Reservations : pending'[q] = None \/ pending'[q] = pending[q]
  BY <1>0 DEF EnforceCommit, TypeOK
<1>6. ASSUME NEW l \in Limits PROVE LimitGood(res', pending', limit'[l], rowId', l)
  <2>1. LimitGood(res', pending', limit'[l], rowId, l)
    BY <1>4, <1>5, SeenDrop
  <2>2. rowId' = rowId
    BY DEF EnforceCommit
  <2> QED BY <2>1, <2>2
<1> QED BY <1>3, <1>6

LEMMA CloseLedger ==
    ASSUME LedgerInv, TypeOK', NEW r \in Reservations,
           NEW st \in {"finalized", "failed", "released"}, NEW actual \in [Limits -> Nat],
           Close(r, st, actual)
    PROVE  /\ Tidy(res')
           /\ \A l \in Limits : LimitGood(res', pending', limit'[l], rowId', l)
<1>0. /\ TypeOK /\ Tidy(res) /\ res \in ReservationTables /\ res' \in ReservationTables
      /\ limit \in LimitTables /\ limit' \in LimitTables
  BY DEF LedgerInv, TypeOK, ReservationTables
<1>1. /\ res[r].status = "reserved" /\ res'[r].status = st
      /\ \A q \in Reservations \ {r} : res'[q] = res[q]
      /\ \A l \in Limits :
           res'[r].items[l] = IF res[r].items[l] # None
                              THEN [res[r].items[l] EXCEPT !.actual = actual[l]] ELSE None
  BY <1>0 DEF Close, ReservationTables, WithActuals
<1>2. ASSUME NEW l \in Limits, res[r].items[l] # None
      PROVE  /\ res[r].items[l] \in Items /\ res'[r].items[l] \in Items
             /\ res'[r].items[l].actual = actual[l]
             /\ res'[r].items[l].id = res[r].items[l].id
             /\ res'[r].items[l].reserved = res[r].items[l].reserved
             /\ res'[r].items[l].reset_at = res[r].items[l].reset_at
  <2>1. PICK i \in Items : i = res[r].items[l]
    BY <1>0, <1>2 DEF ReservationTables
  <2>2. PICK a \in Nat : a = actual[l]
    OBVIOUS
  <2>3. res'[r].items[l] = [i EXCEPT !.actual = a]
    BY <1>1, <1>2, <2>1, <2>2
  <2>4. /\ [i EXCEPT !.actual = a] \in Items
        /\ [i EXCEPT !.actual = a].actual = a /\ [i EXCEPT !.actual = a].id = i.id
        /\ [i EXCEPT !.actual = a].reserved = i.reserved
        /\ [i EXCEPT !.actual = a].reset_at = i.reset_at
    BY DEF Items
  <2> QED BY <2>1, <2>2, <2>3, <2>4
<1>3. Tidy(res')
  <2>1. Made(res') = Made(res)
    BY <1>1 DEF Made
  <2>2. ASSUME NEW q \in Reservations, NEW l \in Limits, res'[q].items[l] # None
        PROVE  /\ res'[q].status # "none"
               /\ res'[q].status = "reserved" => res'[q].items[l].actual = -1
    BY <1>0, <1>1, <2>2 DEF Tidy
  <2> QED BY <1>0, <2>1, <2>2 DEF Tidy
<1>4. ASSUME NEW l \in Limits PROVE LimitGood(res', pending, limit'[l], rowId, l)
  <2>0. LimitGood(res, pending, limit[l], rowId, l)
    BY DEF LedgerInv
  <2>1. CASE res[r].items[l] # None
    <3>1. limit[l] # None
      BY <2>0, <2>1 DEF LimitGood, Linked
    <3>2. limit[l] \in LimitRows
      BY <1>0, <3>1 DEF LimitTables
    <3>3. PICK i \in Items : i = res[r].items[l]
      BY <1>2, <2>1
    <3>4. limit'[l] = AdjustReservedUsage(limit[l], i, actual[l] - i.reserved)
      BY <2>1, <3>3 DEF Close, Settled
    <3>5. limit'[l] \in LimitRows
      BY <3>2, <3>4, <1>0, RowsExist DEF LimitTables, AdjustReservedUsage, LimitRows, Items
    <3> QED BY <1>0, <1>1, <1>2, <1>3, <2>0, <2>1, <3>2, <3>3, <3>4, <3>5, SettleGood
  <2>2. CASE res[r].items[l] = None
    <3>1. \A q \in Reservations : /\ res'[q].items[l] = res[q].items[l]
                                  /\ res[q].items[l] # None => res'[q].status = res[q].status
      BY <1>1, <2>2
    <3>2. limit'[l] = limit[l]
      BY <2>2 DEF Close, Settled
    <3> QED BY <1>0, <2>0, <3>1, <3>2, SameGood
  <2> QED BY <2>1, <2>2
<1>5. pending' = pending /\ rowId' = rowId
  BY DEF Close
<1> QED BY <1>3, <1>4, <1>5

\* update_key with reset_usage; limits that are not submitted go with their items.
LEMMA UpdateLedger ==
    ASSUME LedgerInv, TypeOK', NEW S \in SUBSET Limits, NEW submitted \in [S -> MaxValues],
           UpdateCommit(submitted)
    PROVE  /\ Tidy(res')
           /\ \A l \in Limits : LimitGood(res', pending', limit'[l], rowId', l)
<1>0. /\ TypeOK /\ Tidy(res) /\ res \in ReservationTables /\ res' \in ReservationTables
      /\ limit \in LimitTables /\ limit' \in LimitTables
      /\ update.reset /\ rowId \in Nat /\ rowId' \in Nat /\ DOMAIN submitted = S
  BY QuotaAssumption DEF LedgerInv, TypeOK, ReservationTables, UpdateCommit
<1>1. \A q \in Reservations :
        /\ res'[q].status = res[q].status
        /\ \A l \in Limits : res'[q].items[l] = IF l \in S THEN res[q].items[l] ELSE None
  BY <1>0 DEF UpdateCommit, ReservationTables
<1>2. Tidy(res')
  <2>1. Made(res') = Made(res)
    BY <1>1 DEF Made
  <2>2. ASSUME NEW q \in Reservations, NEW l \in Limits, res'[q].items[l] # None
        PROVE  /\ res'[q].status # "none"
               /\ res'[q].status = "reserved" => res'[q].items[l].actual = -1
    BY <1>0, <1>1, <2>2 DEF Tidy
  <2> QED BY <1>0, <2>1, <2>2 DEF Tidy
<1>3. rowId <= rowId' /\ (\A l \in S : limit[l] = None => rowId' = rowId + 1)
  BY <1>0 DEF UpdateCommit, Exists
<1>4. pending' = pending
  BY DEF UpdateCommit
<1>5. ASSUME NEW l \in Limits PROVE LimitGood(res', pending, limit'[l], rowId', l)
  <2>0. LimitGood(res, pending, limit[l], rowId, l)
    BY DEF LedgerInv
  <2>n. \A r \in Reservations : pending[r] # None /\ pending[r][l] # None =>
            /\ pending[r][l].id \in Nat /\ pending[r][l].id <= rowId /\ pending[r][l].id <= rowId'
    <3>1. \A r \in Reservations : pending[r] # None /\ pending[r][l] # None =>
            pending[r][l].id \in Nat
      BY <1>0, QuotaAssumption DEF TypeOK, LimitTables, LimitRows
    <3> QED BY <1>0, <1>3, <2>0, <3>1 DEF LimitGood, Seen
  <2>1. CASE l \in S
    <3>1. limit'[l] = SubmittedRow(l, submitted[l])
      BY <1>0, <2>1 DEF UpdateCommit
    <3>2. /\ limit'[l].cur = 0 /\ limit'[l].reset_at = NextLimitReset(update.at)
          /\ limit'[l].id = IF Exists(limit[l]) THEN limit[l].id ELSE rowId + 1
      BY <1>0, <3>1 DEF SubmittedRow
    <3>3. limit'[l] \in LimitRows
      BY <1>0, <2>1, <3>1, SubmittedTyped
    <3>4. CASE limit[l] # None
      <4>1. limit[l] \in LimitRows /\ limit[l].id \in Nat
        BY <1>0, <3>4, QuotaAssumption DEF LimitTables, LimitRows
      <4>2. \A t \in ResetTokens(l) : (limit'[l].reset_at - t) % Window # 0
        BY <1>0, <2>1, <3>2, <3>4 DEF UpdateCommit, FreshInstant, Exists
      <4>3. limit'[l].id = limit[l].id /\ limit[l].id <= rowId'
        BY <1>0, <1>3, <2>0, <3>2, <3>4, <4>1 DEF Exists, LimitGood
      <4>4. \A r \in Reservations : res'[r].items[l] # None =>
              /\ res'[r].items[l].id = limit'[l].id
              /\ (limit'[l].reset_at - res'[r].items[l].reset_at) % Window # 0
        BY <1>1, <2>0, <2>1, <4>2, <4>3 DEF LimitGood, Linked, ResetTokens
      <4>5. \A r \in Reservations : pending[r] # None /\ pending[r][l] # None =>
              (limit'[l].reset_at - pending[r][l].reset_at) % Window # 0
        BY <4>2 DEF ResetTokens, Exists
      <4> QED BY <2>n, <3>2, <3>3, <4>3, <4>4, <4>5, FreshGood
    <3>5. CASE limit[l] = None
      <4>1. limit'[l].id = rowId + 1 /\ rowId' = rowId + 1
        BY <1>3, <2>1, <3>2, <3>5 DEF Exists
      <4>2. \A r \in Reservations : res'[r].items[l] = None
        BY <1>1, <2>0, <2>1, <3>5 DEF LimitGood, Linked
      <4>3. \A r \in Reservations : pending[r] # None /\ pending[r][l] # None =>
              /\ pending[r][l].id <= rowId' /\ pending[r][l].id # limit'[l].id
        BY <1>0, <2>n, <4>1
      <4>4. limit'[l].id <= rowId'
        BY <1>0, <4>1
      <4> QED BY <3>2, <3>3, <4>2, <4>3, <4>4, FreshGood
    <3> QED BY <3>4, <3>5
  <2>2. CASE l \notin S
    <3>1. limit'[l] = None /\ \A r \in Reservations : res'[r].items[l] = None
      BY <1>0, <1>1, <2>2 DEF UpdateCommit
    <3> QED BY <2>n, <3>1 DEF LimitGood, Linked, Seen
  <2> QED BY <2>1, <2>2
<1> QED BY <1>2, <1>4, <1>5

LEMMA LedgerInit == Init => LedgerInv
<1> SUFFICES ASSUME Init PROVE LedgerInv
  OBVIOUS
<1>1. TypeOK /\ AdmissionFresh /\ update = None
  BY InitTyped DEF Init, AdmissionFresh
<1>2. \A r \in Reservations : res[r].status = "none" /\ \A l \in Limits : res[r].items[l] = None
  BY DEF Init, NoItems
<1>3. Tidy(res)
  <2>1. Made(res) = {}
    BY <1>2 DEF Made
  <2> QED BY <1>2, <2>1, FS_EmptySet DEF Tidy
<1>4. ASSUME NEW l \in Limits PROVE LimitGood(res, pending, limit[l], rowId, l)
  <2>1. PICK m \in MaxValues : limit[l] = [id |-> 1, max |-> m, cur |-> 0, reset_at |-> Window]
    BY DEF Init
  <2>2. limit[l] \in LimitRows /\ limit[l].cur = 0 /\ limit[l].id = 1 /\ rowId = 1
    BY <2>1, QuotaAssumption DEF LimitRows, Init, Times
  <2>3. \A r \in Reservations : pending[r] = None
    BY DEF Init
  <2> QED BY <1>2, <2>2, <2>3, FreshGood
<1> QED BY <1>1, <1>3, <1>4 DEF LedgerInv

LEMMA LedgerStep == LedgerInv /\ [Next]_vars => LedgerInv'
<1> SUFFICES ASSUME LedgerInv, [Next]_vars PROVE LedgerInv'
  OBVIOUS
<1>0. /\ TypeOK /\ AdmissionFresh /\ Tidy(res) /\ (update # None => update.reset)
      /\ res \in ReservationTables /\ limit \in LimitTables
      /\ \A l \in Limits : LimitGood(res, pending, limit[l], rowId, l)
  BY DEF LedgerInv, TypeOK, ReservationTables
<1>1. [EditNext]_vars
  BY DEF Next, EditNext, UpdateNext
<1>2. TypeOK' /\ AdmissionFresh'
  BY <1>0, <1>1, StepTyped, AdmissionFreshStep
<1>3. res' \in ReservationTables /\ limit' \in LimitTables
  BY <1>2 DEF TypeOK, ReservationTables
<1> DEFINE Kept == /\ Tidy(res')
                   /\ \A l \in Limits : LimitGood(res', pending', limit'[l], rowId', l)
<1>4. ASSUME Kept, update' # None => update'.reset PROVE LedgerInv'
  BY <1>2, <1>4 DEF LedgerInv
<1> HIDE DEF Kept
<1>5. ASSUME res' = res, pending' = pending, limit' = limit, rowId' = rowId PROVE Kept
  BY <1>0, <1>5 DEF Kept
<1>6. ASSUME res' = res, pending' = pending, rowId' = rowId, NEW S \in SUBSET Limits,
             limit' = [l \in Limits |-> IF l \in S /\ Expired(limit[l], now)
                                        THEN ResetRow(limit[l], now) ELSE limit[l]]
      PROVE  Kept
  <2>1. \A l \in Limits : LimitGood(res, pending, limit'[l], rowId, l)
    BY <1>6, ResetStep
  <2> QED BY <1>0, <1>6, <2>1 DEF Kept
<1>7. ASSUME NEW r \in Reservations, EnforceRead(r) PROVE LedgerInv'
  <2>1. /\ res' = res /\ rowId' = rowId /\ update' = update
        /\ limit' = [l \in Limits |-> IF l \in Limits /\ Expired(limit[l], now)
                                      THEN ResetRow(limit[l], now) ELSE limit[l]]
        /\ \A q \in Reservations : pending'[q] = IF q = r THEN limit' ELSE pending[q]
    BY <1>0, <1>7 DEF EnforceRead, LazyResetExpiredLimits, TypeOK
  <2>2. \A l \in Limits : LimitGood(res, pending, limit'[l], rowId, l)
    BY <2>1, ResetStep
  <2>3. ASSUME NEW l \in Limits PROVE LimitGood(res, pending', limit'[l], rowId, l)
    <3>1. \A q \in Reservations : pending'[q] = IF q = r THEN limit' ELSE pending[q]
      BY <2>1
    <3>2. LimitGood(res, pending, limit'[l], rowId, l)
      BY <2>2
    <3> QED BY ONLY <1>3, <3>1, <3>2, SeenAdd
  <2> QED BY <1>0, <1>4, <2>1, <2>3 DEF Kept
<1>8. ASSUME NEW r \in Reservations, NEW b \in [Limits -> Budgets], EnforceCommit(r, b)
      PROVE  LedgerInv'
  BY <1>0, <1>2, <1>4, <1>8, CommitLedger DEF Kept, EnforceCommit
<1>9. ASSUME NEW r \in Reservations, NEW b \in [Limits -> Budgets], EnforceReject(r, b)
      PROVE  LedgerInv'
  <2>1. /\ res' = res /\ rowId' = rowId /\ update' = update /\ limit' = limit
        /\ \A q \in Reservations : pending'[q] = None \/ pending'[q] = pending[q]
    BY <1>0, <1>9 DEF EnforceReject, TypeOK
  <2>2. \A l \in Limits : LimitGood(res, pending', limit[l], rowId, l)
    BY <1>0, <2>1, SeenDrop
  <2> QED BY <1>0, <1>4, <2>1, <2>2 DEF Kept
<1>10. ASSUME NEW r \in Reservations, NEW st \in {"finalized", "failed", "released"},
              NEW a \in [Limits -> Nat], Close(r, st, a)
       PROVE  LedgerInv'
  BY <1>0, <1>2, <1>4, <1>10, CloseLedger DEF Kept, Close
<1>11. ASSUME NEW r \in Reservations, TouchUsageReservation(r) PROVE LedgerInv'
  <2>1. /\ limit' = limit /\ pending' = pending /\ rowId' = rowId /\ update' = update
        /\ \A q \in Reservations : res'[q].status = res[q].status /\ res'[q].items = res[q].items
    BY <1>0, <1>11 DEF TouchUsageReservation, ReservationTables
  <2>2. Tidy(res')
    <3>1. Made(res') = Made(res)
      BY <2>1 DEF Made
    <3> QED BY <1>0, <2>1, <3>1 DEF Tidy
  <2>3. ASSUME NEW l \in Limits PROVE LimitGood(res', pending', limit'[l], rowId', l)
    <3>1. \A q \in Reservations : /\ res'[q].items[l] = res[q].items[l]
                                  /\ res[q].items[l] # None => res'[q].status = res[q].status
      BY <2>1
    <3>2. LimitGood(res', pending, limit[l], rowId, l)
      BY <1>0, <1>3, <3>1, SameGood
    <3> QED BY <2>1, <3>2
  <2> QED BY <1>0, <1>4, <2>1, <2>2, <2>3 DEF Kept
<1>12. ASSUME NEW r \in Reservations, RequestDies(r) PROVE LedgerInv'
  BY <1>0, <1>4, <1>5, <1>12 DEF RequestDies
<1>13. CASE ValidateKey
  <2>1. limit' = [l \in Limits |-> IF l \in Limits /\ Expired(limit[l], now)
                                   THEN ResetRow(limit[l], now) ELSE limit[l]]
    BY <1>13 DEF ValidateKey, LazyResetExpiredLimits
  <2> QED BY <1>0, <1>4, <1>6, <1>13, <2>1 DEF ValidateKey
<1>14. ASSUME NEW l \in Limits, ResetExpiredLimit(l) PROVE LedgerInv'
  <2>1. limit' = [k \in Limits |-> IF k \in {l} /\ Expired(limit[k], now)
                                   THEN ResetRow(limit[k], now) ELSE limit[k]]
    BY <1>0, <1>14 DEF ResetExpiredLimit, LimitTables
  <2>2. res' = res /\ pending' = pending /\ rowId' = rowId /\ update' = update
    BY <1>14 DEF ResetExpiredLimit
  <2>3. Kept
    BY <1>6, <2>1, <2>2, {l} \in SUBSET Limits
  <2> QED BY <1>0, <1>4, <2>2, <2>3
<1>15. CASE DeleteKey
  <2>1. /\ pending' = pending /\ rowId' = rowId /\ update' = update
        /\ \A l \in Limits : limit'[l] = None
        /\ \A q \in Reservations : /\ res'[q].status = "none"
                                   /\ \A l \in Limits : res'[q].items[l] = None
    BY <1>15 DEF DeleteKey, NoItems
  <2>2. Tidy(res')
    <3>1. Made(res') = {}
      BY <2>1 DEF Made
    <3> QED BY <2>1, <3>1, FS_EmptySet DEF Tidy
  <2>3. \A l \in Limits : LimitGood(res', pending', limit'[l], rowId', l)
    BY <1>0, <2>1 DEF LimitGood, Linked, Seen
  <2> QED BY <1>0, <1>4, <2>1, <2>2, <2>3 DEF Kept
<1>16. CASE Tick
  BY <1>0, <1>4, <1>5, <1>16 DEF Tick
<1>17. CASE UpdateRead(TRUE)
  BY <1>0, <1>4, <1>5, <1>17 DEF UpdateRead
<1>18. ASSUME NEW S \in SUBSET Limits, NEW submitted \in [S -> MaxValues],
              UpdateCommit(submitted)
       PROVE  LedgerInv'
  BY <1>0, <1>2, <1>4, <1>18, UpdateLedger DEF Kept, UpdateCommit
<1>19. CASE UpdateFails
  BY <1>0, <1>4, <1>5, <1>19 DEF UpdateFails
<1>20. CASE UNCHANGED vars
  BY <1>0, <1>4, <1>5, <1>20 DEF vars
<1>21. ASSUME NEW r \in Reservations, RequestNext(r) \/ ReleaseStaleUsageReservation(r)
       PROVE  LedgerInv'
  <2>1. Nothing \in [Limits -> Nat] /\ [Limits -> Actuals] \subseteq [Limits -> Nat]
    BY QuotaAssumption DEF Nothing
  <2> QED
    BY <1>7, <1>8, <1>9, <1>10, <1>11, <1>12, <1>21, <2>1
       DEF RequestNext, SettleUsageReservation, ReleaseUsageReservation,
           ReleaseStaleUsageReservation
<1> QED
  BY <1>13, <1>14, <1>15, <1>16, <1>17, <1>18, <1>19, <1>20, <1>21
     DEF Next, TrafficNext, UpdateNext

LEMMA LedgerAlways == Spec => []LedgerInv
  BY LedgerInit, LedgerStep, PTL DEF Spec

\* The counter of every limit is exactly what the reservation items of its
\* current window add up to, for any number of requests, limits and resets:
\* no charge is lost, no refund is applied twice or to a later window
\* (try_reserve_usage, adjust_reserved_usage, reset_expired_limits).
THEOREM LedgerBalances == Spec => []LedgerMatchesItems
<1>1. LedgerInv => LedgerMatchesItems
  <2> SUFFICES ASSUME LedgerInv, NEW l \in Limits, limit[l] # None
               PROVE  limit[l].cur = MapThenSumSet(LAMBDA r : Charge(res[r].items[l]), ChargedTo(l))
    BY DEF LedgerMatchesItems, Exists
  <2>1. res \in ReservationTables /\ Tidy(res) /\ Balanced(res, limit[l], l)
    BY DEF LedgerInv, TypeOK, ReservationTables, LimitGood
  <2>2. ChargedTo(l) = Charged(res, limit[l], l)
    BY DEF ChargedTo, Charged
  <2>3. IsFiniteSet(ChargedTo(l))
    BY <2>1, <2>2, ChargedFacts
  <2> QED BY <2>1, <2>2, <2>3, ChargesAreSum DEF Balanced
<1> QED BY <1>1, LedgerAlways, PTL

\* What is reserved and not yet settled never exceeds the largest threshold,
\* however admissions race: the conditional UPDATE of try_reserve_usage is
\* enough, although the budget was computed from an earlier read.
THEOREM NeverOvercommitted == Spec => []NoOvercommit
<1>1. LedgerInv => NoOvercommit
  <2> SUFFICES ASSUME LedgerInv, NEW l \in Limits, limit[l] # None
               PROVE  MapThenSumSet(LAMBDA r : res[r].items[l].reserved,
                                    {r \in ChargedTo(l) : res[r].status = "reserved"})
                        <= Max(MaxValues)
    BY DEF NoOvercommit, Exists
  <2>1. res \in ReservationTables /\ Tidy(res) /\ Bounded(res, limit[l], l)
    BY DEF LedgerInv, TypeOK, ReservationTables, LimitGood
  <2>2. {r \in ChargedTo(l) : res[r].status = "reserved"} = Outstanding(res, limit[l], l)
    BY DEF ChargedTo, Charged, Outstanding
  <2>3. IsFiniteSet(Outstanding(res, limit[l], l))
    BY <2>1, ChargedFacts
  <2>4. Outstanding(res, limit[l], l) \subseteq Reservations
    BY DEF Outstanding, Charged
  <2> QED BY <2>1, <2>2, <2>3, <2>4, OutstandingIsSum DEF Bounded
<1> QED BY <1>1, LedgerAlways, PTL

=============================================================================
