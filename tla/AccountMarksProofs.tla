------------------------- MODULE AccountMarksProofs -------------------------
(***************************************************************************)
(* Proofs about AccountMarks: its type invariant, that the balancer leaves *)
(* alone the status that an operator or the token exchange has set, that   *)
(* it lifts a limit in time and not before, and that selections respect    *)
(* the exclusion of an error rule for as long as it is kept.               *)
(***************************************************************************)
EXTENDS AccountMarks, TLAPS

-----------------------------------------------------------------------------
(* The inductive invariants *)

\* A row that says "limited" says since when and until when.
Stamped(rw) == rw.status \in Limited => rw.blocked_at # 0 /\ rw.reset_at # 0

\* A limit of this row may be lifted at time t, where sh is when a monthly
\* sample last showed quota left.
Ends(t, sh, rw) == t + Grace >= RetryAt(rw) \/ MonthlyLeft(rw, sh)

\* What a state may say that was built from this row: it is limited only if the
\* row is, until the retry time of the row; and it has forgotten that limit only
\* if the limit may be lifted.
FromRow(t, sh, rw, s) ==
    /\ s.status \in Limited => /\ rw.status \in Limited /\ Stamped(s)
                               /\ s.reset_at = RetryAt(rw)
    /\ rw.status \in Limited /\ s.status = "active" => Ends(t, sh, rw)

\* What request r carries: rows of its provider that may be selected, states
\* that follow from them, the exclusions that stood when it built them, and the
\* copy of a row that looked active.
Carries(t, sh, r, q) ==
    /\ q.snapshot.status = "active"
    /\ \A a \in Accounts : /\ q.rows[a].status \notin {"deactivated", "paused"}
                           /\ Stamped(q.rows[a])
                           /\ a \notin q.scope => q.rows[a].status = "active"
                           /\ a \in q.scope => ProviderOf[a] = Asks[r]
                           /\ a \in q.left => MonthlyLeft(q.rows[a], sh[a])
    /\ q.pc \in {"sticky", "persist"} =>
         \A a \in Accounts : FromRow(t, sh[a], q.rows[a], q.states[a])
    /\ q.pc = "sticky" =>
         /\ r \in StickyRequests
         /\ \A a \in q.scope : t >= q.barred[a] \/ q.states[a].rule_until >= q.barred[a]
    /\ q.pc \in {"held", "marking", "recording"} => q.pick \in Accounts
    /\ q.pc \in {"marking", "recording"} => Stamped(q.states[q.pick])

RowInv == \A a \in Accounts : /\ Stamped(row[a])
                              /\ sample[a] <= shown[a] /\ shown[a] <= now
ReqInv == \A r \in Requests : Carries(now, shown, r, req[r])

\* An exclusion that has not run out is in the runtime.
RuleKept == \A a \in Accounts : now < excluded[a] => runtime[a].rule_until >= excluded[a]

Inv == TypeOK /\ RowInv /\ ReqInv /\ RuleKept

-----------------------------------------------------------------------------
(* The operators on rows, runtimes and states *)

LEMMA LimitedStatuses == "active" \notin Limited /\ "active" \in Statuses
BY DEF Limited, Statuses

LEMMA BoundedType ==
    ASSUME NEW reset \in Nat, NEW blocked \in Nat
    PROVE  /\ BoundedRetryAt(reset, blocked) \in Nat
           /\ blocked # 0 => BoundedRetryAt(reset, blocked) # 0
BY MarkAssumption DEF BoundedRetryAt

LEMMA OrType ==
    ASSUME NEW x \in Nat, NEW y \in Nat
    PROVE  Or(x, y) \in Nat /\ (x # 0 => Or(x, y) = x)
BY DEF Or

LEMMA RetryType ==
    ASSUME NEW rw \in Rows
    PROVE  /\ RetryAt(rw) \in Nat
           /\ rw.status \in Limited /\ Stamped(rw) => RetryAt(rw) # 0
<1>1. rw.reset_at \in Nat /\ rw.blocked_at \in Nat
  BY DEF Rows
<1> QED BY <1>1, BoundedType DEF RetryAt, Stamped

\* What the two kinds of rows say before a block that has passed is lifted.
LEMMA MonthlyStateFacts ==
    ASSUME NEW rw \in Rows, NEW rt \in Runtimes, NEW left \in BOOLEAN, now \in Nat
    PROVE  LET m == MonthlyState(rw, rt, left)
           IN  /\ m.status \in Statuses /\ m.reset_at \in Nat /\ m.cooldown_until \in Nat
               /\ m.status \in Limited => rw.status \in Limited
               /\ rw.status \in Limited /\ Stamped(rw) =>
                    \/ m.status = "active" /\ (left \/ rw.reset_at <= now)
                    \/ m.status = rw.status /\ m.reset_at = rw.reset_at
<1> DEFINE reset == Or(rw.reset_at, rt.reset_at)
           m == MonthlyState(rw, rt, left)
<1>1. /\ rw.reset_at \in Nat /\ rt.reset_at \in Nat /\ rw.status \in Statuses
      /\ rt.cooldown_until \in Nat
  BY DEF Rows, Runtimes
<1>2. reset \in Nat /\ (rw.reset_at # 0 => reset = rw.reset_at)
  BY <1>1, OrType
<1>3. \/ /\ left \/ (reset # 0 /\ reset <= now)
         /\ m = [status |-> "active", reset_at |-> 0, cooldown_until |-> 0]
      \/ m = [status |-> rw.status, reset_at |-> reset, cooldown_until |-> rt.cooldown_until]
  BY DEF MonthlyState
<1> HIDE DEF reset, m
<1>4. "active" \in Statuses /\ "active" \notin Limited
  BY DEF Statuses, Limited
<1>5. m.status \in Statuses /\ m.reset_at \in Nat /\ m.cooldown_until \in Nat
  BY <1>1, <1>2, <1>3, <1>4
<1>6. m.status \in Limited => rw.status \in Limited
  BY <1>3, <1>4
<1>7. rw.status \in Limited /\ Stamped(rw) =>
        \/ m.status = "active" /\ (left \/ rw.reset_at <= now)
        \/ m.status = rw.status /\ m.reset_at = rw.reset_at
  BY <1>2, <1>3 DEF Stamped
<1> QED BY <1>5, <1>6, <1>7 DEF m

LEMMA BoundedStateFacts ==
    ASSUME NEW rw \in Rows, NEW rt \in Runtimes
    PROVE  LET b == BoundedState(rw, rt)
           IN  /\ b.status \in Statuses /\ b.reset_at \in Nat /\ b.cooldown_until \in Nat
               /\ b.status \in Limited => rw.status \in Limited
               /\ rw.status \in Limited /\ Stamped(rw) =>
                    /\ b.status = rw.status
                    /\ b.reset_at = BoundedRetryAt(rw.reset_at, rw.blocked_at)
<1> DEFINE seed == IF rw.status = "exchange_uncertain" THEN "active" ELSE rw.status
           blocked == Or(rw.blocked_at, rt.blocked_at)
           raw == Or(rw.reset_at, rt.reset_at)
           reset == IF seed \in Limited /\ blocked # 0 THEN BoundedRetryAt(raw, blocked) ELSE raw
           cool == IF rt.cooldown_until # 0 /\ blocked # 0
                   THEN BoundedRetryAt(rt.cooldown_until, blocked) ELSE rt.cooldown_until
           b == BoundedState(rw, rt)
<1>1. /\ seed \in Statuses /\ blocked \in Nat /\ raw \in Nat
      /\ rw.blocked_at # 0 => blocked = rw.blocked_at
      /\ rw.reset_at # 0 => raw = rw.reset_at
  BY OrType DEF Rows, Runtimes, Statuses
<1>2. reset \in Nat /\ cool \in Nat
  BY <1>1, BoundedType DEF Runtimes
<1>3. b = [status |-> seed, reset_at |-> reset, cooldown_until |-> cool]
  BY DEF BoundedState
<1>4. /\ rw.status \in Limited => seed = rw.status
      /\ seed \in Limited => rw.status = seed
  BY DEF Limited
<1>5. ASSUME rw.status \in Limited, Stamped(rw)
      PROVE  reset = BoundedRetryAt(rw.reset_at, rw.blocked_at)
  <2>1. blocked = rw.blocked_at /\ raw = rw.reset_at /\ blocked # 0
    BY <1>1, <1>5 DEF Stamped
  <2>2. seed \in Limited
    BY <1>4, <1>5
  <2> QED BY <2>1, <2>2
<1> HIDE DEF seed, reset, cool, b
<1>6. b.status = seed /\ b.reset_at = reset /\ b.cooldown_until = cool
  BY <1>3
<1> QED BY <1>1, <1>2, <1>4, <1>5, <1>6 DEF b

\* A selection's state: typed, and what FromRow and the error rule need.
LEMMA StateFromAccountFacts ==
    ASSUME NEW rw \in Rows, NEW rt \in Runtimes, NEW left \in BOOLEAN, NEW sh, now \in Nat,
           Stamped(rw), left => MonthlyLeft(rw, sh)
    PROVE  /\ StateFromAccount(rw, rt, left) \in States
           /\ FromRow(now, sh, rw, StateFromAccount(rw, rt, left))
           /\ StateFromAccount(rw, rt, left).rule_until = rt.rule_until
<1> DEFINE seed == IF rw.monthly THEN MonthlyState(rw, rt, left) ELSE BoundedState(rw, rt)
           blocked == Or(rw.blocked_at, rt.blocked_at)
           lifted == seed.status \in Limited /\ (blocked = 0 \/ seed.reset_at <= now)
           st == IF lifted THEN "active" ELSE seed.status
           rs == IF lifted THEN 0 ELSE seed.reset_at
           bl == IF st \in Limited THEN blocked ELSE 0
           mo == rw.monthly /\ st # "active"
<1>1. /\ blocked \in Nat /\ rw.monthly \in BOOLEAN
      /\ rw.blocked_at # 0 => blocked = rw.blocked_at
  BY OrType DEF Rows, Runtimes
<1>2. /\ seed.status \in Statuses /\ seed.reset_at \in Nat /\ seed.cooldown_until \in Nat
      /\ seed.status \in Limited => rw.status \in Limited
      /\ rw.status \in Limited =>
           \/ seed.status = "active" /\ (left \/ RetryAt(rw) <= now)
           \/ seed.status = rw.status /\ seed.reset_at = RetryAt(rw)
  <2>1. CASE rw.monthly
    <3>1. seed = MonthlyState(rw, rt, left) /\ RetryAt(rw) = rw.reset_at
      BY <2>1 DEF RetryAt
    <3> HIDE DEF seed
    <3> QED BY <3>1, MonthlyStateFacts
  <2>2. CASE ~rw.monthly
    <3>1. seed = BoundedState(rw, rt) /\ RetryAt(rw) = BoundedRetryAt(rw.reset_at, rw.blocked_at)
      BY <2>2 DEF RetryAt
    <3> HIDE DEF seed
    <3> QED BY <3>1, BoundedStateFacts
  <2> QED BY <2>1, <2>2
<1>3. StateFromAccount(rw, rt, left) =
        [status |-> st, reset_at |-> rs, blocked_at |-> bl, monthly |-> mo,
         cooldown_until |-> seed.cooldown_until, rule_until |-> rt.rule_until,
         error_count |-> rt.error_count, last_error_at |-> rt.last_error_at]
  BY DEF StateFromAccount
<1> HIDE DEF seed, blocked
<1>4. st \in Statuses /\ rs \in Nat /\ bl \in Nat /\ mo \in BOOLEAN
  BY <1>1, <1>2, LimitedStatuses
<1>5. RetryAt(rw) \in Nat /\ (rw.status \in Limited => RetryAt(rw) # 0 /\ rw.blocked_at # 0)
  BY RetryType DEF Stamped
<1>6. ASSUME st \in Limited
      PROVE  rw.status \in Limited /\ bl # 0 /\ rs # 0 /\ rs = RetryAt(rw)
  <2>1. ~lifted /\ st = seed.status /\ rs = seed.reset_at /\ bl = blocked
    BY <1>6, LimitedStatuses
  <2> QED BY <1>1, <1>2, <1>5, <1>6, <2>1, LimitedStatuses
<1>7. ASSUME rw.status \in Limited, st = "active"
      PROVE  Ends(now, sh, rw)
  <2>1. left \/ RetryAt(rw) <= now
    <3>1. CASE lifted
      BY <1>1, <1>2, <1>5, <1>7, <3>1, LimitedStatuses
    <3>2. CASE ~lifted
      BY <1>2, <1>7, <3>2, LimitedStatuses
    <3> QED BY <3>1, <3>2
  <2>2. RetryAt(rw) <= now => now + Grace >= RetryAt(rw)
    BY <1>5, MarkAssumption
  <2> QED BY <2>1, <2>2 DEF Ends
<1> HIDE DEF st, rs, bl, mo
<1>8. rt.rule_until \in Nat /\ rt.error_count \in Nat /\ rt.last_error_at \in Nat
  BY DEF Runtimes
<1>9. StateFromAccount(rw, rt, left) \in States
  BY <1>2, <1>3, <1>4, <1>8 DEF States
<1>10. /\ StateFromAccount(rw, rt, left).status = st /\ StateFromAccount(rw, rt, left).reset_at = rs
       /\ StateFromAccount(rw, rt, left).blocked_at = bl
       /\ StateFromAccount(rw, rt, left).rule_until = rt.rule_until
  BY <1>3
<1> QED BY <1>6, <1>7, <1>9, <1>10 DEF FromRow, Stamped

LEMMA StateForType ==
    ASSUME NEW rw \in Rows, NEW rt \in Runtimes
    PROVE  /\ StateFor(rw, rt) \in States
           /\ StateFor(rw, rt).status = rw.status
           /\ StateFor(rw, rt).rule_until = rt.rule_until
           /\ StateFor(rw, rt).error_count = rt.error_count
BY OrType DEF StateFor, Rows, Runtimes, States

LEMMA SyncType ==
    ASSUME NEW s \in States
    PROVE  /\ SyncRuntimeState(s) \in Runtimes
           /\ SyncRuntimeState(s).rule_until = s.rule_until
BY DEF SyncRuntimeState, States, Runtimes

LEMMA AsRowFacts ==
    ASSUME NEW s \in States, NEW read \in Rows
    PROVE  /\ AsRow(s, read) \in Rows
           /\ AsRow(s, read).status = IF read.status = "exchange_uncertain"
                                      THEN read.status ELSE s.status
           /\ AsRow(s, read).reset_at = s.reset_at
           /\ AsRow(s, read).blocked_at = s.blocked_at
BY DEF AsRow, States, Rows, Statuses

LEMMA BlankTypes ==
    /\ NoRow \in Rows /\ RuntimeState \in Runtimes /\ BlankState \in States
    /\ NoRow.status = "active" /\ BlankState.status = "active"
    /\ Stamped(NoRow) /\ Stamped(BlankState)
<1>1. NoRow \in Rows /\ NoRow.status = "active"
  BY DEF NoRow, Rows, Statuses
<1>2. RuntimeState \in Runtimes
  BY DEF RuntimeState, Runtimes
<1>3. BlankState \in States /\ BlankState.status = "active"
  BY <1>1, <1>2, StateForType DEF BlankState
<1> QED BY <1>1, <1>2, <1>3 DEF Stamped, Limited

LEMMA LiftFacts ==
    ASSUME NEW s \in States, NEW t \in Nat
    PROVE  /\ Lift(s, t) \in States
           /\ Lift(s, t).rule_until = s.rule_until
           /\ \/ Lift(s, t) = s
              \/ /\ s.status \in Limited /\ t >= s.reset_at
                 /\ Lift(s, t).status = "active"
<1>1. CASE s.status \in Limited /\ s.reset_at # 0 /\ t >= s.reset_at
  <2>1. "active" \in Statuses
    BY DEF Statuses
  <2> QED BY <1>1, <2>1 DEF Lift, States
<1>2. CASE ~(s.status \in Limited /\ s.reset_at # 0 /\ t >= s.reset_at)
  BY <1>2 DEF Lift
<1> QED BY <1>1, <1>2

LEMMA ExpireFacts ==
    ASSUME NEW s \in States, NEW t \in Nat
    PROVE  /\ Expire(s, t) \in States
           /\ Expire(s, t).status = s.status /\ Expire(s, t).reset_at = s.reset_at
           /\ Expire(s, t).blocked_at = s.blocked_at
           /\ \/ Expire(s, t).rule_until = s.rule_until
              \/ Expire(s, t).rule_until = 0 /\ t >= s.rule_until
<1> DEFINE cooled == s.cooldown_until # 0 /\ t >= s.cooldown_until
           c == IF cooled THEN 0 ELSE s.cooldown_until
           l == IF cooled THEN 0 ELSE s.last_error_at
           n == IF cooled /\ s.blocked_at = 0 THEN 0 ELSE s.error_count
<1>1. c \in Nat /\ l \in Nat /\ n \in Nat
  BY DEF States
<1>2. Expire(s, t) = IF s.rule_until # 0 /\ t < s.rule_until THEN s
        ELSE [s EXCEPT !.rule_until = 0, !.cooldown_until = c,
                       !.last_error_at = l, !.error_count = n]
  BY DEF Expire, States
<1> HIDE DEF c, l, n
<1>3. CASE s.rule_until # 0 /\ t < s.rule_until
  BY <1>2, <1>3
<1>4. CASE ~(s.rule_until # 0 /\ t < s.rule_until)
  <2>1. Expire(s, t) = [s EXCEPT !.rule_until = 0, !.cooldown_until = c,
                                 !.last_error_at = l, !.error_count = n]
    BY <1>2, <1>4
  <2>2. t >= s.rule_until
    BY <1>4 DEF States
  <2>3. Expire(s, t) \in States
    <3>1. PICK u \in States : u = [s EXCEPT !.rule_until = 0, !.cooldown_until = c]
      BY <1>1 DEF States
    <3>2. [u EXCEPT !.last_error_at = l, !.error_count = n] \in States
      BY <1>1 DEF States
    <3>3. Expire(s, t) = [u EXCEPT !.last_error_at = l, !.error_count = n]
      BY <2>1, <3>1 DEF States
    <3> QED BY <3>2, <3>3
  <2>4. /\ Expire(s, t).status = s.status /\ Expire(s, t).reset_at = s.reset_at
        /\ Expire(s, t).blocked_at = s.blocked_at /\ Expire(s, t).rule_until = 0
    BY <2>1 DEF States
  <2> QED BY <2>2, <2>3, <2>4
<1> QED BY <1>3, <1>4

\* Judging keeps what a state says of its limit, or lifts it in time; it drops
\* an error rule only when that has run out.
LEMMA JudgedFacts ==
    ASSUME NEW s \in States, NEW t \in Nat
    PROVE  /\ Judged(s, t) \in States
           /\ \/ /\ Judged(s, t).status = s.status /\ Judged(s, t).reset_at = s.reset_at
                 /\ Judged(s, t).blocked_at = s.blocked_at
              \/ /\ s.status \in Limited /\ t >= s.reset_at
                 /\ Judged(s, t).status = "active"
           /\ \/ Judged(s, t).rule_until = s.rule_until
              \/ Judged(s, t).rule_until = 0 /\ t >= s.rule_until
           /\ Usable(Judged(s, t)) /\ Judged(s, t).rule_until = 0 => t >= s.rule_until
<1> DEFINE l == Lift(s, t)
           e == Expire(l, t)
           n == IF e.error_count >= BackoffAfter /\ e.blocked_at = 0 THEN 0 ELSE e.error_count
           m == IF e.error_count >= BackoffAfter /\ e.blocked_at = 0 THEN 0 ELSE e.last_error_at
           f == [e EXCEPT !.error_count = n, !.last_error_at = m]
<1>1. /\ l \in States /\ l.rule_until = s.rule_until
      /\ \/ l = s
         \/ s.status \in Limited /\ t >= s.reset_at /\ l.status = "active"
  BY LiftFacts
<1>2. /\ e \in States
      /\ e.status = l.status /\ e.reset_at = l.reset_at /\ e.blocked_at = l.blocked_at
      /\ \/ e.rule_until = l.rule_until
         \/ e.rule_until = 0 /\ t >= l.rule_until
  BY <1>1, ExpireFacts
<1>3. (Judged(s, t) = l /\ ~Usable(l)) \/ Judged(s, t) = e \/ Judged(s, t) = f
  BY <1>2 DEF Judged, States
<1>4. n \in Nat /\ m \in Nat
  BY <1>2 DEF States
<1> HIDE DEF l, e, n, m
<1>5. /\ f \in States /\ f.status = e.status /\ f.reset_at = e.reset_at
      /\ f.blocked_at = e.blocked_at /\ f.rule_until = e.rule_until
  BY <1>2, <1>4 DEF States
<1> HIDE DEF f
<1>6. s.rule_until \in Nat
  BY DEF States
<1> QED BY <1>1, <1>2, <1>3, <1>5, <1>6

LEMMA PickedFacts ==
    ASSUME NEW states \in [Accounts -> States], NEW pool \in SUBSET Accounts, now \in Nat,
           NEW a \in Pickable(states, pool)
    PROVE  a \in pool /\ Usable(Judged(states[a], now)) /\ Judged(states[a], now).rule_until = 0
BY DEF Pickable, Available, Fallback

\* Judging keeps a state in line with its row.
LEMMA JudgedFromRow ==
    ASSUME NEW rw \in Rows, NEW s \in States, NEW sh, now \in Nat, FromRow(now, sh, rw, s)
    PROVE  FromRow(now, sh, rw, Judged(s, now))
<1> DEFINE j == Judged(s, now)
<1>1. \/ j.status = s.status /\ j.reset_at = s.reset_at /\ j.blocked_at = s.blocked_at
      \/ s.status \in Limited /\ now >= s.reset_at /\ j.status = "active"
  BY JudgedFacts
<1> HIDE DEF j
<1>2. CASE j.status = s.status /\ j.reset_at = s.reset_at /\ j.blocked_at = s.blocked_at
  BY <1>2 DEF FromRow, Stamped, j
<1>3. CASE s.status \in Limited /\ now >= s.reset_at /\ j.status = "active"
  <2>1. Ends(now, sh, rw)
    <3>1. s.reset_at = RetryAt(rw) /\ s.reset_at \in Nat
      BY <1>3 DEF FromRow, States
    <3> QED BY <1>3, <3>1, MarkAssumption DEF Ends
  <2> QED BY <1>3, <2>1, LimitedStatuses DEF FromRow, j
<1> QED BY <1>1, <1>2, <1>3

-----------------------------------------------------------------------------
(* What a request carries *)

LEMMA IdleFacts ==
    /\ Idle \in RequestStates
    /\ \A t \in Nat, r \in Requests, sh \in [Accounts -> Nat] : Carries(t, sh, r, Idle)
    /\ Idle.pc = "idle" /\ Idle.pick = None
<1>1. /\ [a \in Accounts |-> NoRow] \in [Accounts -> Rows]
      /\ [a \in Accounts |-> BlankState] \in [Accounts -> States]
  BY BlankTypes
<1>2. 0 \in 0..MaxAttempts
  BY MarkAssumption
<1>3. Idle \in RequestStates
  BY <1>1, <1>2, BlankTypes DEF Idle, RequestStates, Phases
<1>4. /\ Idle.pc = "idle" /\ Idle.pick = None /\ Idle.snapshot = NoRow
      /\ Idle.left = {} /\ Idle.scope = {}
      /\ \A a \in Accounts : Idle.rows[a] = NoRow
  BY DEF Idle
<1>5. ASSUME NEW t \in Nat, NEW r \in Requests, NEW sh \in [Accounts -> Nat]
      PROVE  Carries(t, sh, r, Idle)
  BY <1>4, BlankTypes DEF Carries
<1> QED BY <1>3, <1>4, <1>5

LEMMA LoadedFacts ==
    ASSUME Inv, NEW r \in Requests, NEW n \in 0..MaxAttempts, NEW tried
    PROVE  /\ Loaded(r, n, tried) \in RequestStates
           /\ Carries(now, shown, r, Loaded(r, n, tried))
           /\ Loaded(r, n, tried).pick = None
<1> DEFINE scope == {a \in Accounts \ tried : /\ ProviderOf[a] = Asks[r]
                                              /\ row[a].status \notin {"deactivated", "paused"}}
           rows == [a \in Accounts |-> IF a \in scope THEN row[a] ELSE NoRow]
           left == {a \in scope : MonthlyLeft(row[a], sample[a])}
           q == Loaded(r, n, tried)
<1>1. scope \in SUBSET Accounts /\ left \in SUBSET Accounts
  OBVIOUS
<1>2. rows \in [Accounts -> Rows]
  BY BlankTypes DEF Inv, TypeOK
<1>3. \A a \in Accounts : /\ rows[a].status \notin {"deactivated", "paused"}
                          /\ Stamped(rows[a])
                          /\ a \notin scope => rows[a].status = "active"
                          /\ a \in scope => ProviderOf[a] = Asks[r]
  BY BlankTypes DEF Inv, RowInv
<1>a. ASSUME NEW a \in Accounts, a \in left
      PROVE  MonthlyLeft(rows[a], shown[a])
  <2>1. rows[a] = row[a] /\ MonthlyLeft(row[a], sample[a])
    BY <1>a
  <2>2. /\ sample[a] \in Nat /\ shown[a] \in Nat /\ sample[a] <= shown[a]
        /\ row[a].blocked_at \in Nat
    BY DEF Inv, TypeOK, RowInv, Rows
  <2> QED BY <2>1, <2>2 DEF MonthlyLeft
<1>4. q = [Idle EXCEPT !.pc = "loaded", !.attempt = n, !.scope = scope, !.rows = rows,
                       !.left = left]
  BY DEF Loaded
<1> HIDE DEF scope, rows, left, q
<1>5. PICK i \in RequestStates : i = Idle
  BY IdleFacts
<1>6. PICK u \in RequestStates : u = [i EXCEPT !.pc = "loaded", !.attempt = n]
  BY DEF RequestStates, Phases
<1>7. PICK v \in RequestStates : v = [u EXCEPT !.scope = scope, !.rows = rows, !.left = left]
  BY <1>1, <1>2 DEF RequestStates
<1>8. q = v
  BY <1>4, <1>5, <1>6, <1>7 DEF RequestStates
<1>9. /\ q.pc = "loaded" /\ q.scope = scope /\ q.rows = rows /\ q.left = left
      /\ q.snapshot = i.snapshot /\ q.pick = i.pick
  BY <1>6, <1>7, <1>8 DEF RequestStates
<1>10. i.snapshot.status = "active" /\ i.pick = None
  BY <1>5, BlankTypes DEF Idle
<1> QED BY <1>3, <1>a, <1>8, <1>9, <1>10 DEF Carries, q

LEMMA InvalidatedFacts ==
    ASSUME NEW rq \in [Requests -> RequestStates], NEW t \in Nat, NEW sh,
           \A r \in Requests : Carries(t, sh, r, rq[r])
    PROVE  /\ Invalidated(rq) \in [Requests -> RequestStates]
           /\ \A r \in Requests : /\ Carries(t, sh, r, Invalidated(rq)[r])
                                  /\ Invalidated(rq)[r].pick = rq[r].pick
<1>1. ASSUME NEW r \in Requests
      PROVE  /\ Invalidated(rq)[r] \in RequestStates
             /\ Carries(t, sh, r, Invalidated(rq)[r])
             /\ Invalidated(rq)[r].pick = rq[r].pick
  <2>1. PICK q \in RequestStates : q = rq[r]
    OBVIOUS
  <2>2. PICK u \in RequestStates : u = [q EXCEPT !.moved = TRUE]
    BY DEF RequestStates
  <2>3. /\ u.pc = q.pc /\ u.scope = q.scope /\ u.snapshot = q.snapshot /\ u.rows = q.rows
        /\ u.states = q.states /\ u.pick = q.pick /\ u.left = q.left /\ u.barred = q.barred
    BY <2>2 DEF RequestStates
  <2>4. Carries(t, sh, r, q)
    BY <2>1
  <2>5. Carries(t, sh, r, u)
    BY <2>3, <2>4 DEF Carries
  <2> QED BY <2>1, <2>2, <2>3, <2>4, <2>5 DEF Invalidated
<1> QED BY <1>1 DEF Invalidated

-----------------------------------------------------------------------------
(* What every step but an operator's keeps *)

\* A guarded status stays, and a limit is lifted in time.
RowStep ==
    \A a \in Accounts :
        /\ row[a].status \in {"paused", "exchange_uncertain", "deactivated"} =>
             row'[a].status = row[a].status
        /\ row[a].status \in Limited /\ row'[a].status = "active" => Ends(now, shown[a], row[a])

\* What request r may pick.
Obeys(r, a) == IF r \in StickyRequests THEN now + Grace >= req[r].barred[a]
                                       ELSE now >= excluded[a]

\* A selection picks no excluded account.
PickStep ==
    \A r \in Requests :
        req[r].pick = None /\ req'[r].pick # None => Obeys(r, req'[r].pick)

Good == Inv' /\ RowStep /\ PickStep

LEMMA Typed ==
    ASSUME Inv
    PROVE  /\ now \in Nat /\ now # 0
           /\ shown \in [Accounts -> Nat]
           /\ \A a \in Accounts : row[a] \in Rows /\ runtime[a] \in Runtimes
           /\ \A r \in Requests : req[r] \in RequestStates /\ Carries(now, shown, r, req[r])
BY MarkAssumption DEF Inv, TypeOK, ReqInv

LEMMA RowKept ==
    ASSUME Inv, row' = row, sample' = sample, shown' = shown, now' = now \/ now' = now + 1
    PROVE  row' \in [Accounts -> Rows] /\ RowInv' /\ RowStep
<1>1. row' \in [Accounts -> Rows]
  BY DEF Inv, TypeOK
<1>2. ASSUME NEW a \in Accounts
      PROVE  Stamped(row'[a]) /\ sample'[a] <= shown'[a] /\ shown'[a] <= now'
  <2>1. shown[a] \in Nat /\ now \in Nat
    BY Typed
  <2> QED BY <2>1 DEF Inv, RowInv
<1>3. RowInv'
  BY <1>2 DEF RowInv
<1> QED BY <1>1, <1>3, LimitedStatuses DEF RowStep

\* Compare-and-set on a row that was active, or that a selection has read.
LEMMA RowSet ==
    ASSUME Inv, NEW a \in Accounts, NEW read \in Rows, NEW new \in Rows, Stamped(new),
           read.status \notin {"deactivated", "paused"},
           read.status = "exchange_uncertain" => new.status = read.status,
           read.status \in Limited /\ new.status = "active" => Ends(now, shown[a], read),
           UNCHANGED <<now, sample, shown>>,
           row' = IF new = read THEN row ELSE UpdateStatusIfCurrent(a, read, new)
    PROVE  row' \in [Accounts -> Rows] /\ RowInv' /\ RowStep
<1>1. CASE row' = row
  BY <1>1, RowKept
<1>2. CASE row' # row
  <2>1. row[a] = read /\ row' = [row EXCEPT ![a] = new]
    BY <1>2 DEF UpdateStatusIfCurrent
  <2>2. row \in [Accounts -> Rows]
    BY DEF Inv, TypeOK
  <2>3. row' \in [Accounts -> Rows]
    BY <2>1, <2>2
  <2>4. row'[a] = new /\ \A b \in Accounts \ {a} : row'[b] = row[b]
    BY <2>1, <2>2
  <2>5. RowInv'
    BY <2>4 DEF Inv, RowInv
  <2>6. RowStep
    BY <2>1, <2>4, LimitedStatuses DEF RowStep
  <2> QED BY <2>3, <2>5, <2>6
<1> QED BY <1>1, <1>2

LEMMA ReqMoved ==
    ASSUME Inv, now' = now, shown' = shown, NEW r \in Requests, NEW q \in RequestStates,
           Carries(now, shown, r, q),
           req' = [req EXCEPT ![r] = q]
    PROVE  /\ req' \in [Requests -> RequestStates] /\ ReqInv'
           /\ q.pick = None \/ req[r].pick # None \/ Obeys(r, q.pick) => PickStep
<1>1. req \in [Requests -> RequestStates] /\ \A p \in Requests : Carries(now, shown, p, req[p])
  BY DEF Inv, TypeOK, ReqInv
<1>2. req' \in [Requests -> RequestStates]
  BY <1>1
<1>3. req'[r] = q /\ \A p \in Requests \ {r} : req'[p] = req[p]
  BY <1>1
<1>4. ReqInv'
  BY <1>1, <1>3 DEF ReqInv
<1>5. q.pick = None \/ req[r].pick # None \/ Obeys(r, q.pick) => PickStep
  BY <1>3 DEF PickStep
<1> QED BY <1>2, <1>4, <1>5

LEMMA ReqInvalidated ==
    ASSUME Inv, now' = now, shown' = shown, NEW rq \in [Requests -> RequestStates],
           \A r \in Requests : /\ Carries(now, shown, r, rq[r])
                               /\ rq[r].pick \in {None, req[r].pick},
           req' = Invalidated(rq)
    PROVE  req' \in [Requests -> RequestStates] /\ ReqInv' /\ PickStep
<1>1. /\ req' \in [Requests -> RequestStates]
      /\ \A r \in Requests : Carries(now, shown, r, req'[r]) /\ req'[r].pick = rq[r].pick
  BY InvalidatedFacts, Typed
<1>2. ReqInv'
  BY <1>1 DEF ReqInv
<1> QED BY <1>1, <1>2 DEF PickStep

\* An exclusion that is still on survives what drops only rules that ran out.
LEMMA RuleSurvives ==
    ASSUME Inv, now' = now,
           \A a \in Accounts :
             \/ excluded'[a] = 0
             \/ /\ excluded'[a] = excluded[a]
                /\ \/ runtime'[a].rule_until = runtime[a].rule_until
                   \/ now >= runtime[a].rule_until
    PROVE  RuleKept'
<1>1. now \in Nat /\ excluded \in [Accounts -> Nat]
  BY Typed DEF Inv, TypeOK
<1>2. ASSUME NEW a \in Accounts, now' < excluded'[a]
      PROVE  runtime'[a].rule_until >= excluded'[a]
  <2>1. runtime[a].rule_until \in Nat /\ excluded[a] \in Nat
    BY <1>1, Typed DEF Runtimes
  <2>a. /\ excluded'[a] = excluded[a]
        /\ runtime'[a].rule_until = runtime[a].rule_until \/ now >= runtime[a].rule_until
    BY <1>1, <1>2
  <2>2. runtime[a].rule_until >= excluded[a]
    BY <1>2, <2>a DEF Inv, RuleKept
  <2>3. ~(now >= runtime[a].rule_until)
    BY <1>1, <1>2, <2>a, <2>1, <2>2
  <2> QED BY <1>2, <2>a, <2>2, <2>3
<1> QED BY <1>2 DEF RuleKept

LEMMA LoadSelectionInputsGood ==
    ASSUME Inv, NEW r \in Requests, LoadSelectionInputs(r)
    PROVE  Good
<1>1. PICK tried \in SUBSET Accounts : req' = [req EXCEPT ![r] = Loaded(r, 1, tried)]
  BY DEF LoadSelectionInputs
<1>2. UNCHANGED <<now, row, runtime, lock, sample, shown, excluded, events>>
  BY DEF LoadSelectionInputs
<1>3. 1 \in 0..MaxAttempts
  BY MarkAssumption
<1>4. /\ Loaded(r, 1, tried) \in RequestStates /\ Carries(now, shown, r, Loaded(r, 1, tried))
      /\ Loaded(r, 1, tried).pick = None
  BY <1>3, LoadedFacts
<1>5. req' \in [Requests -> RequestStates] /\ ReqInv' /\ PickStep
  BY <1>1, <1>2, <1>4, ReqMoved
<1>6. row' \in [Accounts -> Rows] /\ RowInv' /\ RowStep
  BY <1>2, RowKept
<1>7. TypeOK'
  BY <1>2, <1>5, <1>6 DEF Inv, TypeOK
<1>8. RuleKept'
  BY <1>2 DEF Inv, RuleKept
<1> QED BY <1>5, <1>6, <1>7, <1>8 DEF Good, Inv

-----------------------------------------------------------------------------
(* Selections *)

LEMMA BuiltFacts ==
    ASSUME Inv, NEW r \in Requests, NEW rt \in [Accounts -> Runtimes]
    PROVE  /\ BuildStates(r, rt) \in [Accounts -> States]
           /\ \A a \in Accounts : FromRow(now, shown[a], req[r].rows[a], BuildStates(r, rt)[a])
           /\ \A a \in req[r].scope : BuildStates(r, rt)[a].rule_until = rt[a].rule_until
<1>1. /\ now \in Nat /\ req[r] \in RequestStates /\ req[r].rows \in [Accounts -> Rows]
      /\ req[r].scope \in SUBSET Accounts
      /\ \A a \in Accounts : /\ Stamped(req[r].rows[a])
                             /\ a \notin req[r].scope => req[r].rows[a].status = "active"
                             /\ a \in req[r].left => MonthlyLeft(req[r].rows[a], shown[a])
  BY Typed DEF RequestStates, Carries
<1>2. ASSUME NEW a \in Accounts
      PROVE  LET s == BuildStates(r, rt)[a]
             IN  /\ s \in States /\ FromRow(now, shown[a], req[r].rows[a], s)
                 /\ a \in req[r].scope => s.rule_until = rt[a].rule_until
  <2>1. CASE a \in req[r].scope
    <3>1. PICK left \in BOOLEAN : left = (a \in req[r].left)
      <4>1. (a \in req[r].left) = TRUE \/ (a \in req[r].left) = FALSE
        OBVIOUS
      <4> QED BY <4>1
    <3>2. PICK rw \in Rows : rw = req[r].rows[a]
      BY <1>1
    <3>3. BuildStates(r, rt)[a] = StateFromAccount(rw, rt[a], left)
      BY <2>1, <3>1, <3>2 DEF BuildStates
    <3>4. Stamped(rw) /\ (left => MonthlyLeft(rw, shown[a])) /\ rt[a] \in Runtimes
      BY <1>1, <3>1, <3>2
    <3>5. /\ StateFromAccount(rw, rt[a], left) \in States
          /\ FromRow(now, shown[a], rw, StateFromAccount(rw, rt[a], left))
          /\ StateFromAccount(rw, rt[a], left).rule_until = rt[a].rule_until
      BY <1>1, <3>4, StateFromAccountFacts
    <3> QED BY <3>2, <3>3, <3>5
  <2>2. CASE a \notin req[r].scope
    <3>1. BuildStates(r, rt)[a] = BlankState
      BY <2>2 DEF BuildStates
    <3>2. BlankState \in States /\ BlankState.status = "active"
      BY BlankTypes
    <3>3. req[r].rows[a].status \in Limited => FALSE
      BY <1>1, <2>2, LimitedStatuses
    <3> QED BY <2>2, <3>1, <3>2, <3>3, LimitedStatuses DEF FromRow
  <2> QED BY <2>1, <2>2
<1>3. BuildStates(r, rt) \in [Accounts -> States]
  BY <1>2 DEF BuildStates
<1> QED BY <1>1, <1>2, <1>3

LEMMA JudgedStatesFacts ==
    ASSUME now \in Nat, NEW rows \in [Accounts -> Rows], NEW states \in [Accounts -> States],
           NEW pool \in SUBSET Accounts,
           \A a \in Accounts : FromRow(now, shown[a], rows[a], states[a])
    PROVE  /\ JudgedStates(states, pool) \in [Accounts -> States]
           /\ \A a \in Accounts : /\ FromRow(now, shown[a], rows[a], JudgedStates(states, pool)[a])
                                  /\ \/ JudgedStates(states, pool)[a].rule_until
                                          = states[a].rule_until
                                     \/ now >= states[a].rule_until
<1>1. ASSUME NEW a \in Accounts
      PROVE  LET j == JudgedStates(states, pool)[a]
             IN  /\ j \in States /\ FromRow(now, shown[a], rows[a], j)
                 /\ j.rule_until = states[a].rule_until \/ now >= states[a].rule_until
  <2>1. \/ JudgedStates(states, pool)[a] = Judged(states[a], now)
        \/ JudgedStates(states, pool)[a] = states[a]
    BY DEF JudgedStates
  <2> QED BY <2>1, JudgedFacts, JudgedFromRow
<1> QED BY <1>1 DEF JudgedStates

LEMMA WrittenFacts ==
    ASSUME NEW rt \in [Accounts -> Runtimes], NEW scope, NEW states \in [Accounts -> States]
    PROVE  /\ Written(rt, scope, states) \in [Accounts -> Runtimes]
           /\ \A a \in Accounts : Written(rt, scope, states)[a].rule_until =
                 IF a \in scope THEN states[a].rule_until ELSE rt[a].rule_until
<1>1. ASSUME NEW a \in Accounts
      PROVE  /\ Written(rt, scope, states)[a] \in Runtimes
             /\ Written(rt, scope, states)[a].rule_until =
                 IF a \in scope THEN states[a].rule_until ELSE rt[a].rule_until
  BY SyncType DEF Written
<1> QED BY <1>1 DEF Written

LEMMA DecidedFacts ==
    ASSUME Inv, NEW r \in Requests, NEW states \in [Accounts -> States],
           NEW pick \in Accounts \cup {None},
           \A a \in Accounts : FromRow(now, shown[a], req[r].rows[a], states[a]),
           pick # None => states[pick].status = "active"
    PROVE  /\ Decided(r, states, pick) \in RequestStates
           /\ Carries(now, shown, r, Decided(r, states, pick))
           /\ Decided(r, states, pick).pick = pick
<1> DEFINE snap == IF pick = None THEN NoRow ELSE
                       [status |-> states[pick].status, reset_at |-> states[pick].reset_at,
                        blocked_at |-> req[r].rows[pick].blocked_at,
                        monthly |-> states[pick].monthly]
           d == Decided(r, states, pick)
<1>1. PICK q \in RequestStates : q = req[r] /\ Carries(now, shown, r, q)
  BY Typed
<1>2. snap \in Rows /\ snap.status = "active"
  <2>1. CASE pick = None
    BY <2>1, BlankTypes
  <2>2. CASE pick # None
    <3>1. /\ pick \in Accounts /\ states[pick] \in States /\ q.rows[pick] \in Rows
          /\ states[pick].status = "active"
      BY <2>2 DEF RequestStates
    <3> QED BY <1>1, <2>2, <3>1 DEF States, Rows
  <2> QED BY <2>1, <2>2
<1>3. d = [q EXCEPT !.pc = "persist", !.states = states, !.pick = pick,
                    !.todo = q.scope, !.barred = [a \in Accounts |-> 0], !.snapshot = snap]
  BY <1>1 DEF Decided
<1> HIDE DEF snap, d
<1>4. PICK u \in RequestStates : u = [q EXCEPT !.pc = "persist", !.states = states]
  BY DEF RequestStates, Phases
<1>5. u.scope = q.scope
  BY <1>4 DEF RequestStates
<1>6. PICK v \in RequestStates : v = [u EXCEPT !.pick = pick, !.todo = q.scope,
                                       !.barred = [a \in Accounts |-> 0], !.snapshot = snap]
  BY <1>2, <1>5 DEF RequestStates
<1>7. d = v
  BY <1>3, <1>4, <1>6 DEF RequestStates
<1>8. /\ d.pc = "persist" /\ d.states = states /\ d.pick = pick /\ d.snapshot = snap
      /\ d.rows = q.rows /\ d.scope = q.scope /\ d.left = q.left
  BY <1>4, <1>6, <1>7 DEF RequestStates
<1>9. Carries(now, shown, r, d)
  BY <1>1, <1>2, <1>8 DEF Carries
<1> QED BY <1>7, <1>8, <1>9 DEF d

LEMMA PruneFacts ==
    ASSUME Inv, NEW r \in Requests
    PROVE  /\ PruneRuntime(r) \in [Accounts -> Runtimes]
           /\ Pruned(r) \in [Accounts -> Nat]
           /\ \A a \in Accounts : \/ Pruned(r)[a] = 0
                                  \/ /\ Pruned(r)[a] = excluded[a]
                                     /\ PruneRuntime(r)[a] = runtime[a]
           /\ \A a \in req[r].scope : /\ Pruned(r)[a] = excluded[a]
                                      /\ PruneRuntime(r)[a] = runtime[a]
<1>1. /\ req[r].scope \in SUBSET Accounts
      /\ \A a \in req[r].scope : ProviderOf[a] = Asks[r]
  BY Typed DEF Carries, RequestStates
<1> QED BY <1>1, BlankTypes DEF PruneRuntime, Pruned, Inv, TypeOK

\* The decision of a selection, from the states it has built.
LEMMA SelectionFacts ==
    ASSUME Inv, NEW r \in Requests, NEW built \in [Accounts -> States],
           \A a \in Accounts : FromRow(now, shown[a], req[r].rows[a], built[a]),
           NEW pool \in SUBSET req[r].scope,
           NEW pick \in Accounts \cup {None},
           pick # None => pick \in Pickable(built, pool)
    PROVE  LET states == JudgedStates(built, pool)
               d == Decided(r, states, pick)
           IN  /\ states \in [Accounts -> States]
               /\ d \in RequestStates /\ Carries(now, shown, r, d) /\ d.pick = pick
               /\ \A a \in Accounts : \/ states[a].rule_until = built[a].rule_until
                                      \/ now >= built[a].rule_until
               /\ pick # None => pick \in req[r].scope /\ now >= built[pick].rule_until
<1> DEFINE states == JudgedStates(built, pool)
           d == Decided(r, states, pick)
<1>1. /\ now \in Nat /\ req[r].rows \in [Accounts -> Rows] /\ pool \in SUBSET Accounts
  BY Typed DEF RequestStates
<1>2. /\ states \in [Accounts -> States]
      /\ \A a \in Accounts : /\ FromRow(now, shown[a], req[r].rows[a], states[a])
                             /\ \/ states[a].rule_until = built[a].rule_until
                                \/ now >= built[a].rule_until
  BY <1>1, JudgedStatesFacts
<1>3. ASSUME pick # None
      PROVE  /\ states[pick].status = "active" /\ now >= built[pick].rule_until
             /\ pick \in req[r].scope
  <2>1. /\ pick \in pool /\ Usable(Judged(built[pick], now))
        /\ Judged(built[pick], now).rule_until = 0
    BY <1>1, <1>3, PickedFacts
  <2>2. pick \in Accounts /\ states[pick] = Judged(built[pick], now)
    BY <1>1, <2>1 DEF JudgedStates
  <2>3. now >= built[pick].rule_until
    BY <1>1, <2>1, <2>2, JudgedFacts
  <2> QED BY <2>1, <2>2, <2>3 DEF Usable
<1>4. d \in RequestStates /\ Carries(now, shown, r, d) /\ d.pick = pick
  <2> HIDE DEF states
  <2> QED BY <1>2, <1>3, DecidedFacts
<1> QED BY <1>2, <1>3, <1>4

LEMMA SelectGood ==
    ASSUME Inv, NEW r \in Requests, Select(r)
    PROVE  Good
<1> DEFINE rt == PruneRuntime(r)
           built == BuildStates(r, rt)
<1>1. PICK pool \in SUBSET req[r].scope :
        /\ runtime' = Written(rt, req[r].scope, JudgedStates(built, pool))
        /\ \/ \E a \in Pickable(built, pool) :
                req' = [req EXCEPT ![r] = Decided(r, JudgedStates(built, pool), a)]
           \/ req' = [req EXCEPT ![r] = Decided(r, JudgedStates(built, pool), None)]
  BY DEF Select
<1>2. /\ UNCHANGED <<now, row, lock, sample, shown, events>> /\ excluded' = Pruned(r)
      /\ r \notin StickyRequests /\ req[r].scope \in SUBSET Accounts
  BY Typed DEF Select, RequestStates
<1>3. /\ rt \in [Accounts -> Runtimes] /\ excluded' \in [Accounts -> Nat]
      /\ \A a \in Accounts : \/ excluded'[a] = 0
                             \/ excluded'[a] = excluded[a] /\ rt[a] = runtime[a]
      /\ \A a \in req[r].scope : rt[a] = runtime[a]
  BY <1>2, PruneFacts
<1>4. /\ built \in [Accounts -> States]
      /\ \A a \in Accounts : FromRow(now, shown[a], req[r].rows[a], built[a])
      /\ \A a \in req[r].scope : built[a].rule_until = rt[a].rule_until
  BY <1>3, BuiltFacts
<1> HIDE DEF rt, built
<1>5. PICK pick \in Accounts \cup {None} :
        /\ pick # None => pick \in Pickable(built, pool)
        /\ req' = [req EXCEPT ![r] = Decided(r, JudgedStates(built, pool), pick)]
  <2>1. \A a \in Pickable(built, pool) : a \in Accounts
    BY <1>2 DEF Pickable
  <2> QED BY <1>1, <2>1
<1> DEFINE states == JudgedStates(built, pool)
           d == Decided(r, states, pick)
<1>6. /\ states \in [Accounts -> States]
      /\ d \in RequestStates /\ Carries(now, shown, r, d) /\ d.pick = pick
      /\ \A a \in Accounts : \/ states[a].rule_until = built[a].rule_until
                             \/ now >= built[a].rule_until
      /\ pick # None => pick \in req[r].scope /\ now >= built[pick].rule_until
  BY <1>4, <1>5, SelectionFacts
<1>7. req' = [req EXCEPT ![r] = d] /\ runtime' = Written(rt, req[r].scope, states)
  BY <1>1, <1>5
<1> HIDE DEF states, d
<1>8. /\ runtime' \in [Accounts -> Runtimes]
      /\ \A a \in Accounts : runtime'[a].rule_until =
           IF a \in req[r].scope THEN states[a].rule_until ELSE rt[a].rule_until
  BY <1>3, <1>6, <1>7, WrittenFacts
<1>9. /\ req' \in [Requests -> RequestStates] /\ ReqInv'
      /\ d.pick = None \/ req[r].pick # None \/ Obeys(r, d.pick) => PickStep
  BY <1>2, <1>6, <1>7, ReqMoved
<1>10. row' \in [Accounts -> Rows] /\ RowInv' /\ RowStep
  BY <1>2, RowKept
<1>11. (TypeOK /\ RowInv /\ ReqInv)'
  BY <1>2, <1>3, <1>8, <1>9, <1>10 DEF Inv, TypeOK
<1>12. RuleKept'
  <2>1. ASSUME NEW a \in Accounts
        PROVE  \/ excluded'[a] = 0
               \/ /\ excluded'[a] = excluded[a]
                  /\ \/ runtime'[a].rule_until = runtime[a].rule_until
                     \/ now >= runtime[a].rule_until
    BY <1>3, <1>4, <1>6, <1>8
  <2> QED BY <1>2, <2>1, RuleSurvives
<1>13. ASSUME d.pick # None PROVE Obeys(r, d.pick)
  <2>1. pick \in req[r].scope /\ now >= runtime[pick].rule_until /\ pick \in Accounts
    BY <1>2, <1>3, <1>4, <1>6, <1>13
  <2>2. /\ now \in Nat /\ excluded[pick] \in Nat /\ runtime[pick].rule_until \in Nat
    BY <2>1, Typed DEF Inv, TypeOK, Runtimes
  <2>3. now >= excluded[pick]
    BY <2>1, <2>2 DEF Inv, RuleKept
  <2> QED BY <1>2, <1>6, <2>3 DEF Obeys
<1> QED BY <1>9, <1>10, <1>11, <1>12, <1>13 DEF Good, Inv

LEMMA StickyBeginGood ==
    ASSUME Inv, NEW r \in Requests, StickyBegin(r)
    PROVE  Good
<1> DEFINE rt == PruneRuntime(r)
           built == BuildStates(r, rt)
<1>1. /\ req[r].pc = "loaded" /\ r \in StickyRequests /\ runtime' = rt
      /\ req' = [req EXCEPT ![r].pc = "sticky", ![r].states = built, ![r].barred = Pruned(r)]
      /\ excluded' = Pruned(r)
      /\ UNCHANGED <<now, row, lock, sample, shown, events>>
  BY DEF StickyBegin
<1>2. /\ rt \in [Accounts -> Runtimes] /\ Pruned(r) \in [Accounts -> Nat]
      /\ \A a \in Accounts : \/ Pruned(r)[a] = 0
                             \/ Pruned(r)[a] = excluded[a] /\ rt[a] = runtime[a]
      /\ \A a \in req[r].scope : Pruned(r)[a] = excluded[a] /\ rt[a] = runtime[a]
  BY PruneFacts
<1>3. /\ built \in [Accounts -> States]
      /\ \A a \in Accounts : FromRow(now, shown[a], req[r].rows[a], built[a])
      /\ \A a \in req[r].scope : built[a].rule_until = rt[a].rule_until
  BY <1>2, BuiltFacts
<1> HIDE DEF rt, built
<1>a. ASSUME NEW a \in req[r].scope
      PROVE  now >= Pruned(r)[a] \/ built[a].rule_until >= Pruned(r)[a]
  <2>1. a \in Accounts /\ now \in Nat
    BY Typed DEF RequestStates
  <2>2. excluded[a] \in Nat
    BY <2>1 DEF Inv, TypeOK
  <2>3. now < excluded[a] => runtime[a].rule_until >= excluded[a]
    BY <2>1 DEF Inv, RuleKept
  <2> QED BY <1>2, <1>3, <2>1, <2>2, <2>3
<1>4. PICK q \in RequestStates : q = req[r] /\ Carries(now, shown, r, q)
  BY Typed
<1>b. PICK w \in [Accounts -> Nat] : w = Pruned(r)
  BY <1>2
<1>5. PICK u \in RequestStates : u = [q EXCEPT !.pc = "sticky", !.states = built, !.barred = w]
  BY <1>3 DEF RequestStates, Phases
<1>6. /\ u.pc = "sticky" /\ u.states = built /\ u.rows = q.rows /\ u.scope = q.scope
      /\ u.snapshot = q.snapshot /\ u.pick = q.pick /\ u.left = q.left /\ u.barred = w
  BY <1>5 DEF RequestStates
<1>7. Carries(now, shown, r, u)
  BY <1>1, <1>3, <1>a, <1>b, <1>4, <1>6 DEF Carries
<1>8. req' = [req EXCEPT ![r] = u]
  BY <1>1, <1>4, <1>5, <1>b DEF Inv, TypeOK
<1>9. req' \in [Requests -> RequestStates] /\ ReqInv' /\ PickStep
  <2>1. u.pick = None \/ req[r].pick # None
    BY <1>4, <1>6
  <2> QED BY <1>1, <1>7, <1>8, <2>1, ReqMoved
<1>10. row' \in [Accounts -> Rows] /\ RowInv' /\ RowStep
  BY <1>1, RowKept
<1>11. (TypeOK /\ RowInv /\ ReqInv)'
  BY <1>1, <1>2, <1>9, <1>10 DEF Inv, TypeOK
<1>12. RuleKept'
  <2>1. ASSUME NEW a \in Accounts
        PROVE  \/ excluded'[a] = 0
               \/ /\ excluded'[a] = excluded[a]
                  /\ \/ runtime'[a].rule_until = runtime[a].rule_until
                     \/ now >= runtime[a].rule_until
    BY <1>1, <1>2
  <2> QED BY <1>1, <2>1, RuleSurvives
<1> QED BY <1>9, <1>10, <1>11, <1>12 DEF Good, Inv

\* The history drops what a sticky selection has overwritten.
LEMMA OverwrittenFacts ==
    ASSUME Inv, now' = now, runtime' \in [Accounts -> Runtimes],
           excluded' = Overwritten(runtime')
    PROVE  excluded' \in [Accounts -> Nat] /\ RuleKept'
<1>1. now \in Nat /\ excluded \in [Accounts -> Nat]
  BY Typed DEF Inv, TypeOK
<1>2. ASSUME NEW a \in Accounts
      PROVE  /\ excluded'[a] \in Nat
             /\ now' < excluded'[a] => runtime'[a].rule_until >= excluded'[a]
  <2>1. runtime'[a].rule_until \in Nat /\ excluded[a] \in Nat
    BY <1>1 DEF Runtimes
  <2>2. excluded'[a] = IF runtime'[a].rule_until < excluded[a] THEN 0 ELSE excluded[a]
    BY DEF Overwritten
  <2> QED BY <1>1, <2>1, <2>2
<1>3. excluded' \in [Accounts -> Nat]
  BY <1>2 DEF Overwritten
<1> QED BY <1>2, <1>3 DEF RuleKept

LEMMA StickyCommitGood ==
    ASSUME Inv, NEW r \in Requests, StickyCommit(r)
    PROVE  Good
<1> DEFINE built == req[r].states
<1>1. PICK pool \in SUBSET req[r].scope :
        /\ runtime' = Written(runtime, req[r].scope, JudgedStates(built, pool))
        /\ \/ \E a \in Pickable(built, pool) :
                req' = [req EXCEPT ![r] = Decided(r, JudgedStates(built, pool), a)]
           \/ req' = [req EXCEPT ![r] = Decided(r, JudgedStates(built, pool), None)]
  BY DEF StickyCommit
<1>2. /\ req[r].pc = "sticky" /\ excluded' = Overwritten(runtime')
      /\ UNCHANGED <<now, row, lock, sample, shown, events>>
      /\ req[r].scope \in SUBSET Accounts
  BY Typed DEF StickyCommit, RequestStates
<1>3. /\ built \in [Accounts -> States] /\ r \in StickyRequests
      /\ \A a \in Accounts : FromRow(now, shown[a], req[r].rows[a], built[a])
      /\ \A a \in req[r].scope : now >= req[r].barred[a] \/ built[a].rule_until >= req[r].barred[a]
  BY <1>2, Typed DEF RequestStates, Carries
<1> HIDE DEF built
<1>4. PICK pick \in Accounts \cup {None} :
        /\ pick # None => pick \in Pickable(built, pool)
        /\ req' = [req EXCEPT ![r] = Decided(r, JudgedStates(built, pool), pick)]
  <2>1. \A a \in Pickable(built, pool) : a \in Accounts
    BY <1>2 DEF Pickable
  <2> QED BY <1>1, <2>1
<1> DEFINE states == JudgedStates(built, pool)
           d == Decided(r, states, pick)
<1>5. /\ states \in [Accounts -> States] /\ d \in RequestStates /\ Carries(now, shown, r, d)
      /\ d.pick = pick
      /\ pick # None => pick \in req[r].scope /\ now >= built[pick].rule_until
  BY <1>3, <1>4, SelectionFacts
<1>6. req' = [req EXCEPT ![r] = d] /\ runtime' = Written(runtime, req[r].scope, states)
  BY <1>1, <1>4
<1> HIDE DEF states, d
<1>7. runtime' \in [Accounts -> Runtimes]
  BY <1>5, <1>6, WrittenFacts DEF Inv, TypeOK
<1>8. req' \in [Requests -> RequestStates] /\ ReqInv' /\ PickStep
  <2>1. ASSUME d.pick # None PROVE Obeys(r, d.pick)
    <3>1. pick \in Accounts /\ pick \in req[r].scope /\ now >= built[pick].rule_until
      BY <1>2, <1>5, <2>1
    <3>2. /\ now \in Nat /\ req[r].barred[pick] \in Nat /\ built[pick].rule_until \in Nat
      BY <1>3, <3>1, Typed DEF RequestStates, States
    <3>3. now + Grace >= req[r].barred[pick]
      BY <1>3, <3>1, <3>2, MarkAssumption
    <3> QED BY <1>3, <1>5, <3>3 DEF Obeys
  <2> QED BY <1>2, <1>5, <1>6, <2>1, ReqMoved
<1>9. row' \in [Accounts -> Rows] /\ RowInv' /\ RowStep
  BY <1>2, RowKept
<1>10. excluded' \in [Accounts -> Nat] /\ RuleKept'
  BY <1>2, <1>7, OverwrittenFacts
<1>11. (TypeOK /\ RowInv /\ ReqInv)'
  BY <1>2, <1>7, <1>8, <1>9, <1>10 DEF Inv, TypeOK
<1> QED BY <1>8, <1>9, <1>10, <1>11 DEF Good, Inv

LEMMA StickyGraceGood ==
    ASSUME Inv, NEW r \in Requests, NEW a \in Accounts, StickyGrace(r, a)
    PROVE  Good
<1> DEFINE built == req[r].states
           s == Judged(built[a], now)
           z == [s EXCEPT !.status = "active"]
<1>1. /\ req[r].pc = "sticky" /\ a \in req[r].scope
      /\ s.status = "rate_limited" /\ Available(s, now + Grace)
      /\ runtime' = Written(runtime, req[r].scope, [built EXCEPT ![a] = s])
      /\ req' = [req EXCEPT ![r] = Decided(r, [built EXCEPT ![a] = z], a)]
      /\ excluded' = Overwritten(runtime')
      /\ UNCHANGED <<now, row, lock, sample, shown, events>>
  BY DEF StickyGrace
<1>2. /\ built \in [Accounts -> States] /\ r \in StickyRequests
      /\ req[r].rows \in [Accounts -> Rows] /\ now \in Nat /\ now + Grace \in Nat
      /\ \A b \in Accounts : FromRow(now, shown[b], req[r].rows[b], built[b])
  BY <1>1, Typed, MarkAssumption DEF RequestStates, Carries
<1>b. /\ req[r].barred[a] \in Nat /\ built[a].rule_until \in Nat
      /\ now >= req[r].barred[a] \/ built[a].rule_until >= req[r].barred[a]
  <2>1. req[r] \in RequestStates /\ Carries(now, shown, r, req[r])
    BY Typed
  <2>2. req[r].barred \in [Accounts -> Nat] /\ built[a] \in States
    BY <1>2, <2>1 DEF RequestStates
  <2>3. now >= req[r].barred[a] \/ built[a].rule_until >= req[r].barred[a]
    BY <1>1, <2>1 DEF Carries
  <2> QED BY <2>2, <2>3 DEF States
<1>3. /\ s \in States /\ FromRow(now, shown[a], req[r].rows[a], s)
      /\ s.rule_until = built[a].rule_until \/ now >= built[a].rule_until
  BY <1>2, JudgedFacts, JudgedFromRow
<1> HIDE DEF built, s
<1>4. s.status \in Limited
  BY <1>1 DEF Limited
<1>5. now + Grace >= s.reset_at
  <2>1. Judged(s, now + Grace).status = "active"
    BY <1>1 DEF Available, Usable
  <2> QED BY <1>2, <1>3, <1>4, <2>1, JudgedFacts, LimitedStatuses
<1>a. Obeys(r, a)
  <2>1. Usable(Judged(s, now + Grace)) /\ Judged(s, now + Grace).rule_until = 0
    BY <1>1 DEF Available
  <2>2. now + Grace >= s.rule_until /\ s.rule_until \in Nat
    BY <1>2, <1>3, <2>1, JudgedFacts DEF States
  <2>3. now + Grace >= req[r].barred[a]
    BY <1>2, <1>b, <1>3, <2>2, MarkAssumption
  <2> QED BY <1>2, <2>3 DEF Obeys
<1>6. z \in States /\ z.status = "active"
  BY <1>3, LimitedStatuses DEF States
<1>7. FromRow(now, shown[a], req[r].rows[a], z)
  <2>1. s.reset_at = RetryAt(req[r].rows[a])
    BY <1>3, <1>4 DEF FromRow
  <2> QED BY <1>5, <1>6, <2>1, LimitedStatuses DEF FromRow, Ends
<1> HIDE DEF z
<1> DEFINE states == [built EXCEPT ![a] = z]
           d == Decided(r, states, a)
<1>8. /\ states \in [Accounts -> States] /\ states[a].status = "active"
      /\ \A b \in Accounts : FromRow(now, shown[b], req[r].rows[b], states[b])
      /\ [built EXCEPT ![a] = s] \in [Accounts -> States]
  BY <1>2, <1>3, <1>6, <1>7
<1>9. req' = [req EXCEPT ![r] = d]
  BY <1>1
<1> HIDE DEF states
<1>10. d \in RequestStates /\ Carries(now, shown, r, d) /\ d.pick = a
  BY <1>8, DecidedFacts
<1> HIDE DEF d
<1>11. runtime' \in [Accounts -> Runtimes]
  <2>1. PICK w \in [Accounts -> States] : w = [built EXCEPT ![a] = s]
    BY <1>8
  <2>2. runtime \in [Accounts -> Runtimes]
    BY DEF Inv, TypeOK
  <2>3. runtime' = Written(runtime, req[r].scope, w)
    BY <1>1, <2>1
  <2> QED BY <2>2, <2>3, WrittenFacts
<1>12. req' \in [Requests -> RequestStates] /\ ReqInv' /\ PickStep
  BY <1>1, <1>a, <1>9, <1>10, ReqMoved
<1>13. row' \in [Accounts -> Rows] /\ RowInv' /\ RowStep
  BY <1>1, RowKept
<1>14. excluded' \in [Accounts -> Nat] /\ RuleKept'
  BY <1>1, <1>11, OverwrittenFacts
<1>15. (TypeOK /\ RowInv /\ ReqInv)'
  BY <1>1, <1>11, <1>12, <1>13, <1>14 DEF Inv, TypeOK
<1> QED BY <1>12, <1>13, <1>14, <1>15 DEF Good, Inv

LEMMA PersistStateGood ==
    ASSUME Inv, NEW r \in Requests, NEW a \in Accounts, PersistState(r, a)
    PROVE  Good
<1> DEFINE read == req[r].rows[a]
           s == req[r].states[a]
           new == AsRow(s, read)
           stale == a = req[r].pick /\ new # read /\ row[a] # read
<1>1. /\ req[r].pc = "persist"
      /\ row' = IF new = read THEN row ELSE UpdateStatusIfCurrent(a, read, new)
      /\ req' = [req EXCEPT ![r] = [req[r] EXCEPT
           !.todo = @ \ {a}, !.rows[a] = NoRow, !.states[a] = BlankState,
           !.left = @ \ {a}, !.stale = @ \/ stale]]
      /\ UNCHANGED <<now, runtime, lock, sample, shown, excluded, events>>
  BY DEF PersistState
<1>2. PICK q \in RequestStates : q = req[r] /\ Carries(now, shown, r, q)
  BY Typed
<1>3. /\ read \in Rows /\ s \in States /\ FromRow(now, shown[a], read, s)
      /\ read.status \notin {"deactivated", "paused"}
  BY <1>1, <1>2 DEF RequestStates, Carries
<1>4. /\ new \in Rows /\ new.reset_at = s.reset_at /\ new.blocked_at = s.blocked_at
      /\ new.status = IF read.status = "exchange_uncertain" THEN read.status ELSE s.status
  BY <1>3, AsRowFacts
<1> HIDE DEF read, s, new, stale
<1>5. PICK b \in BOOLEAN : b = (q.stale \/ stale)
  OBVIOUS
<1>6. req' = [req EXCEPT ![r] = [q EXCEPT
                !.todo = q.todo \ {a}, !.rows = [q.rows EXCEPT ![a] = NoRow],
                !.states = [q.states EXCEPT ![a] = BlankState], !.left = q.left \ {a}, !.stale = b]]
  <2>1. req' = [req EXCEPT ![r] = [q EXCEPT
                  !.todo = @ \ {a}, !.rows[a] = NoRow, !.states[a] = BlankState,
                  !.left = @ \ {a}, !.stale = @ \/ stale]]
    BY <1>1, <1>2
  <2>2. [q EXCEPT !.todo = @ \ {a}, !.rows[a] = NoRow, !.states[a] = BlankState,
                  !.left = @ \ {a}, !.stale = @ \/ stale]
          = [q EXCEPT !.todo = q.todo \ {a}, !.rows = [q.rows EXCEPT ![a] = NoRow],
                      !.states = [q.states EXCEPT ![a] = BlankState],
                      !.left = q.left \ {a}, !.stale = q.stale \/ stale]
    BY DEF RequestStates
  <2> QED BY <1>5, <2>1, <2>2
<1>7. Stamped(new)
  <2>1. "exchange_uncertain" \notin Limited
    BY DEF Limited
  <2> QED BY <1>3, <1>4, <2>1 DEF FromRow, Stamped
<1>8. row' \in [Accounts -> Rows] /\ RowInv' /\ RowStep
  <2>1. read.status \in Limited /\ new.status = "active" => Ends(now, shown[a], read)
    BY <1>3, <1>4 DEF FromRow
  <2> QED BY <1>1, <1>3, <1>4, <1>7, <2>1, RowSet
<1> DEFINE rows == [q.rows EXCEPT ![a] = NoRow]
           states == [q.states EXCEPT ![a] = BlankState]
<1>9. /\ rows \in [Accounts -> Rows] /\ states \in [Accounts -> States]
      /\ rows[a] = NoRow /\ states[a] = BlankState
      /\ \A c \in Accounts \ {a} : rows[c] = q.rows[c] /\ states[c] = q.states[c]
  BY BlankTypes DEF RequestStates
<1> HIDE DEF rows, states
<1>10. PICK u \in RequestStates : u = [q EXCEPT !.todo = q.todo \ {a}, !.rows = rows]
  BY <1>9 DEF RequestStates
<1>11. PICK v \in RequestStates : v = [u EXCEPT !.states = states, !.left = q.left \ {a}, !.stale = b]
  BY <1>9 DEF RequestStates
<1>12. v = [q EXCEPT !.todo = q.todo \ {a}, !.rows = rows, !.states = states,
                   !.left = q.left \ {a}, !.stale = b]
  BY <1>10, <1>11 DEF RequestStates
<1>13. /\ v.rows = rows /\ v.states = states /\ v.pc = q.pc /\ v.scope = q.scope
       /\ v.snapshot = q.snapshot /\ v.pick = q.pick /\ v.left = q.left \ {a}
  BY <1>10, <1>11 DEF RequestStates
<1>14. FromRow(now, shown[a], NoRow, BlankState)
  BY BlankTypes, LimitedStatuses DEF FromRow
<1>15. Carries(now, shown, r, v)
  BY <1>1, <1>2, <1>9, <1>13, <1>14, BlankTypes DEF Carries
<1>16. req' = [req EXCEPT ![r] = v]
  BY <1>6, <1>12 DEF rows, states
<1>17. req' \in [Requests -> RequestStates] /\ ReqInv'
  BY <1>1, <1>15, <1>16, ReqMoved
<1>18. PickStep
  <2>1. req[r].pick # None \/ v.pick = None
    BY <1>2, <1>13
  <2> QED BY <1>1, <1>15, <1>16, <2>1, ReqMoved
<1>19. (TypeOK /\ RowInv /\ ReqInv)'
  BY <1>1, <1>8, <1>17 DEF Inv, TypeOK
<1>20. RuleKept'
  BY <1>1 DEF Inv, RuleKept
<1> QED BY <1>8, <1>18, <1>19, <1>20 DEF Good, Inv

LEMMA PersistEndGood ==
    ASSUME Inv, NEW r \in Requests, PersistEnd(r)
    PROVE  Good
<1> DEFINE again == Loaded(r, req[r].attempt + 1, Accounts \ req[r].scope)
           held == [Idle EXCEPT !.pc = "held", !.pick = req[r].pick,
                                !.snapshot = req[r].snapshot]
<1>1. UNCHANGED <<now, row, runtime, lock, sample, shown, excluded, events>>
  BY DEF PersistEnd
<1>2. \/ ~LastAttempt(r) /\ req' = [req EXCEPT ![r] = again]
      \/ req' = [req EXCEPT ![r] = Idle]
      \/ req[r].pick # None /\ req' = [req EXCEPT ![r] = held]
  BY DEF PersistEnd
<1>3. row' \in [Accounts -> Rows] /\ RowInv' /\ RowStep
  BY <1>1, RowKept
<1>4. PICK q \in RequestStates : q = req[r] /\ Carries(now, shown, r, q)
  BY Typed
<1>5. req' \in [Requests -> RequestStates] /\ ReqInv' /\ PickStep
  <2>1. CASE ~LastAttempt(r) /\ req' = [req EXCEPT ![r] = again]
    <3>1. req[r].attempt + 1 \in 0..MaxAttempts
      BY <1>4, <2>1, MarkAssumption DEF LastAttempt, RequestStates
    <3>2. again \in RequestStates /\ Carries(now, shown, r, again) /\ again.pick = None
      BY <3>1, LoadedFacts
    <3> HIDE DEF again
    <3> QED BY <1>1, <2>1, <3>2, ReqMoved
  <2>2. CASE req' = [req EXCEPT ![r] = Idle]
    BY <1>1, <2>2, IdleFacts, Typed, ReqMoved
  <2>3. CASE req[r].pick # None /\ req' = [req EXCEPT ![r] = held]
    <3>1. PICK i \in RequestStates : i = Idle /\ Carries(now, shown, r, i)
      BY IdleFacts, Typed
    <3>2. PICK h \in RequestStates : h = [i EXCEPT !.pc = "held", !.pick = q.pick,
                                                   !.snapshot = q.snapshot]
      BY DEF RequestStates, Phases
    <3>3. /\ h.pc = "held" /\ h.pick = q.pick /\ h.snapshot = q.snapshot
          /\ h.rows = i.rows /\ h.scope = i.scope /\ h.left = i.left
      BY <3>2 DEF RequestStates
    <3>4. q.pick \in Accounts
      BY <1>4, <2>3 DEF RequestStates
    <3>5. Carries(now, shown, r, h)
      BY <1>4, <3>1, <3>3, <3>4 DEF Carries
    <3>6. req' = [req EXCEPT ![r] = h]
      BY <1>4, <2>3, <3>1, <3>2
    <3> QED BY <1>1, <2>3, <3>5, <3>6, ReqMoved
  <2> QED BY <1>2, <2>1, <2>2, <2>3
<1>6. (TypeOK /\ RowInv /\ ReqInv)'
  BY <1>1, <1>3, <1>5 DEF Inv, TypeOK
<1>7. RuleKept'
  BY <1>1 DEF Inv, RuleKept
<1> QED BY <1>3, <1>5, <1>6, <1>7 DEF Good, Inv

-----------------------------------------------------------------------------
(* Reports about an account *)

LEMMA HeldFacts ==
    ASSUME Inv, NEW r \in Requests, req[r].pc = "held"
    PROVE  /\ req[r].pick \in Accounts /\ req[r].pick # None
           /\ StateToMark(r) \in States /\ StateToMark(r).status = "active"
           /\ StateToMark(r).rule_until = runtime[req[r].pick].rule_until
<1>1. req[r].pick \in Accounts /\ req[r].snapshot.status = "active" /\ req[r].snapshot \in Rows
  BY Typed DEF Carries, RequestStates
<1> QED BY <1>1, Typed, StateForType, MarkAssumption DEF StateToMark

LEMMA RuntimeSet ==
    ASSUME Inv, now' = now, excluded' = excluded, NEW a \in Accounts, NEW rt \in Runtimes,
           rt.rule_until = runtime[a].rule_until, runtime' = [runtime EXCEPT ![a] = rt]
    PROVE  runtime' \in [Accounts -> Runtimes] /\ RuleKept'
<1>1. runtime \in [Accounts -> Runtimes]
  BY DEF Inv, TypeOK
<1>2. runtime' \in [Accounts -> Runtimes]
  BY <1>1
<1>3. \A b \in Accounts : runtime'[b].rule_until = runtime[b].rule_until
  BY <1>1
<1> QED BY <1>2, <1>3, RuleSurvives

LEMMA BeginMarkGood ==
    ASSUME Inv, NEW r \in Requests, NEW s \in States, NEW pc \in {"marking", "recording"},
           BeginMark(r, s, pc), Stamped(s), s.rule_until = StateToMark(r).rule_until,
           UNCHANGED <<now, row, sample, shown, excluded>>
    PROVE  Good
<1> DEFINE a == req[r].pick
<1>1. /\ req[r].pc = "held"
      /\ runtime' = [runtime EXCEPT ![a] = SyncRuntimeState(s)]
      /\ lock' = [lock EXCEPT ![a] = r]
      /\ req' = [req EXCEPT ![r].pc = pc, ![r].states[a] = s]
      /\ events' \in 0..MaxEvents
  BY MarkAssumption DEF BeginMark, Event, Inv, TypeOK
<1>2. a \in Accounts /\ a # None /\ s.rule_until = runtime[a].rule_until
  BY <1>1, HeldFacts
<1>3. PICK q \in RequestStates : q = req[r] /\ Carries(now, shown, r, q)
  BY Typed
<1>4. a = q.pick
  BY <1>3
<1> HIDE DEF a
<1>5. /\ SyncRuntimeState(s) \in Runtimes
      /\ SyncRuntimeState(s).rule_until = runtime[a].rule_until
  BY <1>2, SyncType
<1>6. runtime' \in [Accounts -> Runtimes] /\ RuleKept'
  BY <1>1, <1>2, <1>5, RuntimeSet
<1>7. lock' \in [Accounts -> Requests \cup {None}]
  BY <1>1, <1>2 DEF Inv, TypeOK
<1>8. PICK states \in [Accounts -> States] : states = [q.states EXCEPT ![a] = s]
  BY <1>2 DEF RequestStates
<1>9. states[a] = s
  BY <1>2, <1>8 DEF RequestStates
<1>10. PICK u \in RequestStates : u = [q EXCEPT !.pc = pc, !.states = states]
  BY DEF RequestStates, Phases
<1>11. /\ u.pc = pc /\ u.states = states /\ u.pick = q.pick /\ u.snapshot = q.snapshot
       /\ u.rows = q.rows /\ u.scope = q.scope /\ u.left = q.left
  BY <1>10 DEF RequestStates
<1>12. Carries(now, shown, r, u)
  BY <1>2, <1>3, <1>4, <1>9, <1>11 DEF Carries
<1>13. req' = [req EXCEPT ![r] = u]
  <2>1. req' = [req EXCEPT ![r] = [q EXCEPT !.pc = pc, !.states = [q.states EXCEPT ![a] = s]]]
    BY <1>1, <1>3 DEF Inv, TypeOK, RequestStates
  <2> QED BY <1>8, <1>10, <2>1
<1>14. req' \in [Requests -> RequestStates] /\ ReqInv' /\ PickStep
  BY <1>2, <1>3, <1>4, <1>12, <1>13, ReqMoved
<1>15. row' \in [Accounts -> Rows] /\ RowInv' /\ RowStep
  BY RowKept
<1>16. (TypeOK /\ RowInv /\ ReqInv)'
  BY <1>1, <1>6, <1>7, <1>14, <1>15 DEF Inv, TypeOK
<1> QED BY <1>6, <1>14, <1>15, <1>16 DEF Good, Inv

LEMMA MarkLimitGood ==
    ASSUME Inv, NEW r \in Requests, MarkLimit(r)
    PROVE  Good
<1> DEFINE m == StateToMark(r)
<1>1. m \in States
  BY HeldFacts DEF MarkLimit
<1>2. PICK status \in Limited, delay \in Delays, monthly \in BOOLEAN :
        BeginMark(r, RateLimited(m, status, delay, monthly), "marking")
  BY DEF MarkLimit
<1> HIDE DEF m
<1>3. /\ now \in Nat /\ now # 0 /\ now + delay \in Nat /\ now + delay # 0
      /\ m.error_count + 1 \in Nat /\ status \in Statuses
  BY <1>1, Typed, MarkAssumption DEF States, Statuses
<1> DEFINE s == RateLimited(m, status, delay, monthly)
<1>a. PICK mo \in BOOLEAN : mo = (m.monthly \/ monthly)
  OBVIOUS
<1>4. PICK d \in Nat : d = now + delay
  BY <1>3
<1>5. PICK u \in States : u = [m EXCEPT !.status = status, !.monthly = mo,
                                       !.error_count = m.error_count + 1, !.last_error_at = now]
  BY <1>1, <1>3 DEF States
<1>6. PICK v \in States : v = [u EXCEPT !.blocked_at = now, !.reset_at = d,
                                       !.cooldown_until = d]
  BY <1>3 DEF States
<1>7. s = v
  BY <1>1, <1>a, <1>4, <1>5, <1>6 DEF RateLimited, States
<1>8. v.blocked_at = now /\ v.reset_at = d /\ v.rule_until = m.rule_until
  BY <1>5, <1>6 DEF States
<1>9. Stamped(v)
  BY <1>3, <1>4, <1>8 DEF Stamped
<1>10. UNCHANGED <<now, row, sample, shown, excluded>>
  BY DEF MarkLimit
<1> HIDE DEF s
<1>11. BeginMark(r, v, "marking")
  BY <1>2, <1>7 DEF s
<1> QED BY <1>8, <1>9, <1>10, <1>11, BeginMarkGood DEF m

LEMMA MarkCapacityGood ==
    ASSUME Inv, NEW r \in Requests, MarkCapacity(r)
    PROVE  Good
<1> DEFINE m == StateToMark(r)
<1>1. m \in States /\ m.status = "active"
  BY HeldFacts DEF MarkCapacity
<1>2. /\ BeginMark(r, [m EXCEPT !.last_error_at = now, !.cooldown_until = now + Capacity],
                   "marking")
      /\ UNCHANGED <<now, row, sample, shown, excluded>>
  BY DEF MarkCapacity
<1> HIDE DEF m
<1>3. now \in Nat /\ now + Capacity \in Nat
  BY Typed, MarkAssumption
<1>4. PICK v \in States : v = [m EXCEPT !.last_error_at = now, !.cooldown_until = now + Capacity]
  BY <1>1, <1>3 DEF States
<1>5. v.status = m.status /\ v.rule_until = m.rule_until
  BY <1>1, <1>4 DEF States
<1>6. Stamped(v)
  BY <1>1, <1>5, LimitedStatuses DEF Stamped
<1> QED BY <1>2, <1>4, <1>5, <1>6, BeginMarkGood DEF m

LEMMA MarkPermanentFailureGood ==
    ASSUME Inv, NEW r \in Requests, MarkPermanentFailure(r)
    PROVE  Good
<1> DEFINE m == StateToMark(r)
<1>1. m \in States
  BY HeldFacts DEF MarkPermanentFailure
<1>2. /\ BeginMark(r, [m EXCEPT !.status = "deactivated", !.blocked_at = 0,
                              !.monthly = FALSE], "marking")
      /\ UNCHANGED <<now, row, sample, shown, excluded>>
  BY DEF MarkPermanentFailure
<1> HIDE DEF m
<1>3. "deactivated" \in Statuses /\ "deactivated" \notin Limited
  BY DEF Statuses, Limited
<1>4. PICK v \in States : v = [m EXCEPT !.status = "deactivated", !.blocked_at = 0,
                                       !.monthly = FALSE]
  BY <1>1, <1>3 DEF States
<1>5. v.status = "deactivated" /\ v.rule_until = m.rule_until
  BY <1>1, <1>4 DEF States
<1>6. Stamped(v)
  BY <1>3, <1>5 DEF Stamped
<1> QED BY <1>2, <1>4, <1>5, <1>6, BeginMarkGood DEF m

LEMMA RecordErrorGood ==
    ASSUME Inv, NEW r \in Requests, RecordError(r)
    PROVE  Good
<1> DEFINE m == StateToMark(r)
<1>1. m \in States /\ m.status = "active"
  BY HeldFacts DEF RecordError
<1>2. /\ BeginMark(r, [m EXCEPT !.error_count = @ + 1, !.last_error_at = now], "recording")
      /\ UNCHANGED <<now, row, sample, shown, excluded>>
  BY DEF RecordError
<1> HIDE DEF m
<1>3. now \in Nat /\ m.error_count + 1 \in Nat
  BY <1>1, Typed DEF States
<1>4. PICK v \in States : v = [m EXCEPT !.error_count = @ + 1, !.last_error_at = now]
  BY <1>1, <1>3 DEF States
<1>5. v.status = m.status /\ v.rule_until = m.rule_until
  BY <1>1, <1>4 DEF States
<1>6. Stamped(v)
  BY <1>1, <1>5, LimitedStatuses DEF Stamped
<1> QED BY <1>2, <1>4, <1>5, <1>6, BeginMarkGood DEF m

LEMMA EndMarkGood ==
    ASSUME Inv, NEW r \in Requests, EndMark(r)
    PROVE  Good
<1> DEFINE a == req[r].pick
           snap == req[r].snapshot
           s == req[r].states[a]
           new == AsRow(s, snap)
           done == [req EXCEPT ![r] = Idle]
<1>1. /\ req[r].pc \in {"marking", "recording"}
      /\ row' = IF new = snap THEN row ELSE UpdateStatusIfCurrent(a, snap, new)
      /\ lock' = [lock EXCEPT ![a] = None]
      /\ req' = Invalidated(done) \/ req' = done
      /\ UNCHANGED <<now, runtime, sample, shown, excluded, events>>
  BY DEF EndMark
<1>2. /\ a \in Accounts /\ snap \in Rows /\ snap.status = "active"
      /\ s \in States /\ Stamped(s)
  BY <1>1, Typed DEF RequestStates, Carries
<1>3. /\ new \in Rows /\ new.reset_at = s.reset_at /\ new.blocked_at = s.blocked_at
      /\ new.status = IF snap.status = "exchange_uncertain" THEN snap.status ELSE s.status
  BY <1>2, AsRowFacts
<1> HIDE DEF a, snap, s, new
<1>4. Stamped(new)
  BY <1>2, <1>3 DEF Stamped
<1>5. row' \in [Accounts -> Rows] /\ RowInv' /\ RowStep
  BY <1>1, <1>2, <1>3, <1>4, RowSet, LimitedStatuses
<1>6. lock' \in [Accounts -> Requests \cup {None}]
  BY <1>1, <1>2 DEF Inv, TypeOK
<1>7. req' \in [Requests -> RequestStates] /\ ReqInv' /\ PickStep
  <2>1. CASE req' = done
    BY <1>1, <2>1, IdleFacts, Typed, ReqMoved
  <2>2. CASE req' = Invalidated(done)
    <3>1. done \in [Requests -> RequestStates]
      BY IdleFacts DEF Inv, TypeOK
    <3>2. \A p \in Requests : Carries(now, shown, p, done[p]) /\ done[p].pick \in {None, req[p].pick}
      BY IdleFacts, Typed DEF Inv, TypeOK
    <3> HIDE DEF done
    <3> QED BY <1>1, <2>2, <3>1, <3>2, ReqInvalidated
  <2> QED BY <1>1, <2>1, <2>2
<1>8. (TypeOK /\ RowInv /\ ReqInv)'
  BY <1>1, <1>5, <1>6, <1>7 DEF Inv, TypeOK
<1>9. RuleKept'
  BY <1>1 DEF Inv, RuleKept
<1> QED BY <1>5, <1>7, <1>8, <1>9 DEF Good, Inv

LEMMA CoolDownGood ==
    ASSUME Inv, NEW r \in Requests, CoolDown(r)
    PROVE  Good
<1> DEFINE a == req[r].pick
           done == [req EXCEPT ![r] = Idle]
<1>1. PICK delay \in RuleDelays :
        /\ req[r].pc = "held"
        /\ runtime' = [runtime EXCEPT ![a] =
             SyncRuntimeState([StateToMark(r) EXCEPT !.rule_until = now + delay])]
        /\ excluded' = [excluded EXCEPT ![a] = now + delay]
        /\ req' = Invalidated(done)
        /\ UNCHANGED <<now, row, lock, sample, shown>>
  BY DEF CoolDown
<1>a. events' \in 0..MaxEvents
  BY MarkAssumption DEF CoolDown, Event, Inv, TypeOK
<1>2. a \in Accounts /\ StateToMark(r) \in States
  BY <1>1, HeldFacts
<1>3. now \in Nat /\ now + delay \in Nat
  BY Typed, MarkAssumption
<1>b. PICK until \in Nat : until = now + delay
  BY <1>3
<1>4. PICK s \in States : s = [StateToMark(r) EXCEPT !.rule_until = until]
  BY <1>2 DEF States
<1>c. s.rule_until = until
  BY <1>2, <1>4 DEF States
<1> HIDE DEF a
<1>5. SyncRuntimeState(s) \in Runtimes /\ SyncRuntimeState(s).rule_until = until
  BY <1>c, SyncType
<1>6. runtime \in [Accounts -> Runtimes] /\ excluded \in [Accounts -> Nat]
  BY DEF Inv, TypeOK
<1>d. /\ runtime' = [runtime EXCEPT ![a] = SyncRuntimeState(s)]
      /\ excluded' = [excluded EXCEPT ![a] = until]
  BY <1>1, <1>b, <1>4
<1>7. runtime' \in [Accounts -> Runtimes] /\ excluded' \in [Accounts -> Nat]
  BY <1>d, <1>2, <1>5, <1>6
<1>8. /\ runtime'[a].rule_until = until /\ excluded'[a] = until
      /\ \A b \in Accounts \ {a} : runtime'[b] = runtime[b] /\ excluded'[b] = excluded[b]
  BY <1>d, <1>2, <1>5, <1>6
<1>9. RuleKept'
  BY <1>1, <1>8 DEF Inv, RuleKept
<1>10. req' \in [Requests -> RequestStates] /\ ReqInv' /\ PickStep
  <2>1. done \in [Requests -> RequestStates]
    BY IdleFacts DEF Inv, TypeOK
  <2>2. \A p \in Requests : Carries(now, shown, p, done[p]) /\ done[p].pick \in {None, req[p].pick}
    BY IdleFacts, Typed DEF Inv, TypeOK
  <2> HIDE DEF done
  <2> QED BY <1>1, <2>1, <2>2, ReqInvalidated
<1>11. row' \in [Accounts -> Rows] /\ RowInv' /\ RowStep
  BY <1>1, RowKept
<1>12. (TypeOK /\ RowInv /\ ReqInv)'
  BY <1>1, <1>a, <1>7, <1>10, <1>11 DEF Inv, TypeOK
<1> QED BY <1>9, <1>10, <1>11, <1>12 DEF Good, Inv

LEMMA RecordSuccessGood ==
    ASSUME Inv, NEW r \in Requests, RecordSuccess(r)
    PROVE  Good
<1> DEFINE a == req[r].pick
<1>1. /\ req[r].pc = "held"
      /\ \/ runtime' = [runtime EXCEPT ![a].error_count = 0, ![a].last_error_at = 0]
         \/ runtime' = runtime
      /\ req' = [req EXCEPT ![r] = Idle]
      /\ UNCHANGED <<now, row, lock, sample, shown, excluded, events>>
  BY DEF RecordSuccess
<1>2. a \in Accounts
  BY <1>1, HeldFacts
<1> HIDE DEF a
<1>3. runtime' \in [Accounts -> Runtimes] /\ RuleKept'
  <2>1. CASE runtime' = runtime
    BY <1>1, <2>1 DEF RuleKept, Inv, TypeOK
  <2>2. CASE runtime' = [runtime EXCEPT ![a].error_count = 0, ![a].last_error_at = 0]
    <3>1. PICK x \in Runtimes : x = runtime[a]
      BY <1>2, Typed
    <3>2. PICK y \in Runtimes : y = [x EXCEPT !.error_count = 0, !.last_error_at = 0]
      BY DEF Runtimes
    <3>3. y.rule_until = runtime[a].rule_until
      BY <3>1, <3>2 DEF Runtimes
    <3>4. runtime' = [runtime EXCEPT ![a] = y]
      BY <1>2, <2>2, <3>1, <3>2 DEF Inv, TypeOK
    <3> QED BY <1>1, <1>2, <3>3, <3>4, RuntimeSet
  <2> QED BY <1>1, <2>1, <2>2
<1>4. req' \in [Requests -> RequestStates] /\ ReqInv' /\ PickStep
  BY <1>1, IdleFacts, Typed, ReqMoved
<1>5. row' \in [Accounts -> Rows] /\ RowInv' /\ RowStep
  BY <1>1, RowKept
<1>6. (TypeOK /\ RowInv /\ ReqInv)'
  BY <1>1, <1>3, <1>4, <1>5 DEF Inv, TypeOK
<1> QED BY <1>3, <1>4, <1>5, <1>6 DEF Good, Inv

-----------------------------------------------------------------------------
(* Operators, the token exchange, restarts, time *)

LEMMA OperatorKeeps ==
    ASSUME Inv, OperatorStep
    PROVE  Inv' /\ PickStep
<1>1. PICK a \in Accounts : \/ PauseAccount(a) \/ ReactivateAccount(a)
                            \/ MarkExchangeUncertain(a) \/ UpdateTokens(a) \/ ResolveExchange(a)
  BY DEF OperatorStep
<1>2. /\ UNCHANGED <<now, runtime, lock, sample, shown, excluded>>
      /\ req' = Invalidated(req) \/ req' = req
      /\ events' \in 0..MaxEvents
  BY <1>1, MarkAssumption DEF PauseAccount, ReactivateAccount, MarkExchangeUncertain, UpdateTokens,
              ResolveExchange, Event, Inv, TypeOK
<1>3. PICK x \in Rows : x = row[a]
  BY Typed
<1>4. /\ {"paused", "exchange_uncertain", "active"} \subseteq Statuses
      /\ \A s \in {"paused", "exchange_uncertain", "active"} : s \notin Limited
  BY DEF Statuses, Limited
<1>5. PICK new \in Rows : Stamped(new) /\ row' = [row EXCEPT ![a] = new]
  <2>1. CASE PauseAccount(a)
    <3>1. PICK new \in Rows : new = [NoRow EXCEPT !.status = "paused"]
      BY <1>4 DEF NoRow, Rows
    <3>2. new.status = "paused"
      BY <3>1 DEF NoRow
    <3> QED BY <1>4, <2>1, <3>1, <3>2 DEF PauseAccount, Stamped
  <2>2. CASE ReactivateAccount(a)
    BY <2>2, BlankTypes DEF ReactivateAccount
  <2>3. CASE MarkExchangeUncertain(a)
    <3>1. PICK new \in Rows : new = [x EXCEPT !.status = "exchange_uncertain", !.monthly = FALSE]
      BY <1>4 DEF Rows
    <3>2. new.status = "exchange_uncertain"
      BY <3>1 DEF Rows
    <3> QED BY <1>3, <1>4, <2>3, <3>1, <3>2 DEF MarkExchangeUncertain, Stamped, Inv, TypeOK
  <2>4. CASE UpdateTokens(a) \/ ResolveExchange(a)
    <3>1. PICK new \in Rows : new = [x EXCEPT !.status = "active", !.monthly = FALSE]
      BY <1>4 DEF Rows
    <3>2. new.status = "active"
      BY <3>1 DEF Rows
    <3> QED BY <1>3, <1>4, <2>4, <3>1, <3>2 DEF UpdateTokens, ResolveExchange, Stamped, Inv, TypeOK
  <2> QED BY <1>1, <2>1, <2>2, <2>3, <2>4
<1>6. row' \in [Accounts -> Rows] /\ RowInv'
  BY <1>2, <1>5 DEF Inv, TypeOK, RowInv
<1>7. req' \in [Requests -> RequestStates] /\ ReqInv' /\ PickStep
  <2>1. CASE req' = req
    BY <1>2, <2>1 DEF Inv, TypeOK, ReqInv, PickStep
  <2>2. CASE req' = Invalidated(req)
    <3>1. req \in [Requests -> RequestStates]
      BY DEF Inv, TypeOK
    <3> QED BY <1>2, <2>2, <3>1, Typed, ReqInvalidated
  <2> QED BY <1>2, <2>1, <2>2
<1>8. (TypeOK /\ RowInv /\ ReqInv)'
  BY <1>2, <1>6, <1>7 DEF Inv, TypeOK
<1> QED BY <1>2, <1>7, <1>8 DEF Inv, RuleKept

LEMMA RestartGood ==
    ASSUME Inv, Restart
    PROVE  Good
<1>1. /\ runtime' = [a \in Accounts |-> RuntimeState]
      /\ lock' = [a \in Accounts |-> None]
      /\ req' = [r \in Requests |-> Idle]
      /\ excluded' = [a \in Accounts |-> 0]
      /\ events' \in 0..MaxEvents
      /\ UNCHANGED <<now, row, sample, shown>>
  BY MarkAssumption DEF Restart, Event, Inv, TypeOK
<1>2. req' \in [Requests -> RequestStates] /\ ReqInv' /\ PickStep
  BY <1>1, IdleFacts, Typed DEF ReqInv, PickStep
<1>3. row' \in [Accounts -> Rows] /\ RowInv' /\ RowStep
  BY <1>1, RowKept
<1>4. (TypeOK /\ RowInv /\ ReqInv)'
  BY <1>1, <1>2, <1>3, BlankTypes DEF Inv, TypeOK
<1>5. RuleKept'
  BY <1>1, Typed DEF RuleKept
<1> QED BY <1>2, <1>3, <1>4, <1>5 DEF Good, Inv

\* Later, and with more samples, a request still carries what it carried.
LEMMA CarriesLater ==
    ASSUME NEW t \in Nat, NEW u \in Nat, t <= u,
           NEW sh \in [Accounts -> Nat], NEW sg \in [Accounts -> Nat],
           \A a \in Accounts : sh[a] <= sg[a],
           NEW r \in Requests, NEW q \in RequestStates, Carries(t, sh, r, q)
    PROVE  Carries(u, sg, r, q)
<1>1. ASSUME NEW a \in Accounts, MonthlyLeft(q.rows[a], sh[a])
      PROVE  MonthlyLeft(q.rows[a], sg[a])
  <2>1. q.rows[a].blocked_at \in Nat /\ sh[a] \in Nat /\ sg[a] \in Nat /\ sh[a] <= sg[a]
    BY DEF RequestStates, Rows
  <2> QED BY <1>1, <2>1 DEF MonthlyLeft
<1>2. ASSUME NEW a \in Accounts, FromRow(t, sh[a], q.rows[a], q.states[a])
      PROVE  FromRow(u, sg[a], q.rows[a], q.states[a])
  <2>1. RetryAt(q.rows[a]) \in Nat
    BY RetryType DEF RequestStates
  <2>2. t + Grace >= RetryAt(q.rows[a]) => u + Grace >= RetryAt(q.rows[a])
    BY <2>1, MarkAssumption
  <2> QED BY <1>1, <1>2, <2>2 DEF FromRow, Ends
<1>3. ASSUME NEW a \in q.scope, t >= q.barred[a]
      PROVE  u >= q.barred[a]
  <2>1. q.barred[a] \in Nat
    BY DEF RequestStates
  <2> QED BY <1>3, <2>1
<1> QED BY <1>1, <1>2, <1>3 DEF Carries

LEMMA MonthlySampleGood ==
    ASSUME Inv, NEW a \in Accounts, MonthlySample(a)
    PROVE  Good
<1>1. /\ UNCHANGED <<now, row, runtime, lock, req, excluded>>
      /\ \/ /\ sample' = [sample EXCEPT ![a] = now]
            /\ shown' = [shown EXCEPT ![a] = now]
         \/ /\ sample' = [sample EXCEPT ![a] = 0]
            /\ shown' = shown
      /\ events' \in 0..MaxEvents
  BY MarkAssumption DEF MonthlySample, Event, Inv, TypeOK
<1>2. /\ now \in Nat /\ sample \in [Accounts -> Nat] /\ shown \in [Accounts -> Nat]
      /\ \A b \in Accounts : sample[b] <= shown[b] /\ shown[b] <= now
  BY Typed DEF Inv, TypeOK, RowInv
<1>3. sample' \in [Accounts -> Nat] /\ shown' \in [Accounts -> Nat]
  BY <1>1, <1>2
<1>4. ASSUME NEW b \in Accounts
      PROVE  sample'[b] <= shown'[b] /\ shown'[b] <= now' /\ shown[b] <= shown'[b]
  <2>1. sample[b] \in Nat /\ shown[b] \in Nat /\ sample[b] <= shown[b] /\ shown[b] <= now
    BY <1>2
  <2>2. CASE b = a
    BY <1>1, <1>2, <2>1, <2>2
  <2>3. CASE b # a
    BY <1>1, <1>2, <2>1, <2>3
  <2> QED BY <2>2, <2>3
<1>5. RowInv'
  BY <1>1, <1>4 DEF Inv, RowInv
<1>6. ASSUME NEW r \in Requests PROVE Carries(now, shown', r, req[r])
  <2>1. req[r] \in RequestStates /\ Carries(now, shown, r, req[r]) /\ now <= now
    BY <1>2, Typed
  <2>2. \A b \in Accounts : shown[b] <= shown'[b]
    BY <1>4
  <2> QED BY <1>2, <1>3, <2>1, <2>2, CarriesLater
<1>7. ReqInv'
  BY <1>1, <1>6 DEF ReqInv
<1>8. TypeOK' /\ RuleKept'
  BY <1>1, <1>3 DEF Inv, TypeOK, RuleKept
<1>9. RowStep /\ PickStep
  BY <1>1, LimitedStatuses DEF RowStep, PickStep
<1> QED BY <1>5, <1>7, <1>8, <1>9 DEF Good, Inv

LEMMA TickGood ==
    ASSUME Inv, Tick
    PROVE  Good
<1>1. /\ now < MaxTime /\ now' = now + 1
      /\ UNCHANGED <<row, runtime, lock, req, sample, shown, excluded, events>>
  BY DEF Tick
<1>2. now \in Nat /\ now' \in 1..MaxTime /\ now' \in Nat /\ now <= now'
  BY <1>1, MarkAssumption DEF Inv, TypeOK
<1>3. ASSUME NEW r \in Requests PROVE Carries(now', shown, r, req[r])
  <2>1. /\ req[r] \in RequestStates /\ Carries(now, shown, r, req[r])
        /\ shown \in [Accounts -> Nat]
    BY Typed
  <2>2. \A b \in Accounts : shown[b] <= shown[b]
    BY <2>1
  <2> QED BY <1>2, <2>1, <2>2, CarriesLater
<1>4. ReqInv' /\ PickStep
  BY <1>1, <1>3 DEF ReqInv, PickStep
<1>5. row' \in [Accounts -> Rows] /\ RowInv' /\ RowStep
  BY <1>1, RowKept
<1>6. (TypeOK /\ RowInv /\ ReqInv)'
  BY <1>1, <1>2, <1>4, <1>5 DEF Inv, TypeOK
<1>7. RuleKept'
  <2>1. excluded \in [Accounts -> Nat]
    BY DEF Inv, TypeOK
  <2>2. \A a \in Accounts : now' < excluded[a] => now < excluded[a]
    BY <1>1, <1>2, <2>1
  <2> QED BY <1>1, <2>2 DEF Inv, RuleKept
<1> QED BY <1>4, <1>5, <1>6, <1>7 DEF Good, Inv

LEMMA StutterGood ==
    ASSUME Inv, UNCHANGED vars
    PROVE  Good
<1>1. row' \in [Accounts -> Rows] /\ RowInv' /\ RowStep
  BY RowKept DEF vars
<1>2. Inv' /\ PickStep
  BY <1>1 DEF Inv, TypeOK, ReqInv, RuleKept, PickStep, vars
<1> QED BY <1>1, <1>2 DEF Good

\* Every step of the balancer is good, and an operator's keeps the invariants.
LEMMA StepGood ==
    ASSUME Inv, [Next]_vars
    PROVE  \/ Good
           \/ OperatorStep /\ Inv' /\ PickStep
<1>1. CASE RequestStep
  <2>1. PICK r \in Requests :
          \/ LoadSelectionInputs(r) \/ Select(r) \/ StickyBegin(r) \/ StickyCommit(r)
          \/ PersistEnd(r) \/ MarkLimit(r) \/ MarkCapacity(r) \/ MarkPermanentFailure(r)
          \/ RecordError(r) \/ EndMark(r) \/ CoolDown(r) \/ RecordSuccess(r)
          \/ \E a \in Accounts : StickyGrace(r, a) \/ PersistState(r, a)
    BY <1>1 DEF RequestStep
  <2> QED BY <2>1, LoadSelectionInputsGood, SelectGood, StickyBeginGood, StickyCommitGood,
             PersistEndGood, MarkLimitGood, MarkCapacityGood, MarkPermanentFailureGood,
             RecordErrorGood, EndMarkGood, CoolDownGood, RecordSuccessGood, StickyGraceGood,
             PersistStateGood
<1>2. CASE OperatorStep
  BY <1>2, OperatorKeeps
<1>3. CASE Restart \/ Tick \/ UNCHANGED vars \/ \E a \in Accounts : MonthlySample(a)
  BY <1>3, RestartGood, TickGood, StutterGood, MonthlySampleGood
<1> QED BY <1>1, <1>2, <1>3 DEF Next

LEMMA InitInv == Init => Inv
<1> SUFFICES ASSUME Init PROVE Inv
  OBVIOUS
<1>1. now = 1 /\ now \in Nat
  BY DEF Init
<1>2. TypeOK
  BY <1>1, BlankTypes, IdleFacts, MarkAssumption DEF Init, TypeOK
<1>3. RowInv /\ ReqInv
  <2>1. shown \in [Accounts -> Nat]
    BY <1>2 DEF TypeOK
  <2> QED BY <1>1, <2>1, BlankTypes, IdleFacts DEF Init, RowInv, ReqInv
<1>4. RuleKept
  BY DEF Init, RuleKept
<1> QED BY <1>2, <1>3, <1>4 DEF Inv

-----------------------------------------------------------------------------
(* Theorems *)

\* The state of rows, runtimes and requests stays within its types, whatever
\* the accounts, requests, providers, delays and bounds.
THEOREM TypeCorrect == Spec => []TypeOK
<1>1. Init => Inv
  BY InitInv
<1>2. Inv /\ [Next]_vars => Inv'
  BY StepGood DEF Good
<1>3. Inv => TypeOK
  BY DEF Inv
<1> QED BY <1>1, <1>2, <1>3, PTL DEF Spec

\* The balancer's persists and marks (update_status_if_current) never change
\* the status of an account that is paused, deactivated or whose exchange is
\* unresolved, however they overlap with what operators and exchanges do.
THEOREM StatusAlwaysGuarded == Spec => StatusGuarded
<1>1. Init => Inv
  BY InitInv
<1>2. Inv /\ [Next]_vars => Inv'
  BY StepGood DEF Good
<1>3. Inv /\ [Next]_vars =>
        [\A a \in Accounts :
           /\ row[a].status \in {"paused", "exchange_uncertain", "deactivated"}
           /\ row'[a].status # row[a].status
           => OperatorStep]_vars
  BY StepGood DEF Good, RowStep
<1> QED BY <1>1, <1>2, <1>3, PTL DEF Spec, StatusGuarded

\* A limit is lifted only when the retry time of the row as it stands has come,
\* give or take the grace of a sticky session, or a monthly sample taken after
\* the block showed quota left: neither a stale read nor a mark that overlaps
\* ends it early.
THEOREM LimitsNotLiftedEarly == Spec => RecoveryNotEarly
<1>1. Init => Inv
  BY InitInv
<1>2. Inv /\ [Next]_vars => Inv'
  BY StepGood DEF Good
<1>3. Inv /\ [Next]_vars =>
        [\A a \in Accounts :
           /\ row[a].status \in Limited
           /\ row'[a].status = "active"
           /\ ~OperatorStep
           => \/ now + Grace >= RetryAt(row[a])
              \/ MonthlyLeft(row[a], shown[a])]_vars
  BY StepGood DEF Good, RowStep, Ends
<1> QED BY <1>1, <1>2, <1>3, PTL DEF Spec, RecoveryNotEarly

\* Whatever the providers, the sticky keys and the durations of the reports: no
\* selection picks an account while the exclusion of the last report stands, which
\* only a restart, a selection for another provider and a sticky selection with
\* older states can drop.
THEOREM SelectionsObeyRules == Spec => RuleExcludes
<1>1. Init => Inv
  BY InitInv
<1>2. Inv /\ [Next]_vars => Inv'
  BY StepGood DEF Good
<1>3. Inv /\ [Next]_vars =>
        [\A r \in Requests :
           req[r].pick = None /\ req'[r].pick # None =>
             LET a == req'[r].pick
             IN  IF r \in StickyRequests THEN now + Grace >= req[r].barred[a]
                                         ELSE now >= excluded[a]]_vars
  BY StepGood DEF Good, PickStep, Obeys
<1> QED BY <1>1, <1>2, <1>3, PTL DEF Spec, RuleExcludes

=============================================================================
