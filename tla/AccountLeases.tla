--------------------------- MODULE AccountLeases ---------------------------
(***************************************************************************)
(* Account leases of the load balancer (app/modules/proxy).                *)
(*                                                                         *)
(* A request that is routed to an account takes a lease on it: a           *)
(* "response_create" lease until the upstream accepts the response, or a   *)
(* "stream" lease while it streams.  The balancer keeps, per account, the  *)
(* leases and the counters derived from them; the counters decide whether  *)
(* an account is at its cap.  A lease whose holder disappeared is          *)
(* reclaimed when it is older than the time to live of its kind.           *)
(*                                                                         *)
(* An action is what one task does between two awaits.  _runtime_lock is   *)
(* never held across an await, so every section under it is atomic.  A     *)
(* plain selection filters, picks and acquires in one section; a sticky    *)
(* one (select_account with a sticky_key) builds its candidates in a first *)
(* section, awaits the sticky lookup, and acquires in a second.  Which of  *)
(* the candidates the routing strategy prefers is left open, and so is     *)
(* whether it finds any of them healthy.                                   *)
(***************************************************************************)
EXTENDS Integers, FiniteSets, FiniteSetsExt

CONSTANTS
    Accounts,       \* account ids
    Requests,       \* call sites that take leases
    KindOf,         \* [Requests -> Kinds], the lease_kind each asks for
    EstimateOf,     \* [Requests -> Nat], its estimated_lease_tokens
    PoolOf,         \* [Requests -> SUBSET Accounts], the accounts of its provider it loads
    ScopeOf,        \* the ones its model, key and exclusions leave it
    CapOf,          \* [Kinds -> Nat], the account caps; 0 is no cap
    LeaseTtl,       \* proxy_account_lease_ttl_seconds
    RequestBudget,  \* the largest of the three request budgets
    BudgetMargin,   \* 60 seconds
    MaxAttempts,    \* _MAX_SELECTION_ATTEMPTS
    MaxTime,        \* bound of the clock
    MaxLeases,      \* bound of the leases ever handed out
    None            \* no lease

Kinds == {"response_create", "stream"}

ASSUME LeaseAssumption ==
    /\ KindOf \in [Requests -> Kinds]
    /\ EstimateOf \in [Requests -> Nat]
    /\ PoolOf \in [Requests -> SUBSET Accounts]
    /\ ScopeOf \in [Requests -> SUBSET Accounts]
    /\ CapOf \in [Kinds -> Nat]
    /\ LeaseTtl \in Nat \ {0}
    /\ RequestBudget \in Nat \ {0}
    /\ BudgetMargin \in Nat \ {0}
    /\ MaxAttempts \in Nat \ {0}
    /\ MaxTime \in Nat
    /\ MaxLeases \in Nat
    /\ None \notin [id: Nat, account: Accounts, kind: Kinds, acquired_at: Nat,
                    tokens: Nat]

VARIABLES
    now,    \* time.monotonic()
    known,  \* accounts in the database
    lb,     \* LoadBalancer._runtime: see Books
    nextId, \* the id of the next lease
    req     \* where each request is, with what it has read: see RequestStates

vars == <<now, known, lb, nextId, req>>

-----------------------------------------------------------------------------
(* Types *)

Leases == [id: Nat, account: Accounts, kind: Kinds, acquired_at: Nat, tokens: Nat]

\* The runtime entries, their leases, and the counters of each account.
Books == [runtime: SUBSET Accounts,
          leases: SUBSET Leases,
          inflight: [Accounts -> [Kinds -> Nat]],
          leased_tokens: [Accounts -> Nat]]

Phases == {"idle", "loaded", "sticky", "persist", "held", "released", "failed"}
Modes == {"plain", "sticky", "hard_sticky"}

RequestStates == [pc: Phases,
                  mode: Modes,
                  inputs: SUBSET Accounts,      \* selection_inputs.runtime_accounts
                  candidates: SUBSET Accounts,  \* what a sticky selection may pick
                  lease: Leases \cup {None},    \* selected_lease, then the caller's
                  capped: BOOLEAN,              \* selection_error_code is a cap
                  attempt: Nat]

Idle == [pc |-> "idle", mode |-> "plain", inputs |-> {}, candidates |-> {},
         lease |-> None, capped |-> FALSE, attempt |-> 0]

-----------------------------------------------------------------------------
(* The books: what each section under _runtime_lock does to them *)

LeasesOf(leases, a, k) == {l \in leases : l.account = a /\ l.kind = k}

TokensOf(leases, a) ==
    MapThenSumSet(LAMBDA l : l.tokens, {l \in leases : l.account = a})

FloorAtZero(n) == IF n < 0 THEN 0 ELSE n

\* Mutant: a stream is stale as early as any lease.
StaleTtlIgnoresBudget(kind) == LeaseTtl

\* A stream may run for the whole request budget before it is stale.
StaleTtl(kind) ==
    IF kind = "stream" THEN Max({LeaseTtl, RequestBudget}) + BudgetMargin
                       ELSE LeaseTtl

Stale(l) == now - l.acquired_at >= StaleTtl(l.kind)

\* Takes leases off the list and off the counters, which never go below zero.
Deduct(b, popped) ==
    [runtime |-> b.runtime,
     leases |-> b.leases \ popped,
     inflight |-> [a \in Accounts |-> [k \in Kinds |->
        FloorAtZero(b.inflight[a][k] - Cardinality(LeasesOf(popped, a, k)))]],
     leased_tokens |-> [a \in Accounts |->
        FloorAtZero(b.leased_tokens[a] - TokensOf(popped, a))]]

\* Mutant: a lease that is gone is taken off the counters again.
DropUnchecked(b, dropped) == Deduct(b, dropped)

\* Mutant: likewise, and the counters are not floored.
DropUnclamped(b, dropped) ==
    [Deduct(b, dropped) EXCEPT !.inflight = [a \in Accounts |-> [k \in Kinds |->
        b.inflight[a][k] - Cardinality(LeasesOf(dropped, a, k))]]]

\* Only leases that are still there are popped: releasing one that is gone
\* changes nothing.
Drop(b, dropped) == Deduct(b, dropped \cap b.leases)

Release(b, lease) == IF lease = None THEN b ELSE Drop(b, {lease})

\* Mutant: stale leases stay.
ReclaimNothing(b) == b

ReclaimStale(b) == Drop(b, {l \in b.leases : Stale(l)})

\* Accounts that are gone start again from an empty RuntimeState.
Forget(b, gone) ==
    [runtime |-> b.runtime \ gone,
     leases |-> {l \in b.leases : l.account \notin gone},
     inflight |-> [a \in Accounts |->
        IF a \in gone THEN [k \in Kinds |-> 0] ELSE b.inflight[a]],
     leased_tokens |-> [a \in Accounts |->
        IF a \in gone THEN 0 ELSE b.leased_tokens[a]]]

\* Forgets the accounts that were not loaded, unless they have leases.
Prune(b, keep) ==
    Forget(b, {a \in b.runtime \ keep : \A l \in b.leases : l.account # a})

\* setdefault: an account that is looked at has a runtime entry.
Touch(b, accounts) ==
    [runtime |-> b.runtime \cup accounts, leases |-> b.leases,
     inflight |-> b.inflight, leased_tokens |-> b.leased_tokens]

BelowCap(b, a, k) == CapOf[k] = 0 \/ b.inflight[a][k] < CapOf[k]

\* What select_account does first under the lock: the accounts of the
\* provider are kept, the ones in scope are looked at.
Refresh(b, pool, scope) == Touch(Prune(ReclaimStale(b), pool), scope)

NewLease(r, a) == [id |-> nextId, account |-> a, kind |-> KindOf[r],
                   acquired_at |-> now, tokens |-> EstimateOf[r]]

Acquire(b, lease) ==
    [runtime |-> b.runtime \cup {lease.account},
     leases |-> b.leases \cup {lease},
     inflight |-> [b.inflight EXCEPT ![lease.account][lease.kind] = @ + 1],
     leased_tokens |-> [b.leased_tokens EXCEPT ![lease.account] = @ + lease.tokens]]

-----------------------------------------------------------------------------
(* Actions *)

Init ==
    /\ now = 0
    /\ known = Accounts
    /\ lb = [runtime |-> {}, leases |-> {},
             inflight |-> [a \in Accounts |-> [k \in Kinds |-> 0]],
             leased_tokens |-> [a \in Accounts |-> 0]]
    /\ nextId = 0
    /\ req = [r \in Requests |-> Idle]

\* What attempt n has read, and the accounts it may select from.
Loaded(r, mode, n) ==
    [Idle EXCEPT !.pc = "loaded", !.mode = mode,
                 !.inputs = known \cap PoolOf[r], !.attempt = n]

InScope(r) == req[r].inputs \cap ScopeOf[r]

\* The selection has decided: with a lease, or without one.
Chosen(r, lease) ==
    [req[r] EXCEPT !.pc = "persist", !.inputs = {}, !.candidates = {}, !.lease = lease]
NotChosen(r, capped) ==
    [req[r] EXCEPT !.pc = "persist", !.inputs = {}, !.candidates = {}, !.capped = capped]

Holding(lease) == [Idle EXCEPT !.pc = "held", !.lease = lease]
Failed == [Idle EXCEPT !.pc = "failed"]

\* With no account left, some reasons end the selection right here.
NoAccount(r) == known \cap PoolOf[r] \cap ScopeOf[r] = {}

LoadSelectionInputs(r) ==
    /\ req[r].pc = "idle"
    /\ \/ \E mode \in Modes : req' = [req EXCEPT ![r] = Loaded(r, mode, 1)]
       \/ NoAccount(r) /\ req' = [req EXCEPT ![r] = Failed]
    /\ UNCHANGED <<now, known, lb, nextId>>

\* The plain selection: filter, pick and acquire in one section.
Select(r) ==
    /\ req[r].pc = "loaded" /\ req[r].mode = "plain"
    /\ LET b == Refresh(lb, req[r].inputs, InScope(r))
           open == {a \in InScope(r) : BelowCap(b, a, KindOf[r])}
       IN  \/ \E a \in open :
                /\ nextId < MaxLeases
                /\ lb' = Acquire(b, NewLease(r, a))
                /\ nextId' = nextId + 1
                /\ req' = [req EXCEPT ![r] = Chosen(r, NewLease(r, a))]
           \/ /\ lb' = b
              /\ req' = [req EXCEPT ![r] = NotChosen(r, open = {} /\ InScope(r) # {})]
              /\ UNCHANGED nextId
    /\ UNCHANGED <<now, known>>

\* The sticky selection, first section.  A hard sticky session skips the
\* filter; the others see the counters as they are now.
StickyBegin(r) ==
    /\ req[r].pc = "loaded" /\ req[r].mode # "plain"
    /\ lb' = Refresh(lb, req[r].inputs, InScope(r))
    /\ req' = [req EXCEPT
                 ![r].pc = "sticky",
                 ![r].candidates =
                    {a \in InScope(r) : \/ req[r].mode = "hard_sticky"
                                        \/ BelowCap(lb', a, KindOf[r])}]
    /\ UNCHANGED <<now, known, nextId>>

\* Mutant: the cap is not checked again.
StickyCommitUnchecked(r, a) ==
    /\ req[r].pc = "sticky"
    /\ a \in req[r].candidates
    /\ nextId < MaxLeases
    /\ lb' = Acquire(Touch(lb, InScope(r)), NewLease(r, a))
    /\ nextId' = nextId + 1
    /\ req' = [req EXCEPT ![r] = Chosen(r, NewLease(r, a))]
    /\ UNCHANGED <<now, known>>

\* The sticky selection, second section: the account was picked from the
\* candidates of the first one, and its cap is checked again.
StickyCommit(r, a) ==
    /\ req[r].pc = "sticky"
    /\ a \in req[r].candidates
    /\ LET b == Touch(lb, InScope(r)) IN
       \/ /\ BelowCap(b, a, KindOf[r])
          /\ nextId < MaxLeases
          /\ lb' = Acquire(b, NewLease(r, a))
          /\ nextId' = nextId + 1
          /\ req' = [req EXCEPT ![r] = Chosen(r, NewLease(r, a))]
       \/ /\ ~BelowCap(b, a, KindOf[r])
          /\ lb' = b
          /\ req' = [req EXCEPT ![r] = NotChosen(r, TRUE)]
          /\ UNCHANGED nextId
    /\ UNCHANGED <<now, known>>

\* The sticky selection picked nothing: no candidate, or none it likes.
StickyNone(r) ==
    /\ req[r].pc = "sticky"
    /\ lb' = Touch(lb, InScope(r))
    /\ req' = [req EXCEPT ![r] = NotChosen(r, req[r].candidates = {} /\ InScope(r) # {})]
    /\ UNCHANGED <<now, known, nextId>>

\* A capped sticky selection that is not bound to its account tries again.
MustRetry(r) ==
    /\ req[r].mode = "sticky" /\ req[r].lease = None
    /\ req[r].capped /\ req[r].attempt < MaxAttempts

\* The account states were persisted: the caller gets the lease, or an error.
PersistDone(r) ==
    /\ req[r].pc = "persist"
    /\ ~MustRetry(r)
    /\ req' = [req EXCEPT ![r] = IF req[r].lease = None THEN Failed ELSE Holding(req[r].lease)]
    /\ UNCHANGED <<now, known, lb, nextId>>

\* The row of the chosen account had changed or the cache was invalidated
\* meanwhile; or nothing was found and an account recovered (plain), or the
\* cap was hit (sticky): release and select again, up to MaxAttempts times.
\* With the attempts used up, a stale selection releases and fails.
PersistRetry(r) ==
    /\ req[r].pc = "persist"
    /\ \/ req[r].lease # None
       \/ req[r].mode = "plain" /\ req[r].attempt < MaxAttempts
       \/ MustRetry(r)
    /\ lb' = Release(lb, req[r].lease)
    /\ \/ /\ req[r].attempt < MaxAttempts
          /\ \E mode \in Modes :
               /\ mode = "plain" <=> req[r].mode = "plain"
               /\ req' = [req EXCEPT ![r] = Loaded(r, mode, req[r].attempt + 1)]
       \/ /\ ~(req[r].attempt < MaxAttempts) \/ NoAccount(r)
          /\ req' = [req EXCEPT ![r] = Failed]
    /\ UNCHANGED <<now, known, nextId>>

\* Persisting raised or the request was cancelled: release and re-raise.
PersistRaises(r) ==
    /\ req[r].pc = "persist"
    /\ lb' = Release(lb, req[r].lease)
    /\ req' = [req EXCEPT ![r] = Failed]
    /\ UNCHANGED <<now, known, nextId>>

\* A caller that already knows its account asks for a lease on it.
AcquireAccountLease(r, a) ==
    /\ req[r].pc = "idle"
    /\ LET b == Touch(ReclaimStale(lb), {a}) IN
       \/ /\ BelowCap(b, a, KindOf[r])
          /\ nextId < MaxLeases
          /\ lb' = Acquire(b, NewLease(r, a))
          /\ nextId' = nextId + 1
          /\ req' = [req EXCEPT ![r] = Holding(NewLease(r, a))]
       \/ /\ ~BelowCap(b, a, KindOf[r])
          /\ lb' = b
          /\ req' = [req EXCEPT ![r] = [Failed EXCEPT !.capped = TRUE]]
          /\ UNCHANGED nextId
    /\ UNCHANGED <<now, known>>

\* The caller gives its lease back.  Error paths and their finally blocks
\* both do, so it may come twice, and after the lease was reclaimed.
ReleaseAccountLease(r) ==
    /\ req[r].pc \in {"held", "released"}
    /\ lb' = Release(lb, req[r].lease)
    /\ req' = [req EXCEPT ![r].pc = "released"]
    /\ UNCHANGED <<now, known, nextId>>

Finish(r) ==
    /\ req[r].pc \in {"released", "failed"}
    /\ req' = [req EXCEPT ![r] = Idle]
    /\ UNCHANGED <<now, known, lb, nextId>>

\* The caller disappears with its lease, which only the reclaim gives back.
Abandon(r) ==
    /\ req[r].pc = "held"
    /\ req' = [req EXCEPT ![r] = Idle]
    /\ UNCHANGED <<now, known, lb, nextId>>

\* Accounts are deleted and added while requests hold leases on them.
ChangeAccounts(a) ==
    /\ known' = IF a \in known THEN known \ {a} ELSE known \cup {a}
    /\ UNCHANGED <<now, lb, nextId, req>>

Tick ==
    /\ now < MaxTime
    /\ now' = now + 1
    /\ UNCHANGED <<known, lb, nextId, req>>

Next ==
    \/ \E r \in Requests :
         \/ LoadSelectionInputs(r) \/ Select(r) \/ StickyBegin(r) \/ StickyNone(r)
         \/ PersistDone(r) \/ PersistRetry(r) \/ PersistRaises(r)
         \/ ReleaseAccountLease(r) \/ Finish(r) \/ Abandon(r)
         \/ \E a \in Accounts : StickyCommit(r, a) \/ AcquireAccountLease(r, a)
    \/ \E a \in Accounts : ChangeAccounts(a)
    \/ Tick

Spec == Init /\ [][Next]_vars

-----------------------------------------------------------------------------
(* Properties *)

\* Type invariant.
TypeOK ==
    /\ now \in 0..MaxTime
    /\ known \subseteq Accounts
    /\ lb \in Books
    /\ nextId \in 0..MaxLeases
    /\ req \in [Requests -> RequestStates]

\* The counters that decide about caps count exactly the leases that are out,
\* whatever mix of selections, releases, repeated releases, reclaims and
\* prunes got there (_acquire_account_lease_locked,
\* _release_account_lease_locked, _prune_runtime).
CountersMatchLeases ==
    \A a \in Accounts, k \in Kinds :
        lb.inflight[a][k] = Cardinality(LeasesOf(lb.leases, a, k))

\* The token pressure of an account is that of its leases: no estimate is
\* left behind when a lease goes, and none is taken off twice.
TokensMatchLeases ==
    \A a \in Accounts : lb.leased_tokens[a] = TokensOf(lb.leases, a)

\* No account has more leases of a kind than its configured cap, also when a
\* sticky selection acquires on counters that others changed meanwhile.
CapRespected ==
    \A a \in Accounts, k \in Kinds :
        CapOf[k] > 0 => Cardinality(LeasesOf(lb.leases, a, k)) <= CapOf[k]

\* A stream keeps its lease for as long as its request budget allows it to
\* run: neither the reclaim nor another caller's release takes it away.
LiveStreamKeepsLease ==
    \A r \in Requests :
        LET l == req[r].lease IN
        (/\ req[r].pc \in {"persist", "held"}
         /\ l # None
         /\ KindOf[r] = "stream"
         /\ now - l.acquired_at <= RequestBudget) => l \in lb.leases

\* A plain selection or a direct acquisition is turned away for the cap only
\* by leases that are not stale: abandoned leases do not block an account
\* past their time to live.
CapRejectionIsFresh ==
    [][\A r \in Requests :
          (/\ req[r].pc \in {"idle", "loaded"}
           /\ req'[r].pc \in {"failed", "persist"}
           /\ ~req[r].capped /\ req'[r].capped)
          => \A l \in lb'.leases : ~Stale(l)]_vars
=============================================================================
