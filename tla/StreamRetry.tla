----------------------------- MODULE StreamRetry -----------------------------
(***************************************************************************)
(* One streamed request and its attempts (_stream_with_retry of            *)
(* app/modules/proxy/_service/streaming).                                  *)
(*                                                                         *)
(* The request selects an account, with a stream lease on it, makes sure   *)
(* that its token is fresh and opens a stream to the provider.  A failure  *)
(* before the client has seen output is retried on the same account or on  *)
(* another one; a 401 is followed by a forced refresh and one more attempt.*)
(* At the end the leases are given back and the API key's reservation is   *)
(* finalized or released.  Meanwhile the client may leave, the task may be *)
(* cancelled and the budget may run out.                                   *)
(*                                                                         *)
(* What the balancer, the provider and the database answer is a choice of  *)
(* the environment.  Attempts are numbered from 0; the lease taken by an   *)
(* attempt is a pair of its number and the account.                        *)
(***************************************************************************)
EXTENDS Naturals

CONSTANTS
    Accounts,
    Authorized,   \* accounts with security_work_authorized
    MaxAttempts,  \* _STREAM_MAX_ACCOUNT_ATTEMPTS
    MaxRetries,   \* _MAX_TRANSIENT_SAME_ACCOUNT_RETRIES
    None

ASSUME StreamAssumption ==
    /\ Authorized \subseteq Accounts /\ None \notin Accounts
    /\ MaxAttempts \in Nat \ {0} /\ MaxRetries \in Nat \ {0}

VARIABLES
    pin,          \* the account the request has to use, and why
    buffering,    \* retry_protocol_only_failures
    st,           \* RetryState
    once,         \* the running _stream_once and its settlement
    orphan,       \* the create lease of a _stream_once nobody iterates any more
    held,         \* stream leases of this request in the balancer
    kept,         \* history: leases of attempts whose token could not be refreshed
    reservation,  \* the API key's reservation
    cleanup,      \* a task that releases the reservation is scheduled
    shown,        \* output of the provider has reached the client
    expired,      \* the request's budget is used up
    client,       \* here, left (closed the stream) or cancelled
    faults        \* what has failed in the environment

vars == <<pin, buffering, st, once, orphan, held, kept, reservation, cleanup,
          shown, expired, client, faults>>

-----------------------------------------------------------------------------
(* State *)

Pins == {[kind |-> "none", account |-> None]}
          \cup [kind : {"owner", "file"}, account : Accounts]

Lease(n, a) == <<n, a>>
Leases == (0..(MaxAttempts - 1)) \X Accounts

\* refreshed: this is the attempt after a forced refresh.
States == [pc : {"select", "prepare", "open", "first", "stream", "refresh",
                 "settle", "ending", "done"},
           attempt : 0..MaxAttempts, transient_retries : 0..MaxRetries,
           account : Accounts \cup {None}, excluded : SUBSET Accounts,
           security : BOOLEAN, refreshed : BOOLEAN, settled : BOOLEAN,
           account_leases : SUBSET Leases, current_lease : Leases \cup {None}]

\* create: the account of the response-create lease.  committed: lines are passed
\* on.  buffer: the worst of the lines kept back.  outcome: the terminal event.
Onces == [create : Accounts \cup {None}, visible : BOOLEAN, committed : BOOLEAN,
          buffer : {"none", "protocol", "transient", "fatal"},
          outcome : {"none", "completed", "unpriced", "failed"}]

Fresh == [create |-> None, visible |-> FALSE, committed |-> st.refreshed \/ ~buffering,
          buffer |-> "none", outcome |-> "none"]

Init ==
    /\ pin \in Pins
    /\ buffering \in BOOLEAN
    /\ st = [pc |-> "select", attempt |-> 0, transient_retries |-> 0, account |-> None,
             excluded |-> {}, security |-> FALSE, refreshed |-> FALSE, settled |-> FALSE,
             account_leases |-> {}, current_lease |-> None]
    /\ once = [create |-> None, visible |-> FALSE, committed |-> FALSE,
               buffer |-> "none", outcome |-> "none"]
    /\ orphan = None
    /\ held = {} /\ kept = {}
    /\ reservation = "reserved" /\ cleanup = FALSE
    /\ shown = FALSE /\ expired = FALSE
    /\ client = "here"
    /\ faults = {}

-----------------------------------------------------------------------------
(* How an attempt may end *)

Last == st.attempt = MaxAttempts - 1

Goto(p) == st' = [st EXCEPT !.pc = p]

\* The request is over but for the finally clause: by a failure event or an error.
Stop == Goto("ending") /\ UNCHANGED <<held, kept>>

\* Mutant: the lease stays until the end of the request.
FailOverKeeping(secure) ==
    /\ st' = [st EXCEPT !.pc = "select", !.attempt = @ + 1, !.refreshed = FALSE,
                        !.excluded = @ \cup {st.account}, !.security = @ \/ secure,
                        !.current_lease = None]
    /\ UNCHANGED <<held, kept>>

\* The lease is given back, the account is excluded, the next attempt begins.
FailOver(secure) ==
    /\ st' = [st EXCEPT !.pc = "select", !.attempt = @ + 1, !.refreshed = FALSE,
                        !.excluded = @ \cup {st.account}, !.security = @ \/ secure,
                        !.account_leases = @ \ {st.current_lease}, !.current_lease = None]
    /\ held' = held \ {st.current_lease}
    /\ UNCHANGED kept

\* The account could not be refreshed: the next attempt begins, the lease stays.
MoveOn(excluded) ==
    /\ st' = [st EXCEPT !.pc = "select", !.attempt = @ + 1, !.refreshed = FALSE,
                        !.excluded = @ \cup excluded]
    /\ kept' = kept \cup {st.current_lease}
    /\ UNCHANGED held

\* A transient failure: the same account again after a pause, a few times.
RetrySame ==
    /\ st.transient_retries + 1 < MaxRetries /\ ~expired
    /\ st' = [st EXCEPT !.pc = "open", !.transient_retries = @ + 1]
    /\ UNCHANGED <<held, kept>>

GiveUpAccount ==
    /\ st.transient_retries + 1 >= MaxRetries \/ expired
    /\ FailOver(FALSE)

\* A request that needs an authorized account may look for one.
MayAuthorize ==
    /\ st.account \notin Authorized
    /\ pin.kind # "owner" /\ ~(pin.kind = "file" /\ st.account = pin.account)
    /\ ~Last

-----------------------------------------------------------------------------
(* select_retry_account *)

\* Mutant: one attempt too many.
ExhaustedLate == st.attempt > MaxAttempts

Exhausted == st.attempt = MaxAttempts

\* The accounts _select_account_with_budget may return: a file's account cannot
\* be replaced, the owner of the previous response can.
Pickable(a) ==
    /\ a \notin st.excluded
    /\ st.security => a \in Authorized
    /\ pin.kind = "file" => a = pin.account

\* Attempts or budget are used up.
GiveUp ==
    /\ st.pc = "select" /\ (Exhausted \/ expired)
    /\ Stop
    /\ UNCHANGED <<pin, buffering, once, orphan, reservation, cleanup, shown, expired, client, faults>>

\* An account, with a lease.  If it is not the owner the request fails closed.
SelectAccount(a) ==
    /\ st.pc = "select" /\ ~Exhausted /\ ~expired /\ Pickable(a)
    /\ LET lease == Lease(st.attempt, a) IN
       /\ held' = held \cup {lease}
       /\ st' = [st EXCEPT !.pc = IF pin.kind = "owner" /\ a # pin.account
                                  THEN "ending" ELSE "prepare",
                           !.account = a, !.current_lease = lease,
                           !.account_leases = @ \cup {lease}]
    /\ UNCHANGED <<pin, buffering, once, orphan, kept, reservation, cleanup, shown,
                   expired, client, faults>>

\* No account.  Without an authorized one the client is told and any will do.
SelectNone ==
    /\ st.pc = "select" /\ ~Exhausted /\ ~expired
    /\ \/ Stop
       \/ /\ st.security
          /\ st' = [st EXCEPT !.security = FALSE, !.account = None, !.current_lease = None]
          /\ UNCHANGED <<held, kept>>
    /\ UNCHANGED <<pin, buffering, once, orphan, reservation, cleanup, shown, expired, client, faults>>

-----------------------------------------------------------------------------
(* prepare_stream_attempt, and the forced refresh after a 401 *)

\* The token is fresh, or has been refreshed.
EnsureFresh ==
    /\ st.pc \in {"prepare", "refresh"} /\ ~expired
    /\ st' = [st EXCEPT !.pc = "open",
                        !.refreshed = (st.pc = "refresh"),
                        !.transient_retries = IF st.pc = "prepare" THEN 0 ELSE @]
    /\ UNCHANGED <<pin, buffering, once, orphan, held, kept, reservation, cleanup,
                   shown, expired, client, faults>>

\* RefreshError: the next attempt may select the account again.
RefreshFails ==
    /\ st.pc \in {"prepare", "refresh"}
    /\ MoveOn({})
    /\ UNCHANGED <<pin, buffering, once, orphan, reservation, cleanup, shown, expired, client, faults>>

\* The refresh timed out or could not connect.
RefreshUnreachable ==
    /\ st.pc \in {"prepare", "refresh"}
    /\ pin.kind = "none" /\ ~Last
    /\ MoveOn({st.account})
    /\ UNCHANGED <<pin, buffering, once, orphan, reservation, cleanup, shown, expired, client, faults>>

\* The budget is used up, there is no route, or the request cannot move on.
RefreshStops ==
    /\ st.pc \in {"prepare", "refresh"}
    /\ Stop
    /\ UNCHANGED <<pin, buffering, once, orphan, reservation, cleanup, shown, expired, client, faults>>

-----------------------------------------------------------------------------
(* Errors of an attempt, as stream_account_attempts and                     *)
(* recover_stream_response_error treat them                                 *)

Errors == {"unauthorized", "internal", "security", "cap", "neutral", "limited", "refused"}

\* Mutant: whatever a buffering request has passed on does not count.
SurfacesUnbuffered(o) == o.visible /\ ~buffering

\* The client may have seen output.
Surfaces(o) == o.visible /\ o.committed

\* What becomes of an error before any output; failover_decision is part of it.
Decide(e) ==
    \/ e = "internal" /\ (RetrySame \/ GiveUpAccount)
    \/ e = "cap" /\ FailOver(FALSE)
    \/ e = "security" /\ MayAuthorize /\ FailOver(TRUE)
    \/ e = "limited" /\ ~Last /\ FailOver(FALSE)
    \/ e = "unauthorized" /\ Goto("refresh") /\ UNCHANGED <<held, kept>>
    \/ /\ \/ e \in {"neutral", "refused"}
          \/ e = "security" /\ ~MayAuthorize
          \/ e = "limited" /\ Last
       /\ Stop

\* The attempt after a forced refresh: an account that is refused again is left.
DecideRefreshed(e) ==
    \/ e = "cap" /\ FailOver(FALSE)
    \/ e \in {"unauthorized", "limited", "internal"} /\ ~Last /\ FailOver(FALSE)
    \/ /\ \/ e \in {"neutral", "refused", "security"}
          \/ e \in {"unauthorized", "limited", "internal"} /\ Last
       /\ Stop

\* The error ends the stream once the client has seen output, else it is decided
\* upon.  o is the _stream_once it comes from, which gives back its lease.
Fail(o, e) ==
    /\ once' = [o EXCEPT !.create = None, !.outcome = "failed"]
    /\ \/ Surfaces(o) /\ Goto("settle") /\ UNCHANGED <<held, kept>>
       \/ ~Surfaces(o) /\ ~st.refreshed /\ Decide(e)
       \/ ~Surfaces(o) /\ st.refreshed /\ DecideRefreshed(e)
    /\ UNCHANGED <<pin, buffering, orphan, reservation, cleanup, shown, expired, client, faults>>

-----------------------------------------------------------------------------
(* _stream_once *)

\* The create lease and the admission are there: the provider is called.
OpenStream ==
    /\ st.pc = "open"
    /\ once' = [Fresh EXCEPT !.create = st.account]
    /\ Goto("first")
    /\ UNCHANGED <<pin, buffering, orphan, held, kept, reservation, cleanup, shown,
                   expired, client, faults>>

\* The account is at its create cap, or the proxy is overloaded.
OpenRefused == st.pc = "open" /\ \E e \in {"cap", "neutral"} : Fail(Fresh, e)

\* A failure event made by the proxy: it is passed on, or kept back, and
\* _stream_once returns.
ProxyEvent(o, create, class) ==
    /\ once' = [o EXCEPT !.create = create, !.outcome = "failed",
                         !.buffer = IF o.committed THEN @ ELSE class]
    /\ Goto("stream")
    /\ UNCHANGED <<pin, buffering, orphan, held, kept, reservation, cleanup, shown,
                   expired, client, faults>>

\* There is no route to the provider.
OpenUnrouted == st.pc = "open" /\ ProxyEvent(Fresh, None, "fatal")

\* The stream ends before its first event.
FirstMissing == st.pc = "first" /\ ProxyEvent(once, None, "transient")

\* The provider cannot be reached: another account, if there is an attempt left.
FirstUnreachable ==
    /\ st.pc = "first"
    /\ \/ /\ ~Last /\ ~st.refreshed
          /\ once' = [once EXCEPT !.create = None, !.outcome = "failed"]
          /\ FailOver(FALSE)
          /\ UNCHANGED <<pin, buffering, orphan, reservation, cleanup, shown, expired, client, faults>>
       \/ /\ Last \/ st.refreshed
          /\ \E class \in {"transient", "fatal"} : ProxyEvent(once, None, class)

\* An error about the previous response is replaced by a failure event.  The
\* create lease is held until the client has taken it.  A request pinned by
\* its file may have a previous response too, whose owner was not found.
Rewritten ==
    /\ st.pc \in {"first", "stream"} /\ once.outcome = "none"
    /\ \E class \in {"transient", "fatal"} : ProxyEvent(once, once.create, class)

\* The provider answers with an error, before or after the first event.
UpstreamError ==
    /\ st.pc \in {"first", "stream"} /\ once.outcome = "none"
    /\ \E e \in Errors : Fail(once, e)

\* The first event is a failure that may be retried.
FirstFailed(class) ==
    /\ st.pc = "first" /\ ~st.refreshed
    /\ once' = [once EXCEPT !.create = None, !.outcome = "failed"]
    /\ \/ class = "recovery" /\ ~Last /\ FailOver(FALSE)
       \/ class = "security" /\ ~Last /\ MayAuthorize /\ FailOver(TRUE)
       \/ class = "security" /\ ~Last /\ ~MayAuthorize /\ Stop
       \/ /\ class = "transient"
          /\ st.transient_retries < MaxRetries - 1 \/ ~Last
          /\ RetrySame \/ GiveUpAccount
    /\ UNCHANGED <<pin, buffering, orphan, reservation, cleanup, shown, expired, client, faults>>

\* It is one that may not: the client gets it, unless lines are still kept back,
\* and the request stops without settling.
FirstTerminal ==
    /\ st.pc = "first"
    /\ once' = [once EXCEPT !.create = None, !.outcome = "failed", !.visible = TRUE]
    /\ shown' = (shown \/ once.committed)
    /\ Stop
    /\ UNCHANGED <<pin, buffering, orphan, reservation, cleanup, expired, client, faults>>

\* An event, the first or a later one.  Lines are kept back as long as they only
\* belong to the protocol or report a failure.
Deliver(kind) ==
    /\ st.pc \in {"first", "stream"} /\ once.outcome = "none"
    /\ st.pc = "first" => kind # "failed"
    /\ Goto("stream")
    /\ \E class \in {"transient", "fatal"} :
         LET back == ~once.committed /\ kind \in {"protocol", "failed"} IN
         /\ once' = [create |-> None, visible |-> TRUE, committed |-> ~back,
                     buffer |-> CASE ~back -> "none"
                                  [] kind = "failed" -> class
                                  [] OTHER -> "protocol",
                     outcome |-> IF kind \in {"completed", "unpriced", "failed"}
                                 THEN kind ELSE "none"]
         /\ shown' = (shown \/ ~back)
    /\ UNCHANGED <<pin, buffering, orphan, held, kept, reservation, cleanup, expired, client, faults>>

\* Anything else that is raised ends the request.
StreamBreaks ==
    /\ st.pc \in {"first", "stream"} /\ once.outcome = "none"
    /\ once' = [once EXCEPT !.create = None, !.outcome = "failed"]
    /\ Stop
    /\ UNCHANGED <<pin, buffering, orphan, reservation, cleanup, shown, expired, client, faults>>

-----------------------------------------------------------------------------
(* The end of a stream, and of the request *)

\* _stream_once has returned.  A failure that was kept back is retried if it is
\* transient; other lines that were kept back are passed on.
EndOfStream ==
    /\ st.pc = "stream" /\ once.outcome # "none"
    /\ \/ /\ once.committed
          /\ Goto("settle")
          /\ once' = [once EXCEPT !.create = None]
          /\ UNCHANGED <<shown, held, kept>>
       \/ /\ ~once.committed /\ once.buffer = "transient"
          /\ RetrySame \/ GiveUpAccount
          /\ once' = [once EXCEPT !.create = None]
          /\ UNCHANGED shown
       \/ /\ ~once.committed /\ once.buffer # "transient"
          /\ Goto("settle")
          /\ once' = [once EXCEPT !.create = None, !.committed = TRUE]
          /\ shown' = TRUE
          /\ UNCHANGED <<held, kept>>
    /\ UNCHANGED <<pin, buffering, orphan, reservation, cleanup, expired, client, faults>>

SettledAs(o) == IF o.outcome = "completed" THEN "finalized" ELSE "released"

\* _settle_stream_api_key_usage: finalized with the usage the provider reported.
Settle ==
    /\ st.pc = "settle"
    /\ \/ /\ reservation' = SettledAs(once)
          /\ st' = [st EXCEPT !.pc = "ending", !.settled = TRUE]
          /\ UNCHANGED faults
       \/ /\ Goto("ending")
          /\ faults' = faults \cup {"database"}
          /\ UNCHANGED reservation
    /\ UNCHANGED <<pin, buffering, once, orphan, held, kept, cleanup, shown, expired, client>>

\* The finally clause: every lease on the list is given back ...
ReleaseLease(l) ==
    /\ st.pc = "ending" /\ l \in st.account_leases
    /\ held' = held \ {l}
    /\ st' = [st EXCEPT !.account_leases = @ \ {l}]
    /\ UNCHANGED <<pin, buffering, once, orphan, kept, reservation, cleanup, shown,
                   expired, client, faults>>

\* _release_unsettled_stream_api_key_usage; an error is only logged.
ReleaseReservation ==
    \/ /\ reservation' = IF reservation = "reserved" THEN "released" ELSE reservation
       /\ UNCHANGED faults
    \/ /\ faults' = faults \cup {"database"}
       /\ UNCHANGED reservation

\* Mutant: a task that is being cancelled does not release the reservation.
FinishUncleaned ==
    /\ st.pc = "ending" /\ st.account_leases = {}
    /\ Goto("done")
    /\ \/ /\ st.settled \/ client = "cancelled"
          /\ UNCHANGED <<reservation, cleanup, faults>>
       \/ ~st.settled /\ client # "cancelled" /\ ReleaseReservation /\ UNCHANGED cleanup
    /\ UNCHANGED <<pin, buffering, once, orphan, held, kept, shown, expired, client>>

\* ... and a reservation that is not settled is released, by a task of its own if
\* this one is being cancelled.
Finish ==
    /\ st.pc = "ending" /\ st.account_leases = {}
    /\ Goto("done")
    /\ \/ st.settled /\ UNCHANGED <<reservation, cleanup, faults>>
       \/ ~st.settled /\ client # "cancelled" /\ ReleaseReservation /\ UNCHANGED cleanup
       \/ /\ ~st.settled /\ client = "cancelled"
          /\ cleanup' = TRUE
          /\ UNCHANGED <<reservation, faults>>
    /\ UNCHANGED <<pin, buffering, once, orphan, held, kept, shown, expired, client>>

\* The task scheduled by _schedule_cancel_safe_cleanup.
CleanUp ==
    /\ cleanup
    /\ cleanup' = FALSE
    /\ ReleaseReservation
    /\ UNCHANGED <<pin, buffering, st, once, orphan, held, kept, shown, expired, client>>

-----------------------------------------------------------------------------
(* The client, the task and the clock *)

\* The client closes the stream after a line: the outer generator is closed, and
\* the inner one some time later.
Leave ==
    /\ client = "here"
    /\ \/ st.pc \in {"stream", "settle"} /\ once.committed
       \/ st.pc = "select" /\ st.security
    /\ client' = "left"
    /\ Goto("ending")
    /\ orphan' = IF st.pc = "stream" THEN once.create ELSE None
    /\ once' = [once EXCEPT !.create = None]
    /\ UNCHANGED <<pin, buffering, held, kept, reservation, cleanup, shown, expired, faults>>

\* The abandoned _stream_once runs its finally clause.
CloseOrphan ==
    /\ orphan # None
    /\ orphan' = None
    /\ UNCHANGED <<pin, buffering, st, once, held, kept, reservation, cleanup, shown,
                   expired, client, faults>>

\* The task is cancelled while it waits; _stream_once runs its finally clause,
\* which may be cut short when the cancellation is delivered again.
Cancel ==
    /\ client = "here" /\ st.pc \notin {"ending", "done"}
    /\ client' = "cancelled"
    /\ Goto("ending")
    /\ \/ /\ once' = [once EXCEPT !.create = None]
          /\ UNCHANGED faults
       \/ /\ once.create # None
          /\ faults' = faults \cup {"interrupted"}
          /\ UNCHANGED once
    /\ UNCHANGED <<pin, buffering, orphan, held, kept, reservation, cleanup, shown, expired>>

\* The task is cancelled while the outer finally clause gives leases back: what
\* is left is for the stale watchdog and the sweep.
Interrupt ==
    /\ client # "left" /\ st.pc = "ending" /\ st.account_leases # {}
    /\ client' = "cancelled"
    /\ Goto("done")
    /\ faults' = faults \cup {"interrupted"}
    /\ UNCHANGED <<pin, buffering, once, orphan, held, kept, reservation, cleanup,
                   shown, expired>>

Expire ==
    /\ ~expired /\ st.pc # "done"
    /\ expired' = TRUE
    /\ UNCHANGED <<pin, buffering, st, once, orphan, held, kept, reservation, cleanup,
                   shown, client, faults>>

-----------------------------------------------------------------------------

Select == GiveUp \/ SelectNone \/ \E a \in Accounts : SelectAccount(a)

Prepare == EnsureFresh \/ RefreshFails \/ RefreshUnreachable \/ RefreshStops

StreamOnce ==
    \/ OpenStream \/ OpenRefused \/ OpenUnrouted
    \/ FirstMissing \/ FirstUnreachable \/ FirstTerminal \/ Rewritten
    \/ \E class \in {"recovery", "security", "transient"} : FirstFailed(class)
    \/ \E kind \in {"protocol", "data", "completed", "unpriced", "failed"} : Deliver(kind)
    \/ UpstreamError \/ StreamBreaks

Wind == EndOfStream \/ Settle \/ Finish \/ \E l \in Leases : ReleaseLease(l)

Work == Select \/ Prepare \/ StreamOnce \/ Wind

Done ==
    /\ st.pc = "done" /\ ~cleanup /\ orphan = None
    /\ UNCHANGED vars

Next ==
    \/ Work \/ CleanUp \/ CloseOrphan
    \/ Leave \/ Cancel \/ Interrupt \/ Expire
    \/ Done

Spec == Init /\ [][Next]_vars

\* The event loop runs the request and the cleanup task, the provider answers or
\* its timeouts strike, the client reads or leaves, abandoned generators are closed.
FairSpec == Spec /\ WF_vars(Work) /\ WF_vars(CleanUp) /\ WF_vars(CloseOrphan)

-----------------------------------------------------------------------------
(* Properties *)

\* Type invariant.
TypeOK ==
    /\ pin \in Pins /\ buffering \in BOOLEAN
    /\ st \in States /\ once \in Onces
    /\ orphan \in Accounts \cup {None}
    /\ held \subseteq Leases /\ kept \subseteq Leases
    /\ reservation \in {"reserved", "finalized", "released"}
    /\ cleanup \in BOOLEAN /\ shown \in BOOLEAN /\ expired \in BOOLEAN
    /\ client \in {"here", "left", "cancelled"}
    /\ faults \subseteq {"database", "interrupted"}

\* The no-replay rule of specs/responses-api-compat: once output has reached the
\* client the provider is not called again, on no account, whether the request
\* keeps lines back at first or not, and also after a forced refresh.
NoReplay == [][st.pc = "open" /\ st'.pc = "first" => ~shown]_vars

\* An attempt runs on an account that the request may use (the owner of the
\* previous response or of the file, none that failed it before), under a lease
\* of its own, and the leases of earlier attempts are gone.  The code keeps one
\* exception: the leases of accounts whose token could not be refreshed.
AttemptEligible ==
    st.pc \in {"prepare", "open", "first", "stream", "refresh"} =>
        /\ pin.kind # "none" => st.account = pin.account
        /\ st.account \notin st.excluded
        /\ st.current_lease = Lease(st.attempt, st.account)
        /\ st.current_lease \in held
        /\ held \subseteq kept \cup {st.current_lease}

Interrupted == "interrupted" \in faults

\* Nothing of the request is left.
Clean ==
    /\ st.pc = "done" /\ ~cleanup
    /\ orphan = None
    /\ Interrupted \/ (once.create = None /\ held = {})
    /\ Interrupted \/ "database" \in faults \/ reservation # "reserved"
    /\ client = "here" /\ faults = {} =>
          (reservation = "finalized" <=> once.outcome = "completed")

\* Every request ends, and then its leases are given back and its reservation is
\* settled: finalized if and only if the client was served to the end with a usage
\* the provider reported.  What a cancellation of the finally clauses or a failing
\* database leaves behind is for the watchdog and the sweep.
EndsClean == <>[]Clean

=============================================================================
