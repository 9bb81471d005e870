-------------------------- MODULE AccountTransfers --------------------------
(***************************************************************************)
(* Custody of one account between two instances of agent-lb, the hub and a *)
(* taker (app/modules/federation).                                         *)
(*                                                                         *)
(* Each instance has a database of its own with a row for the account and  *)
(* a table of transfers.  An instance may exchange the refresh token only  *)
(* if its row says that it owns the account.  Operators of the taker check *)
(* the account out and in and reclaim transfers that got stuck; each of    *)
(* these requests is a sequence of local transactions and calls of the hub *)
(* that may time out while the hub still answers, or be cut off by a       *)
(* restart.                                                                *)
(*                                                                         *)
(* PostgreSQL locks the rows a transaction has read, which makes it one    *)
(* step.  SQLite ignores FOR UPDATE, and reads before the transaction of   *)
(* the writes begins: there a transaction looks, and writes in a later     *)
(* step what it has decided on.                                            *)
(*                                                                         *)
(* Refresh tokens work once.  They are numbers in the order in which the   *)
(* provider issues them, 0 is the blank token; the access token issued     *)
(* with a refresh token has the same number.  Nonces are numbers in the    *)
(* order in which the taker draws them.                                    *)
(***************************************************************************)
EXTENDS Naturals

CONSTANTS
    FirstOwner,  \* who owns the account at first
    RowLocks,    \* the instances whose database locks the rows that are read
    Ops,         \* requests of operators of the taker that may run at a time
    MaxNonces,   \* bound of the transfers
    MaxTokens,   \* bound of the tokens the provider issues
    MaxFaults,   \* bound of the timeouts and restarts
    None

ASSUME TransferAssumption ==
    /\ MaxNonces \in Nat \ {0} /\ MaxTokens \in Nat \ {0} /\ MaxFaults \in Nat
    /\ FirstOwner \in {"hub", "taker"}
    /\ RowLocks \subseteq {"hub", "taker"}
    /\ None \notin Ops

Hub == "hub"
Taker == "taker"
Instances == {Hub, Taker}
Nonces == 1..MaxNonces
Tokens == 0..MaxTokens

VARIABLES
    row,        \* the account in each database: owner, refresh and access token
    transfers,  \* account_transfers of each database, by nonce
    intent,     \* account_exchange_intents of each database: the token, or 0
    live,       \* external: the refresh token the provider accepts
    op,         \* where each request of an operator is
    calls,      \* calls of the hub on their way; nobody waits for those from None
    mirror,     \* the access token of a mirror response on its way, or None
    reblanked,  \* history: a checkin was settled twice and blanked a token
    torn,       \* history: a transaction wrote what it would no longer decide
    faults

vars == <<row, transfers, intent, live, op, calls, mirror, reblanked, torn, faults>>

-----------------------------------------------------------------------------
(* State *)

Auths == [refresh : Tokens, access : Tokens]
NoAuth == [refresh |-> 0, access |-> 0]

Rows == [owner : Instances, refresh : Tokens, access : Tokens]

Directions == {"checkout", "checkin"}
Transfer(d, s) == [direction |-> d, state |-> s]
NoTransfer == Transfer("checkout", "unknown")
States == {"unknown", "pending", "aborting", "settled", "aborted"}
Transfers == [direction : Directions, state : States]

Kinds == {"checkout", "confirm", "checkin", "abort"}
\* read: the state of the transfer its transaction has read and decided on.
Calls == [from : Ops \cup {None}, kind : Kinds, nonce : Nonces,
          direction : Directions, auth : Auths, read : States \cup {"no"}]

\* reserving, releasing: a checkout or checkin has been decided on.  released: the
\* checkin's payload is to be read.  reclaim: the checkin failed.  begin: the
\* checkout to abort has been found.
OpStates == [pc : {"idle", "reserving", "releasing", "released", "reclaim", "begin",
                   "waiting", "answered"},
             kind : Kinds, nonce : Nonces, direction : Directions, auth : Auths,
             answer : {"none", "ok", "refused", "aborted", "settled"},
             read : States \cup {"no"}]
Idle == [pc |-> "idle", kind |-> "checkout", nonce |-> 1, direction |-> "checkout",
         auth |-> NoAuth, answer |-> "none", read |-> "no"]

LocallyOwned(i) == row[i].owner = i

Auth(i) == [refresh |-> row[i].refresh, access |-> row[i].access]

Open(t) == t.state \in {"pending", "aborting"}
OpenTransfers(i) == {n \in Nonces : Open(transfers[i][n])}
Known(i) == {n \in Nonces : transfers[i][n].state # "unknown"}

\* get_open_transfer
LatestOpen(n) ==
    n \in OpenTransfers(Taker) /\ \A m \in OpenTransfers(Taker) : m <= n

\* get_latest_transfer: the nonces are in the order of creation on both sides.
LatestCheckout(i, n) ==
    /\ n \in Known(i) /\ transfers[i][n].direction = "checkout"
    /\ \A m \in Known(i) : transfers[i][m].direction = "checkout" => m <= n

\* The account has not been transferred yet, or it is checked out.
Init ==
    /\ row = [i \in Instances |-> [owner |-> FirstOwner, access |-> 1,
                                   refresh |-> IF i = FirstOwner THEN 1 ELSE 0]]
    /\ transfers = [i \in Instances |-> [n \in Nonces |->
                      IF FirstOwner = Taker /\ n = 1
                      THEN Transfer("checkout", "settled") ELSE NoTransfer]]
    /\ intent = [i \in Instances |-> 0]
    /\ live = 1
    /\ op = [o \in Ops |-> Idle]
    /\ calls = {}
    /\ mirror = None
    /\ reblanked = FALSE
    /\ torn = FALSE
    /\ faults = 0

-----------------------------------------------------------------------------
(* Transactions, and helpers of the taker's requests *)

\* A transaction of instance i that may write only if `can` holds: with row locks
\* it reads and writes at once, without it writes whatever it has read before.
Writes(i, read, can) == IF i \in RowLocks THEN can ELSE read # "no"

\* It reads that it may not write, and gives up.
GivesUp(read, can) == read = "no" /\ ~can

Tears(can) == torn' = (torn \/ ~can)

\* The request calls the hub and waits.
Call(o, k, n, d, auth) ==
    /\ op' = [op EXCEPT ![o] = [pc |-> "waiting", kind |-> k, nonce |-> n, direction |-> d,
                                auth |-> auth, answer |-> "none", read |-> "no"]]
    /\ calls' = calls \cup {[from |-> o, kind |-> k, nonce |-> n, direction |-> d,
                             auth |-> auth, read |-> "no"]}

End(o) == op' = [op EXCEPT ![o] = Idle] /\ UNCHANGED calls

Answered(o, k, answers) ==
    op[o].pc = "answered" /\ op[o].kind = k /\ op[o].answer \in answers

SetTransfer(i, n, d, s) == transfers' = [transfers EXCEPT ![i][n] = Transfer(d, s)]

\* The calls of a request that no longer waits.
Orphaned(os) ==
    {IF c.from \in os THEN [c EXCEPT !.from = None] ELSE c : c \in calls}

-----------------------------------------------------------------------------
(* execute_checkout *)

CanReserve == OpenTransfers(Taker) = {} /\ row[Taker].owner = Hub

\* A transfer is reserved under a new nonce and the hub is asked to release.
ReserveCheckout(o) ==
    /\ IF Taker \in RowLocks THEN op[o].pc = "idle" /\ CanReserve ELSE op[o].pc = "reserving"
    /\ \E n \in Nonces :
         /\ Known(Taker) = 1..(n - 1)
         /\ SetTransfer(Taker, n, "checkout", "pending")
         /\ Call(o, "checkout", n, "checkout", NoAuth)
    /\ Tears(CanReserve)
    /\ UNCHANGED <<row, intent, live, mirror, reblanked, faults>>

\* A checkout is pending already: the hub is asked once more.
RetryCheckout(o) ==
    /\ op[o].pc = "idle"
    /\ \E n \in Nonces :
         /\ LatestOpen(n)
         /\ transfers[Taker][n] = Transfer("checkout", "pending")
         /\ Call(o, "checkout", n, "checkout", NoAuth)
    /\ UNCHANGED <<row, transfers, intent, live, mirror, reblanked, torn, faults>>

\* Mutant: the reservation is not looked at again when the tokens arrive.
ReservedOnce(n) == TRUE

\* The part of the decision that the update itself makes.
Reserved(n) ==
    /\ transfers[Taker][n] = Transfer("checkout", "pending")
    /\ OpenTransfers(Taker) = {n}

CanImport(n) == Reserved(n) /\ ~LocallyOwned(Taker)

\* The hub has released: the tokens are stored, the taker owns the account,
\* and the hub is told so.  A reservation that was aborted meanwhile is an error.
ImportCheckout(o) ==
    /\ Answered(o, "checkout", {"ok"})
    /\ LET n == op[o].nonce IN
       \/ /\ Writes(Taker, op[o].read, CanImport(n)) /\ Reserved(n)
          /\ row' = [row EXCEPT ![Taker] = [owner |-> Taker, refresh |-> op[o].auth.refresh,
                                            access |-> op[o].auth.access]]
          /\ SetTransfer(Taker, n, "checkout", "settled")
          /\ Call(o, "confirm", n, "checkout", NoAuth)
          /\ Tears(CanImport(n))
       \/ /\ GivesUp(op[o].read, CanImport(n)) \/ (op[o].read # "no" /\ ~Reserved(n))
          /\ End(o)
          /\ UNCHANGED <<row, transfers, torn>>
    /\ UNCHANGED <<intent, live, mirror, reblanked, faults>>

\* The confirmation has been answered; a refusal is only logged.
Confirmed(o) ==
    /\ Answered(o, "confirm", {"ok"})
    /\ End(o)
    /\ UNCHANGED <<row, transfers, intent, live, mirror, reblanked, torn, faults>>

-----------------------------------------------------------------------------
(* execute_checkin *)

CanGiveBack ==
    /\ \E c \in Nonces : LatestCheckout(Taker, c)
    /\ intent[Taker] = 0
    /\ LocallyOwned(Taker) /\ OpenTransfers(Taker) = {}

\* The taker gives the account up under a new nonce.
ReleaseForCheckin(o) ==
    /\ IF Taker \in RowLocks THEN op[o].pc = "idle" /\ CanGiveBack ELSE op[o].pc = "releasing"
    /\ \E n \in Nonces :
         /\ Known(Taker) = 1..(n - 1)
         /\ row' = [row EXCEPT ![Taker].owner = Hub]
         /\ SetTransfer(Taker, n, "checkin", "pending")
         /\ op' = [op EXCEPT ![o] = [Idle EXCEPT !.pc = "released", !.nonce = n]]
    /\ Tears(CanGiveBack)
    /\ UNCHANGED <<intent, live, calls, mirror, reblanked, faults>>

\* It takes up a checkin that is pending.
RetryCheckin(o) ==
    /\ op[o].pc = "idle"
    /\ \E c \in Nonces : LatestCheckout(Taker, c)
    /\ intent[Taker] = 0 /\ row[Taker].owner = Hub
    /\ \E n \in Nonces :
         /\ transfers[Taker][n] = Transfer("checkin", "pending")
         /\ \A m \in Nonces : transfers[Taker][m] = transfers[Taker][n] => m <= n
         /\ op' = [op EXCEPT ![o] = [Idle EXCEPT !.pc = "released", !.nonce = n]]
    /\ UNCHANGED <<row, transfers, intent, live, calls, mirror, reblanked, torn, faults>>

\* The account is read again after the commit and sent to the hub.
SendCheckin(o) ==
    /\ op[o].pc = "released"
    /\ Call(o, "checkin", op[o].nonce, "checkin", Auth(Taker))
    /\ UNCHANGED <<row, transfers, intent, live, mirror, reblanked, torn, faults>>

\* The hub has the tokens, as its answer to the checkin or to a reclaim says.
HubHasTokens(o) ==
    /\ Answered(o, "checkin", {"ok"}) \/ Answered(o, "abort", {"settled"})
    /\ op[o].direction = "checkin"

CanSettleCheckin(n) ==
    /\ transfers[Taker][n].direction = "checkin"
    /\ transfers[Taker][n].state \in {"pending", "settled"}
    /\ row[Taker].owner = Hub

\* The taker blanks its refresh token.  A state read as settled is not written.
SettleCheckinAndBlank(o) ==
    /\ HubHasTokens(o)
    /\ LET n == op[o].nonce
           t == transfers[Taker][n]
           kept == Taker \notin RowLocks /\ op[o].read = "settled"
       IN
       \/ /\ Writes(Taker, op[o].read, CanSettleCheckin(n))
          /\ row' = [row EXCEPT ![Taker].refresh = 0]
          /\ SetTransfer(Taker, n, t.direction, IF kept THEN t.state ELSE "settled")
          /\ reblanked' = (reblanked \/ (t.state = "settled" /\ row[Taker].refresh # 0))
          /\ Tears(CanSettleCheckin(n) /\ (kept => t.state = "settled"))
       \/ /\ GivesUp(op[o].read, CanSettleCheckin(n))
          /\ UNCHANGED <<row, transfers, reblanked, torn>>
    /\ End(o)
    /\ UNCHANGED <<intent, live, mirror, faults>>

-----------------------------------------------------------------------------
(* reclaim, asked for by an operator or after a failed checkin *)

CanReclaim(o) == op[o].pc \in {"idle", "reclaim"}

\* No transfer is open: the last checkout is confirmed once more, if settled.
ReclaimSettled(o) ==
    /\ CanReclaim(o) /\ OpenTransfers(Taker) = {}
    /\ \/ \E n \in Nonces :
            /\ LatestCheckout(Taker, n) /\ transfers[Taker][n].state = "settled"
            /\ Call(o, "confirm", n, "checkout", NoAuth)
       \/ /\ \A n \in Nonces :
                LatestCheckout(Taker, n) => transfers[Taker][n].state # "settled"
          /\ End(o)
    /\ UNCHANGED <<row, transfers, intent, live, mirror, reblanked, torn, faults>>

\* A checkin is open: the hub decides whether it happened.
ReclaimCheckin(o) ==
    /\ CanReclaim(o)
    /\ \E n \in Nonces :
         /\ LatestOpen(n) /\ transfers[Taker][n].direction = "checkin"
         /\ Call(o, "abort", n, "checkin", NoAuth)
    /\ UNCHANGED <<row, transfers, intent, live, mirror, reblanked, torn, faults>>

\* A checkout is open: it is marked before the hub is asked to abort it.
ReclaimCheckout(o) ==
    /\ CanReclaim(o)
    /\ \E n \in Nonces :
         /\ LatestOpen(n) /\ transfers[Taker][n].direction = "checkout"
         /\ op' = [op EXCEPT ![o] = [Idle EXCEPT !.pc = "begin", !.nonce = n]]
    /\ UNCHANGED <<row, transfers, intent, live, calls, mirror, reblanked, torn, faults>>

\* Mutant: an abort that is under way cannot be asked for again.
AbortOnce(o) ==
    /\ op[o].pc = "begin"
    /\ LET n == op[o].nonce
           s == transfers[Taker][n].state
       IN  \/ /\ Writes(Taker, op[o].read, s = "pending")
              /\ SetTransfer(Taker, n, "checkout", "aborting")
              /\ Call(o, "abort", n, "checkout", NoAuth)
              /\ Tears(s \in {"pending", "aborting"})
           \/ /\ GivesUp(op[o].read, s = "pending")
              /\ End(o)
              /\ UNCHANGED <<transfers, torn>>
    /\ UNCHANGED <<row, intent, live, mirror, reblanked, faults>>

\* A transfer that is pending is marked; one that is marked is not written again.
BeginCheckoutAbort(o) ==
    /\ op[o].pc = "begin"
    /\ LET n == op[o].nonce
           s == transfers[Taker][n].state
       IN  \/ /\ Writes(Taker, op[o].read, s = "pending")
              /\ SetTransfer(Taker, n, "checkout", "aborting")
              /\ Call(o, "abort", n, "checkout", NoAuth)
              /\ Tears(s \in {"pending", "aborting"})
           \/ /\ GivesUp(op[o].read, s = "pending")
              /\ \/ s = "aborting" /\ Call(o, "abort", n, "checkout", NoAuth)
                 \/ s = "settled" /\ Call(o, "confirm", n, "checkout", NoAuth)
                 \/ s = "aborted" /\ End(o)
              /\ UNCHANGED <<transfers, torn>>
    /\ UNCHANGED <<row, intent, live, mirror, reblanked, faults>>

CanFinishAbort(n, d) ==
    /\ Open(transfers[Taker][n])
    /\ d = "checkin" => row[Taker].owner = Hub

\* The hub has aborted: the transfer is closed, and an account that was to be
\* checked in is the taker's again.
FinishAbort(o) ==
    /\ Answered(o, "abort", {"aborted"})
    /\ LET n == op[o].nonce
           d == op[o].direction
       IN  \/ /\ Writes(Taker, op[o].read, CanFinishAbort(n, d))
              /\ row' = IF d = "checkin" THEN [row EXCEPT ![Taker].owner = Taker] ELSE row
              /\ SetTransfer(Taker, n, transfers[Taker][n].direction, "aborted")
              /\ Tears(CanFinishAbort(n, d))
           \/ /\ GivesUp(op[o].read, CanFinishAbort(n, d))
              /\ UNCHANGED <<row, transfers, torn>>
    /\ End(o)
    /\ UNCHANGED <<intent, live, mirror, reblanked, faults>>

-----------------------------------------------------------------------------
(* Without row locks: the taker's transactions read, and decide to write *)

LookFirst(o) ==
    /\ op[o].pc = "idle" /\ Known(Taker) # Nonces
    /\ \E p \in {"reserving", "releasing"} :
         /\ IF p = "reserving" THEN CanReserve ELSE CanGiveBack
         /\ op' = [op EXCEPT ![o] = [Idle EXCEPT !.pc = p]]

LookAgain(o) ==
    LET n == op[o].nonce IN
    /\ op[o].read = "no"
    /\ \/ Answered(o, "checkout", {"ok"}) /\ CanImport(n)
       \/ HubHasTokens(o) /\ CanSettleCheckin(n)
       \/ op[o].pc = "begin" /\ transfers[Taker][n].state = "pending"
       \/ Answered(o, "abort", {"aborted"}) /\ CanFinishAbort(n, op[o].direction)
    /\ op' = [op EXCEPT ![o].read = transfers[Taker][n].state]

Look(o) ==
    /\ Taker \notin RowLocks
    /\ LookFirst(o) \/ LookAgain(o)
    /\ UNCHANGED <<row, transfers, intent, live, calls, mirror, reblanked, torn, faults>>

\* No nonce is left: the bound of the model ends the request.
OutOfNonces(o) ==
    /\ op[o].pc \in {"reserving", "releasing"} /\ Known(Taker) = Nonces
    /\ End(o)
    /\ UNCHANGED <<row, transfers, intent, live, mirror, reblanked, torn, faults>>

-----------------------------------------------------------------------------
(* Calls that fail *)

\* A checkin that fails is reclaimed; any other request ends.
Failed(o) ==
    [op EXCEPT ![o] = IF op[o].kind = "checkin" THEN [Idle EXCEPT !.pc = "reclaim"] ELSE Idle]

Refused(o) ==
    /\ \/ op[o].pc = "answered" /\ op[o].answer = "refused"
       \/ Answered(o, "abort", {"settled"}) /\ op[o].direction = "checkout"
    /\ op' = Failed(o)
    /\ UNCHANGED <<row, transfers, intent, live, calls, mirror, reblanked, torn, faults>>

\* The hub's answer does not arrive in time.  The call may reach it later.
Timeout(o) ==
    /\ op[o].pc \in {"waiting", "answered"} /\ op[o].read = "no"
    /\ faults < MaxFaults
    /\ op' = Failed(o)
    /\ calls' = Orphaned({o})
    /\ faults' = faults + 1
    /\ UNCHANGED <<row, transfers, intent, live, mirror, reblanked, torn>>

\* The taker's process ends.  Its database stays.
Restart ==
    /\ faults < MaxFaults
    /\ op' = [o \in Ops |-> Idle]
    /\ calls' = Orphaned(Ops)
    /\ mirror' = None
    /\ faults' = faults + 1
    /\ UNCHANGED <<row, transfers, intent, live, reblanked, torn>>

-----------------------------------------------------------------------------
(* The hub *)

Reply(c, answer, auth) ==
    /\ calls' = calls \ {c}
    /\ op' = IF c.from = None THEN op
             ELSE [op EXCEPT ![c.from].pc = "answered", ![c.from].answer = answer,
                             ![c.from].auth = auth]

CanRelease(n) ==
    /\ intent[Hub] = 0
    /\ OpenTransfers(Hub) = {} /\ n \notin Known(Hub)
    /\ LocallyOwned(Hub)

\* checkout: the hub gives the account up before the tokens leave it.  The update
\* checks the owner again, and no nonce is stored twice.  The tokens sent are
\* those read first.
ReleaseForCheckout(c) ==
    /\ c.kind = "checkout"
    /\ LET n == c.nonce
           mine == LocallyOwned(Hub) /\ n \notin Known(Hub)
           auth == IF Hub \in RowLocks THEN Auth(Hub) ELSE c.auth
       IN
       \/ /\ Writes(Hub, c.read, CanRelease(n)) /\ mine
          /\ row' = [row EXCEPT ![Hub].owner = Taker]
          /\ SetTransfer(Hub, n, "checkout", "pending")
          /\ Reply(c, "ok", auth)
          /\ Tears(CanRelease(n) /\ auth = Auth(Hub))
       \/ /\ GivesUp(c.read, CanRelease(n)) \/ (c.read # "no" /\ ~mine)
          /\ Reply(c, "refused", NoAuth)
          /\ UNCHANGED <<row, transfers, torn>>
    /\ UNCHANGED <<intent, live, mirror, reblanked, faults>>

CanConfirm(n) ==
    /\ n \in Known(Hub) /\ transfers[Hub][n].direction = "checkout"
    /\ row[Hub].owner = Taker
    /\ transfers[Hub][n].state # "aborted"

CanBlank(n) == CanConfirm(n) /\ transfers[Hub][n].state # "settled"

\* confirm: the hub blanks its refresh token, once.
SettleCheckoutAndBlankRefresh(c) ==
    /\ c.kind = "confirm"
    /\ \/ /\ Writes(Hub, c.read, CanBlank(c.nonce))
          /\ row' = [row EXCEPT ![Hub].refresh = 0]
          /\ SetTransfer(Hub, c.nonce, "checkout", "settled")
          /\ Reply(c, "ok", NoAuth)
          /\ Tears(CanBlank(c.nonce))
       \/ /\ GivesUp(c.read, CanBlank(c.nonce))
          /\ Reply(c, IF CanConfirm(c.nonce) THEN "ok" ELSE "refused", NoAuth)
          /\ UNCHANGED <<row, transfers, torn>>
    /\ UNCHANGED <<intent, live, mirror, reblanked, faults>>

CheckinSettled(n) == transfers[Hub][n] = Transfer("checkin", "settled")

CanAccept(n) ==
    /\ intent[Hub] = 0
    /\ n \notin Known(Hub)
    /\ row[Hub].owner = Taker
    /\ OpenTransfers(Hub) = {}
    /\ \E m \in Nonces : LatestCheckout(Hub, m) /\ transfers[Hub][m].state = "settled"

\* Mutant: a settled nonce is imported once more.
AcceptAgain(c) ==
    /\ c.kind = "checkin" /\ (CanAccept(c.nonce) \/ CheckinSettled(c.nonce))
    /\ row' = [row EXCEPT ![Hub] = [owner |-> Hub, refresh |-> c.auth.refresh,
                                    access |-> c.auth.access]]
    /\ SetTransfer(Hub, c.nonce, "checkin", "settled")
    /\ Reply(c, "ok", NoAuth)
    /\ UNCHANGED <<intent, live, mirror, reblanked, torn, faults>>

\* checkin: the hub stores the tokens and owns the account; a nonce that is
\* settled is not imported again, and none is stored twice.
AcceptCheckin(c) ==
    /\ c.kind = "checkin"
    /\ LET n == c.nonce IN
       \/ /\ Writes(Hub, c.read, CanAccept(n)) /\ n \notin Known(Hub)
          /\ row' = [row EXCEPT ![Hub] = [owner |-> Hub, refresh |-> c.auth.refresh,
                                          access |-> c.auth.access]]
          /\ SetTransfer(Hub, n, "checkin", "settled")
          /\ Reply(c, "ok", NoAuth)
          /\ Tears(CanAccept(n))
       \/ /\ GivesUp(c.read, CanAccept(n)) \/ (c.read # "no" /\ n \in Known(Hub))
          /\ Reply(c, IF c.read = "no" /\ intent[Hub] = 0 /\ CheckinSettled(n)
                      THEN "ok" ELSE "refused", NoAuth)
          /\ UNCHANGED <<row, transfers, torn>>
    /\ UNCHANGED <<intent, live, mirror, reblanked, faults>>

\* Mutant: a nonce the hub has not seen leaves no trace.
AbortUnknown(c) ==
    /\ c.kind = "abort"
    /\ Reply(c, IF c.nonce \in Known(Hub) THEN transfers[Hub][c.nonce].state ELSE "aborted", NoAuth)
    /\ UNCHANGED <<row, transfers, intent, live, mirror, reblanked, torn, faults>>

Unseen(c) == transfers[Hub][c.nonce].state = "unknown"
CanUndo(c) == transfers[Hub][c.nonce].state = "pending" /\ row[Hub].owner = Taker

\* abort: a nonce the hub has not seen is burnt; a pending transfer is undone
\* if the caller still is the owner; a settled one is reported as such.
AbortPeerTransfer(c) ==
    /\ c.kind = "abort"
    /\ LET s == transfers[Hub][c.nonce].state IN
       \/ /\ Writes(Hub, c.read, Unseen(c)) /\ c.read # "pending" /\ Unseen(c)
          /\ SetTransfer(Hub, c.nonce, c.direction, "aborted")
          /\ Reply(c, "aborted", NoAuth)
          /\ UNCHANGED <<row, torn>>
       \/ /\ Writes(Hub, c.read, CanUndo(c)) /\ c.read # "unknown"
          /\ row' = IF c.direction = "checkout" THEN [row EXCEPT ![Hub].owner = Hub] ELSE row
          /\ SetTransfer(Hub, c.nonce, c.direction, "aborted")
          /\ Reply(c, "aborted", NoAuth)
          /\ Tears(CanUndo(c))
       \/ /\ GivesUp(c.read, Unseen(c) \/ CanUndo(c)) \/ (c.read = "unknown" /\ ~Unseen(c))
          /\ Reply(c, IF c.read = "no" /\ s \in {"aborted", "settled"} THEN s ELSE "refused",
                   NoAuth)
          /\ UNCHANGED <<row, transfers, torn>>
    /\ UNCHANGED <<intent, live, mirror, reblanked, faults>>

\* Without row locks: the hub's transaction reads, and decides to write.
LookUp(c) ==
    /\ Hub \notin RowLocks /\ c.read = "no"
    /\ \/ c.kind = "checkout" /\ CanRelease(c.nonce)
       \/ c.kind = "confirm" /\ CanBlank(c.nonce)
       \/ c.kind = "checkin" /\ CanAccept(c.nonce)
       \/ c.kind = "abort" /\ (Unseen(c) \/ CanUndo(c))
    /\ calls' = (calls \ {c}) \cup
                {[c EXCEPT !.read = transfers[Hub][c.nonce].state,
                           !.auth = IF c.kind = "checkout" THEN Auth(Hub) ELSE c.auth]}
    /\ UNCHANGED <<row, transfers, intent, live, op, mirror, reblanked, torn, faults>>

-----------------------------------------------------------------------------
(* Mirroring, and the exchange of tokens on either side *)

\* The taker fetches the access token.  The hub lists its own accounts, with
\* federation_mirror_include_pushed all of them.
FetchMirror ==
    /\ mirror = None
    /\ mirror' = row[Hub].access
    /\ UNCHANGED <<row, transfers, intent, live, op, calls, reblanked, torn, faults>>

\* Mutant: a transfer that is open does not protect the row.
UpsertDuringTransfer ==
    /\ mirror # None
    /\ row' = IF ~LocallyOwned(Taker)
              THEN [row EXCEPT ![Taker] = [owner |-> Hub, refresh |-> 0, access |-> mirror]]
              ELSE row
    /\ mirror' = None
    /\ UNCHANGED <<transfers, intent, live, op, calls, reblanked, torn, faults>>

\* Mutant: the response is stored before it has come.
UpsertUnfetched ==
    /\ row' = IF ~LocallyOwned(Taker)
              THEN [row EXCEPT ![Taker].access = mirror] ELSE row
    /\ UNCHANGED <<transfers, intent, live, op, calls, mirror, reblanked, torn, faults>>

\* The response is stored in a row that another instance owns and that is in
\* no transfer.
UpsertMirrorAccount ==
    /\ mirror # None
    /\ row' = IF ~LocallyOwned(Taker) /\ OpenTransfers(Taker) = {}
              THEN [row EXCEPT ![Taker] = [owner |-> Hub, refresh |-> 0, access |-> mirror]]
              ELSE row
    /\ mirror' = None
    /\ UNCHANGED <<transfers, intent, live, op, calls, reblanked, torn, faults>>

BeginExchange(i) ==
    /\ LocallyOwned(i) /\ intent[i] = 0
    /\ live < MaxTokens
    /\ intent' = [intent EXCEPT ![i] = row[i].refresh]
    /\ UNCHANGED <<row, transfers, live, op, calls, mirror, reblanked, torn, faults>>

\* The provider has issued a new token; it is saved if the instance still owns
\* the account.  Otherwise the token is lost and the intent stays.
UpdateTokens(i) ==
    /\ intent[i] = live /\ live < MaxTokens
    /\ live' = live + 1
    /\ LET saved == LocallyOwned(i) /\ row[i].refresh = intent[i]
       IN  /\ row' = IF saved THEN [row EXCEPT ![i].refresh = live', ![i].access = live']
                     ELSE row
           /\ intent' = IF saved THEN [intent EXCEPT ![i] = 0] ELSE intent
    /\ UNCHANGED <<transfers, op, calls, mirror, reblanked, torn, faults>>

\* The exchange did not reach the provider or was refused, or an intent that was
\* left behind is dropped.
AbortExchange(i) ==
    /\ intent[i] # 0
    /\ intent' = [intent EXCEPT ![i] = 0]
    /\ UNCHANGED <<row, transfers, live, op, calls, mirror, reblanked, torn, faults>>

-----------------------------------------------------------------------------

Operate(o) ==
    \/ RetryCheckout(o) \/ RetryCheckin(o)
    \/ ReclaimSettled(o) \/ ReclaimCheckin(o) \/ ReclaimCheckout(o)

Proceed(o) ==
    \/ ReserveCheckout(o) \/ ImportCheckout(o) \/ Confirmed(o)
    \/ ReleaseForCheckin(o) \/ SendCheckin(o) \/ SettleCheckinAndBlank(o)
    \/ BeginCheckoutAbort(o) \/ FinishAbort(o)
    \/ Look(o) \/ OutOfNonces(o) \/ Refused(o)

Handle(c) ==
    \/ ReleaseForCheckout(c) \/ SettleCheckoutAndBlankRefresh(c)
    \/ AcceptCheckin(c) \/ AbortPeerTransfer(c) \/ LookUp(c)

Exchange(i) == BeginExchange(i) \/ UpdateTokens(i) \/ AbortExchange(i)

Next ==
    \/ \E o \in Ops : Operate(o) \/ Proceed(o) \/ Timeout(o)
    \/ \E c \in calls : Handle(c)
    \/ \E i \in Instances : Exchange(i)
    \/ Restart \/ FetchMirror \/ UpsertMirrorAccount

Spec == Init /\ [][Next]_vars

\* Requests go on, the hub handles the calls somebody waits for, and an operator
\* who finds a transfer open again and again reclaims it some time.
Fairness ==
    /\ \A o \in Ops : WF_vars(Proceed(o) \/ \E c \in calls : c.from = o /\ Handle(c))
    /\ SF_vars(\E o \in Ops : ReclaimCheckin(o) \/ ReclaimCheckout(o))

FairSpec == Spec /\ Fairness

-----------------------------------------------------------------------------
(* Properties *)

\* Type invariant.
TypeOK ==
    /\ row \in [Instances -> Rows]
    /\ transfers \in [Instances -> [Nonces -> Transfers]]
    /\ intent \in [Instances -> Tokens]
    /\ live \in 1..MaxTokens
    /\ op \in [Ops -> OpStates]
    /\ calls \subseteq Calls
    /\ mirror \in Tokens \cup {None}
    /\ reblanked \in BOOLEAN /\ torn \in BOOLEAN
    /\ faults \in 0..MaxFaults

\* "At no point SHALL two instances both consider themselves owner of the same
\* account" (specs/instance-federation), as the specification says it.
NeverTwoOwners == ~(LocallyOwned(Hub) /\ LocallyOwned(Taker))

\* Two owners come only from a transaction that wrote what it would no longer
\* decide: neither from two operators at work, nor from calls that arrive late or
\* requests that are cut off between their transactions.
SingleOwner == torn \/ NeverTwoOwners

\* Whoever owns the account has the token the provider accepts, and the access
\* token that came with it: no exchange is sent with a token used before, and
\* a mirror response from before the transfer overwrites nothing.
OwnerHoldsLive ==
    \/ torn \/ reblanked
    \/ \A i \in Instances :
          LocallyOwned(i) => row[i].refresh = live /\ row[i].access = live

\* One of the databases always holds the live token: a side blanks its copy only
\* when the other has stored it, also when the call that says so was lost.  The
\* exceptions are a torn transaction and a checkin that is settled a second time
\* (settle_checkin_and_blank accepts it) after the account came back: the copy it
\* blanks may be the last.
TokenKept == torn \/ reblanked \/ \E i \in Instances : row[i].refresh = live

\* The two databases agree on how a transfer ended, and the taker never believes
\* an abort, nor the hub a checkout, before the other has it: so reclaim meets the
\* "inconsistent peer transfer state" it raises an error for only after a torn
\* transaction.
OutcomesAgree ==
    torn \/ \A n \in Nonces :
        LET h == transfers[Hub][n]
            t == transfers[Taker][n]
        IN  /\ h.state # "unknown" => t.state # "unknown" /\ h.direction = t.direction
            /\ t.state = "aborted" => h.state = "aborted"
            /\ h.state = "aborted" => t.state # "settled"
            /\ t = Transfer("checkin", "settled") => h.state = "settled"
            /\ h = Transfer("checkout", "settled") => t.state = "settled"

\* An account that nobody owns is owned again some time, if operators reclaim.
CustodyReturns ==
    ~LocallyOwned(Hub) /\ ~LocallyOwned(Taker)
        ~> torn \/ LocallyOwned(Hub) \/ LocallyOwned(Taker)

=============================================================================
