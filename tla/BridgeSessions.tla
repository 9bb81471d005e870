---------------------------- MODULE BridgeSessions ----------------------------
(***************************************************************************)
(* The HTTP bridge keeps upstream websockets open between requests.  One   *)
(* instance holds them in a registry (key -> session) with a table of      *)
(* in-flight markers (key -> future of the creation in progress), both     *)
(* under one lock, and claims each key in a durable table it shares with   *)
(* the other instances.                                                    *)
(*                                                                         *)
(* A request creates at most one session and at most one marker, so both   *)
(* are named after the request.  A section under the registry lock is one  *)
(* action; what a request or a clean-up does between two locked sections   *)
(* or two statements of the durable table is a state it can be overtaken   *)
(* in.  The table is the one instances share, on PostgreSQL: a claim locks *)
(* its row, a release reads the row and then writes it by its id.          *)
(***************************************************************************)
EXTENDS Naturals, FiniteSets

CONSTANTS
  Requests,      \* requests, numbered as they come, and what they create
  Keys,          \* session keys (affinity kind and value, API key)
  Hard,          \* keys of strength "hard" (turn state, session header)
  MaxSessions,   \* max_sessions
  QueueLimit,    \* queue_limit of a session
  MaxFaults,     \* bound: mishaps in a behaviour
  Me, Rival,     \* this instance and any other
  None

ASSUME BridgeAssumption ==
  /\ Requests \subseteq Nat /\ IsFiniteSet(Keys)
  /\ Hard \subseteq Keys
  /\ MaxSessions \in Nat \ {0} /\ QueueLimit \in Nat /\ MaxFaults \in Nat
  /\ None \notin Nat /\ None \notin Keys
  /\ None \notin [key : Keys, token : Nat \X Nat]
  /\ Me # Rival /\ Me # None /\ Rival # None

VARIABLES
  reg,      \* _http_bridge_sessions: the registered session of a key
  fut,      \* _http_bridge_inflight_sessions: whose marker a key has
  outcome,  \* the future of a request's creation
  pc,       \* where a request is
  req,      \* the locals of a request
  ses,      \* the sessions
  tasks,    \* clean-ups of sessions under way
  row,      \* the durable table
  leaving,  \* releases of other instances that have read the row
  drain,    \* the bridge's part in the shutdown
  faults    \* how many mishaps there were

vars == <<reg, fut, outcome, pc, req, ses, tasks, row, leaving, drain, faults>>

-------------------------------------------------------------------------------
Waiting  == {"join", "capacity"}
Creating == {"create", "register"}
Using    == {"submit", "reconnect", "queue", "gate", "resend", "streaming"}
Final    == {"done", "forwarded"}

Looks  == {"none", "free", "mine", "rival", "draining"}

(* "force" is force_durable_takeover, local to one pass of the loop;       *)
(* "after" is force_durable_takeover_after_detach, which outlives it.      *)
NoLocals == [key |-> None, aliasMiss |-> FALSE, look |-> "none", ses |-> None, wait |-> None,
             force |-> FALSE, after |-> FALSE]

Blank == [key |-> None, closed |-> TRUE, lease |-> FALSE, handle |-> None, queued |-> 0, pending |-> {},
          hidden |-> {}, retire |-> FALSE, reader |-> FALSE, stray |-> FALSE,
          leaked |-> FALSE]

Init ==
  /\ reg = [k \in Keys |-> None]
  /\ fut = [k \in Keys |-> None]
  /\ outcome = [r \in Requests |-> "none"]
  /\ pc = [r \in Requests |-> "idle"]
  /\ req = [r \in Requests |-> NoLocals]
  /\ ses = [r \in Requests |-> Blank]
  /\ tasks = {}
  /\ row = [k \in Keys |-> [gen |-> 0, epoch |-> 0, owner |-> None, state |-> "absent", live |-> FALSE]]
  /\ leaving = {}
  /\ drain = "no"
  /\ faults = 0

(* What may go wrong does so at most MaxFaults times: a cancellation, a    *)
(* failed connect, send or write, a silent or lost websocket, an account   *)
(* that has to be changed, the shutdown, a step of another instance, of    *)
(* the clock or of the purge.  Deadlines and clients that leave are not    *)
(* counted.                                                                *)
Mishap == faults < MaxFaults /\ faults' = faults + 1

-------------------------------------------------------------------------------
(* The durable table: one row per key.                                     *)

Token(k) == <<row[k].gen, row[k].epoch>>

(* What a session keeps of its claim: the id of the row and its epoch.     *)
Handle(k, x) == [key |-> k, token |-> <<x.gen, x.epoch>>]

(* The owner a lookup reports, as the callers ask for it.                  *)
Look(k) ==
  IF row[k].state = "absent" THEN "none"
  ELSE IF row[k].state = "closed" \/ row[k].owner = None \/ ~row[k].live THEN "free"
  ELSE IF row[k].owner = Me THEN "mine"
  ELSE IF row[k].state = "draining" THEN "draining" ELSE "rival"

AllowsLocalReuse(look) == look \in {"none", "free", "mine"}
AllowTakeover(look) == look \in {"none", "free", "draining"}

(* Whether a claim is turned down, and the row it leaves when it is not.   *)
ClaimRejected(k, i, takeover) ==
  /\ row[k].state = "active" /\ row[k].owner # i /\ row[k].live
  /\ ~takeover

(* Mutant: another owner continues the epoch of the last.                  *)
NextEpochKept(k, i, advance) == IF advance THEN row[k].epoch + 1 ELSE row[k].epoch

NextEpoch(k, i, advance) ==
  IF row[k].owner # i \/ advance THEN row[k].epoch + 1 ELSE row[k].epoch

Claimed(k, i, advance) ==
  IF row[k].state = "absent"
  THEN [gen |-> row[k].gen + 1, epoch |-> 1, owner |-> i, state |-> "active", live |-> TRUE]
  ELSE [row[k] EXCEPT !.epoch = NextEpoch(k, i, advance), !.owner = i,
                      !.state = "active", !.live = TRUE]

(* A renewal and a release find the row by its id, and compare its owner   *)
(* and its epoch.  A release that found itself the owner then writes the   *)
(* row of that id, whoever owns it by then.                                *)
Found(h) == row[h.key].state # "absent" /\ row[h.key].gen = h.token[1]
Holds(i, h) == h # None /\ Found(h) /\ row[h.key].owner = i /\ row[h.key].epoch = h.token[2]

Released(k, state) == [row[k] EXCEPT !.owner = None, !.live = FALSE, !.state = state]

-------------------------------------------------------------------------------
(* Sessions.                                                               *)

Visible(s) == ses[s].queued > 0 \/ ses[s].pending # {}
Reconnecting(s) == \E r \in Requests : pc[r] \in {"reconnect", "resend"} /\ req[r].ses = s
(* Mutant: the count of queued requests is not kept at zero.               *)
LessUnclamped(n) == n - 1

Less(n) == IF n = 0 THEN 0 ELSE n - 1

(* A clean-up of s: "close" is _close_http_bridge_session, "retire" is     *)
(* _retire_stale_pending_http_bridge_session.                              *)
(* "write" is the release of the row that is still to be written.          *)
Start(s, by, kind) == [ses |-> s, by |-> by, kind |-> kind, at |-> "start", write |-> None]

(* The request leaves; the session it holds is not affected.               *)
Ends(r) == /\ pc' = [pc EXCEPT ![r] = "done"]
           /\ req' = [req EXCEPT ![r] = NoLocals]

(* Requests with an entry in a session that was failed get their last      *)
(* event and end.                                                          *)
EndAll(R) ==
  LET gone == {r \in R : pc[r] = "streaming"} IN
  /\ pc' = [r \in Requests |-> IF r \in gone THEN "done" ELSE pc[r]]
  /\ req' = [r \in Requests |-> IF r \in gone THEN NoLocals ELSE req[r]]

-------------------------------------------------------------------------------
(* Getting a session: the locked section of get_or_create.                 *)

(* The lookup of the durable row comes first, without the lock; what it    *)
(* found is used in every later pass of the loop.                          *)
(* A request may come with a generated turn state that no index knows.     *)
Arrive(r) ==
  /\ pc[r] = "idle" /\ \A q \in Requests : q < r => pc[q] # "idle"
  /\ pc' = [pc EXCEPT ![r] = "enter"]
  /\ \E k \in Keys, miss \in BOOLEAN :
       /\ miss => k \in Hard
       /\ req' = [req EXCEPT ![r] = [NoLocals EXCEPT !.key = k, !.look = Look(k),
                                                     !.aliasMiss = miss /\ Look(k) = "none"]]
  /\ UNCHANGED <<reg, fut, outcome, ses, tasks, row, leaving, drain, faults>>

Registered == {k \in Keys : reg[k] # None}
Idle(k) == reg[k] # None /\ ~Visible(reg[k])

(* The keys a sweep detaches: none when the last sweep was just now, else  *)
(* the closed sessions and whichever idle ones have outlived their TTL.    *)
(* A session whose pending lock is busy counts as one that has not.        *)
Sweeps ==
  LET closed == {k \in Registered : ses[reg[k]].closed}
  IN {{}} \cup {closed \cup K : K \in SUBSET {k \in Registered : Idle(k)}}

(* A session that is not reused is detached in one of two ways: closed,    *)
(* or left to the requests it still serves and retired when they end.      *)
KeepsServing(s) ==
  /\ ~ses[s].closed
  /\ \/ ses[s].retire /\ Visible(s)
     \/ Reconnecting(s) /\ ses[s].pending # {}

(* Detach the sessions of the keys K.  Those of the keys in keep go on,    *)
(* those of the keys in drop are marked closed and nobody closes them.     *)
Detach(K, keep, drop) ==
  LET shut == {reg[k] : k \in K \ keep} \ {None}
      lost == {reg[k] : k \in drop}
      kept == {reg[k] : k \in keep}
  IN /\ reg' = [k \in Keys |-> IF k \in K THEN None ELSE reg[k]]
     /\ ses' = [s \in Requests |->
                  IF s \in shut THEN [ses[s] EXCEPT !.closed = TRUE, !.stray = @ \/ s \in lost]
                  ELSE IF s \in kept THEN [ses[s] EXCEPT !.retire = TRUE] ELSE ses[s]]
     /\ tasks' = tasks \cup {Start(s, None, "close") : s \in shut \ lost}

(* What becomes of the key's own session, if the sweep left one.           *)
Kept(k, P) == {{}} \cup (IF k \notin P /\ reg[k] # None /\ KeepsServing(reg[k]) THEN {{k}} ELSE {})

(* What the owner check of a key decides.                                  *)
OwnerChecks(r) ==
  LET look == req[r].look IN
  IF req[r].key \notin Hard THEN {"local", "force"}
  ELSE CASE look = "mine" -> {"local"}
         [] look \in {"rival", "draining"} -> {"force", "forward"}
         [] OTHER -> {"local", "force", "forward"}

(* The pass goes on with the key's session detached: force_durable_takeover*)
(* is set when it was this key's session that went.                        *)
ForceAfter(r, owner) ==
  req[r].after \/ owner = "force" \/ reg[req[r].key] # None

(* Reuse of the registered session, with a renewal of its claim, which may *)
(* fail: a handle that no longer owns the row takes over the epoch found.  *)
EnterReuse(r, P) ==
  LET k == req[r].key
      s == reg[k]
      found == ses[s].handle # None /\ Found(ses[s].handle)
      shut == {reg[x] : x \in P}
  IN /\ k \notin P /\ s # None
     /\ ~ses[s].closed /\ ~ses[s].retire
     /\ AllowsLocalReuse(req[r].look)
     /\ pc' = [pc EXCEPT ![r] = "submit"]
     /\ req' = [req EXCEPT ![r] = [NoLocals EXCEPT !.ses = s]]
     /\ reg' = [x \in Keys |-> IF x \in P THEN None ELSE reg[x]]
     /\ \E renewed \in {FALSE, found} :
          /\ IF renewed = found THEN UNCHANGED faults ELSE Mishap
          /\ row' = [row EXCEPT ![k].live = @ \/ (renewed /\ Holds(Me, ses[s].handle))]
          /\ ses' = [x \in Requests |->
                       IF x \in shut THEN [ses[x] EXCEPT !.closed = TRUE]
                       ELSE IF x = s /\ renewed THEN [ses[x] EXCEPT !.handle = Handle(k, row[k])] ELSE ses[x]]
     /\ tasks' = tasks \cup {Start(x, None, "close") : x \in shut}
     /\ UNCHANGED <<fut, outcome, leaving, drain>>

(* The bridge drains, the ring cannot be read or the request came back in  *)
(* a forward: refused, before or after the key's session was detached.     *)
EnterRefused(r, P) ==
  /\ \E K \in {P, P \cup {req[r].key}}, keep \in Kept(req[r].key, P) :
       keep \subseteq K /\ Detach(K, keep, {})
  /\ Ends(r)
  /\ UNCHANGED <<fut, outcome, row, leaving, drain>>
  /\ Mishap

(* Another request creates the session: wait for it.  A request that is    *)
(* to be forwarded does not wait.                                          *)
EnterJoin(r, P) ==
  LET k == req[r].key IN
  /\ fut[k] # None
  /\ \E keep \in Kept(k, P) : Detach(P \cup {k}, keep, {})
  /\ \E owner \in OwnerChecks(r) :
       IF owner = "forward"
       THEN /\ pc' = [pc EXCEPT ![r] = "forwarded"]
            /\ req' = [req EXCEPT ![r] = NoLocals]
       ELSE /\ pc' = [pc EXCEPT ![r] = "join"]
            /\ req' = [req EXCEPT ![r].wait = fut[k]]
  /\ UNCHANGED <<fut, outcome, row, leaving, drain, faults>>

(* A generated turn state that no index knows is bound here anew, without  *)
(* a marker and without regard to the capacity.                            *)
EnterAliasMiss(r, P) ==
  LET k == req[r].key IN
  /\ req[r].aliasMiss /\ fut[k] = None
  /\ \E keep \in Kept(k, P) : Detach(P \cup {k}, keep, {})
  /\ \E owner \in OwnerChecks(r) :
       IF owner = "forward"
       THEN /\ pc' = [pc EXCEPT ![r] = "forwarded"]
            /\ req' = [req EXCEPT ![r] = NoLocals]
       ELSE /\ pc' = [pc EXCEPT ![r] = "create"]
            /\ req' = [req EXCEPT ![r].force = ForceAfter(r, owner)]
  /\ UNCHANGED <<fut, outcome, row, leaving, drain, faults>>

(* Idle sessions of other keys that make room, as far as room is needed.   *)
(* One whose pending lock is busy is passed over, so there may be none.    *)
InFlight == Cardinality({k \in Keys : fut[k] # None})
(* Mutant: creations in flight are not counted.                            *)
HeldRegistered(K) == Cardinality(Registered \ K)

Held(K) == Cardinality(Registered \ K) + InFlight
Evictions(K) ==
  {E \in SUBSET {k \in Registered \ K : Idle(k)} :
     E # {} => Held(K \cup E) + 1 >= MaxSessions}

(* The request publishes its marker.  One that is to be forwarded does so  *)
(* as well, and leaves it behind.                                          *)
EnterPublish(r, P) ==
  LET k == req[r].key IN
  /\ fut[k] = None
  /\ ~req[r].aliasMiss
  /\ \E keep \in Kept(k, P), E \in Evictions(P \cup {k}) :
       /\ Held(P \cup {k} \cup E) < MaxSessions
       /\ Detach(P \cup {k} \cup E, keep, {})
  /\ fut' = [fut EXCEPT ![k] = r]
  /\ outcome' = [outcome EXCEPT ![r] = "pending"]
  /\ \E owner \in OwnerChecks(r) :
       IF owner = "forward"
       THEN /\ pc' = [pc EXCEPT ![r] = "forwarded"]
            /\ req' = [req EXCEPT ![r] = NoLocals]
       ELSE /\ pc' = [pc EXCEPT ![r] = "create"]
            /\ req' = [req EXCEPT ![r].force = ForceAfter(r, owner)]
  /\ UNCHANGED <<row, leaving, drain, faults>>

(* No room: wait for a creation in flight to free some, or, with none in   *)
(* flight, be refused; the refusal forgets the sessions evicted so far.    *)
EnterFull(r, P) ==
  LET k == req[r].key IN
  /\ fut[k] = None
  /\ ~req[r].aliasMiss
  /\ \E keep \in Kept(k, P), E \in Evictions(P \cup {k}) :
       /\ Held(P \cup {k} \cup E) >= MaxSessions
       /\ Detach(P \cup {k} \cup E, keep, IF InFlight = 0 THEN E ELSE {})
  /\ \/ \E x \in Keys, owner \in OwnerChecks(r) :
          /\ fut[x] # None
          /\ IF owner = "forward"
             THEN /\ pc' = [pc EXCEPT ![r] = "forwarded"]
                  /\ req' = [req EXCEPT ![r] = NoLocals]
             ELSE /\ pc' = [pc EXCEPT ![r] = "capacity"]
                  /\ req' = [req EXCEPT ![r].wait = fut[x]]
     \/ InFlight = 0 /\ Ends(r)
  /\ UNCHANGED <<fut, outcome, row, leaving, drain, faults>>

Enter(r) ==
  /\ pc[r] = "enter"
  /\ \E P \in Sweeps :
       \/ EnterReuse(r, P)
       \/ EnterRefused(r, P)
       \/ EnterJoin(r, P)
       \/ EnterAliasMiss(r, P)
       \/ EnterPublish(r, P)
       \/ EnterFull(r, P)

-------------------------------------------------------------------------------
(* Waiting for the creation of another request.                            *)

(* Remove a marker and settle its future, if the marker is still there.    *)
Settle(f, how) ==
  LET K == {k \in Keys : fut[k] = f} IN
  /\ fut' = [k \in Keys |-> IF k \in K THEN None ELSE fut[k]]
  /\ outcome' = IF K # {} /\ outcome[f] = "pending" THEN [outcome EXCEPT ![f] = how] ELSE outcome

Again(r) == /\ pc' = [pc EXCEPT ![r] = "enter"]
            /\ req' = [req EXCEPT ![r].wait = None]

(* The awaited session is handed over, or detached and not used: then the  *)
(* next pass forces a new epoch.                                           *)
JoinSession(r) ==
  LET k == req[r].key
      s == req[r].wait
  IN /\ pc[r] = "join" /\ outcome[s] = "session"
     /\ \/ /\ ~ses[s].closed /\ ~ses[s].retire /\ AllowsLocalReuse(req[r].look)
           /\ pc' = [pc EXCEPT ![r] = "submit"]
           /\ req' = [req EXCEPT ![r] = [NoLocals EXCEPT !.ses = s]]
           /\ UNCHANGED <<reg, ses, tasks>>
        \/ /\ ~ses[s].closed /\ reg[k] = s
           /\ Detach({k}, IF ses[s].retire /\ Visible(s) THEN {k} ELSE {}, {})
           /\ pc' = [pc EXCEPT ![r] = "enter"]
           /\ req' = [req EXCEPT ![r].wait = None, ![r].after = TRUE]
        \/ Again(r) /\ UNCHANGED <<reg, ses, tasks>>
     /\ UNCHANGED <<fut, outcome, row, leaving, drain, faults>>

(* A capacity waiter looks again; a cancelled creation is looked past.     *)
WakeAgain(r) ==
  /\ pc[r] \in Waiting
  /\ \/ outcome[req[r].wait] = "cancelled"
     \/ pc[r] = "capacity" /\ outcome[req[r].wait] \in {"session", "failed"}
  /\ Again(r)
  /\ UNCHANGED <<reg, fut, outcome, ses, tasks, row, leaving, drain, faults>>

(* The creation failed, and so does whoever waited for it.                 *)
WakeFailed(r) ==
  /\ pc[r] \in Waiting /\ outcome[req[r].wait] = "failed"
  /\ Ends(r)
  /\ UNCHANGED <<reg, fut, outcome, ses, tasks, row, leaving, drain, faults>>

(* Mutant: the wait for capacity has no deadline.                          *)
WaitTimeoutJoinOnly(r) ==
  /\ pc[r] = "join" /\ outcome[req[r].wait] = "pending"
  /\ Settle(req[r].wait, "failed")
  /\ Ends(r)
  /\ UNCHANGED <<reg, ses, tasks, row, leaving, drain, faults>>

(* The wait is bounded, and a waiter that gives up takes the marker away.  *)
WaitTimeout(r) ==
  /\ pc[r] \in Waiting /\ outcome[req[r].wait] = "pending"
  /\ Settle(req[r].wait, "failed")
  /\ Ends(r)
  /\ UNCHANGED <<reg, ses, tasks, row, leaving, drain, faults>>

-------------------------------------------------------------------------------
(* Creating a session.                                                     *)

(* Mutant: a creation that fails leaves its marker.                        *)
CreationFailsUnsettled(r, how) ==
  /\ UNCHANGED <<fut, outcome>>
  /\ tasks' = IF ses'[r].lease THEN tasks \cup {Start(r, r, "close")} ELSE tasks
  /\ Ends(r)

(* An error or a cancellation of the creating request removes its marker;  *)
(* a session it has made is closed.                                        *)
CreationFails(r, how) ==
  /\ Settle(r, how)
  /\ tasks' = IF ses'[r].lease THEN tasks \cup {Start(r, r, "close")} ELSE tasks
  /\ Ends(r)

(* No account, no websocket, or cancelled in one of the waits for them.    *)
(* What is raised within the handlers of a failed connect passes by the    *)
(* clause that gives the lease of the selected account back.               *)
CreateFails(r) ==
  /\ pc[r] = "create"
  /\ \E leaks \in BOOLEAN : ses' = [ses EXCEPT ![r].leaked = leaks]
  /\ \E how \in {"failed", "cancelled"} : CreationFails(r, how)
  /\ UNCHANGED <<reg, row, leaving, drain>>
  /\ Mishap

(* An account is selected with a stream lease, the websocket is connected  *)
(* and the durable row claimed: forced after a detach, allowed to take     *)
(* over when the lookup saw no other owner.  A new account of the session  *)
(* advances the epoch too.  The claim is the only part others can see.     *)
Connected(k) == [Blank EXCEPT !.key = k, !.closed = FALSE, !.lease = TRUE, !.reader = TRUE]

Takeover(r) == req[r].force \/ AllowTakeover(req[r].look)

Claim(r) ==
  LET k == req[r].key IN
  /\ pc[r] = "create" /\ ~ClaimRejected(k, Me, Takeover(r))
  /\ \/ /\ row' = [row EXCEPT ![k] = Claimed(k, Me, req[r].force)]
        /\ UNCHANGED faults
     \/ /\ row' = [row EXCEPT ![k] = Claimed(k, Me, TRUE)]     \* a new account
        /\ Mishap
  /\ pc' = [pc EXCEPT ![r] = "register"]
  /\ ses' = [ses EXCEPT ![r] = [Connected(k) EXCEPT !.handle = Handle(k, row'[k])]]
  /\ UNCHANGED <<reg, fut, outcome, req, tasks, leaving, drain>>

(* Cancelled after the write and before the answer: the session is closed  *)
(* without the handle of what it owns.                                     *)
ClaimCancelled(r) ==
  LET k == req[r].key IN
  /\ pc[r] = "create" /\ ~ClaimRejected(k, Me, Takeover(r))
  /\ row' = [row EXCEPT ![k] = Claimed(k, Me, req[r].force)]
  /\ ses' = [ses EXCEPT ![r] = Connected(k)]
  /\ CreationFails(r, "cancelled")
  /\ UNCHANGED <<reg, leaving, drain>>
  /\ Mishap

(* The row is another instance's, or the write fails.                      *)
ClaimFails(r) ==
  /\ pc[r] = "create"
  /\ IF ClaimRejected(req[r].key, Me, Takeover(r)) THEN UNCHANGED faults ELSE Mishap
  /\ ses' = [ses EXCEPT ![r] = Connected(req[r].key)]
  /\ CreationFails(r, "failed")
  /\ UNCHANGED <<reg, row, leaving, drain>>

(* The marker is still this request's own (or there is still none, for a   *)
(* creation without a marker): the session is registered and its waiters   *)
(* get it.  Otherwise it is closed.                                        *)
MarkerStands(r) == fut[req[r].key] = (IF outcome[r] = "none" THEN None ELSE r)

Register(r) ==
  LET k == req[r].key IN
  /\ pc[r] = "register" /\ MarkerStands(r)
  /\ reg' = [reg EXCEPT ![k] = r]
  /\ fut' = [fut EXCEPT ![k] = None]
  /\ outcome' = IF outcome[r] = "pending" THEN [outcome EXCEPT ![r] = "session"] ELSE outcome
  /\ ses' = IF reg[k] = None THEN ses ELSE [ses EXCEPT ![reg[k]].stray = TRUE]
  /\ pc' = [pc EXCEPT ![r] = "submit"]
  /\ req' = [req EXCEPT ![r] = [NoLocals EXCEPT !.ses = r]]
  /\ UNCHANGED <<tasks, row, leaving, drain, faults>>

RegisterFails(r) ==
  /\ pc[r] = "register"
  /\ UNCHANGED ses
  /\ \/ ~MarkerStands(r) /\ CreationFails(r, "failed") /\ UNCHANGED faults
     \/ CreationFails(r, "cancelled") /\ Mishap
  /\ UNCHANGED <<reg, row, leaving, drain>>

-------------------------------------------------------------------------------
(* Submitting a request to its session.                                    *)

GoOn(r, where) == pc' = [pc EXCEPT ![r] = where] /\ UNCHANGED req

(* The lifecycle lock of a session, held while a closed one is reconnected.*)
LifecycleFree(s) == ~\E r \in Requests : pc[r] = "reconnect" /\ req[r].ses = s

(* A retiring session is closed once it serves nobody.                     *)
Retired(x) == x.retire /\ x.pending = {} /\ x.queued = 0

RetireIfReady(s, x, by) ==
  /\ ses' = [ses EXCEPT ![s] = IF Retired(x) THEN [x EXCEPT !.hidden = {}] ELSE x]
  /\ tasks' = IF Retired(x) THEN tasks \cup {Start(s, by, "close")} ELSE tasks

(* A closed session is reconnected by its next request, unless its key is  *)
(* hard and has no session any more.                                       *)
SubmitClosed(r) ==
  LET s == req[r].ses
      k == ses[s].key
  IN /\ pc[r] = "submit" /\ ses[s].closed /\ LifecycleFree(s)
     /\ IF reg[k] = None /\ k \in Hard THEN Ends(r) ELSE GoOn(r, "reconnect")
     /\ UNCHANGED <<reg, fut, outcome, ses, tasks, row, leaving, drain, faults>>

(* Reconnecting takes a lease, a websocket and a reader anew.  A failure   *)
(* may have given the session's lease back; its reader is gone.  Only the  *)
(* errors it foresees give back the lease it has just taken: a             *)
(* cancellation, or an error in their handlers, leaks it.                  *)
Reconnected(s) ==
  [ses EXCEPT ![s].closed = FALSE, ![s].lease = TRUE, ![s].reader = TRUE,
              ![s].stray = @ \/ reg[ses[s].key] # s]

Unconnected(s, kept, leaks) ==
  [ses EXCEPT ![s].closed = TRUE, ![s].lease = @ /\ kept, ![s].reader = FALSE,
              ![s].stray = @ \/ reg[ses[s].key] # s, ![s].leaked = @ \/ leaks]
NotReconnected(s) == {Unconnected(s, kept, leaks) : kept, leaks \in BOOLEAN}

Reconnect(r) ==
  LET s == req[r].ses IN
  /\ pc[r] = "reconnect"
  /\ \/ ses' = Reconnected(s) /\ GoOn(r, "queue") /\ UNCHANGED faults
     \/ ses' \in NotReconnected(s) /\ Ends(r) /\ Mishap
  /\ UNCHANGED <<reg, fut, outcome, tasks, row, leaving, drain>>

(* An open session's queue: refused while it retires or when it is full.   *)
Queue(r) ==
  LET s == req[r].ses IN
  /\ pc[r] = "queue" \/ (pc[r] = "submit" /\ ~ses[s].closed)
  /\ \/ /\ ses[s].retire
        /\ RetireIfReady(s, ses[s], r)
        /\ Ends(r)
     \/ /\ ~ses[s].retire /\ ses[s].queued >= QueueLimit
        /\ Ends(r)
        /\ UNCHANGED <<ses, tasks>>
     \/ /\ ~ses[s].retire /\ ses[s].queued < QueueLimit
        /\ ses' = [ses EXCEPT ![s].queued = @ + 1]
        /\ GoOn(r, "gate")
        /\ UNCHANGED tasks
  /\ UNCHANGED <<reg, fut, outcome, row, leaving, drain, faults>>

(* The gate opens; the session is looked at once more.                     *)
Usable(s) ==
  /\ ~ses[s].closed
  /\ reg[ses[s].key] = s \/ (reg[ses[s].key] = None /\ ses[s].key \notin Hard)

Enqueue(r) ==
  LET s == req[r].ses IN
  /\ pc[r] = "gate" /\ LifecycleFree(s) /\ Usable(s)
  /\ ses' = [ses EXCEPT ![s].pending = @ \cup {r}]
  /\ \/ GoOn(r, "streaming") /\ UNCHANGED faults
     \/ GoOn(r, "resend") /\ Mishap             \* the send failed
  /\ UNCHANGED <<reg, fut, outcome, tasks, row, leaving, drain>>

(* The wait ends in a timeout or a cancellation, or the session is gone.   *)
(* Nobody looks whether the session was to retire with its last request.   *)
GateFails(r) ==
  LET s == req[r].ses
      x == [ses[s] EXCEPT !.queued = Less(@)]
  IN
  /\ pc[r] = "gate"
  /\ ses' = [ses EXCEPT ![s] = [x EXCEPT !.stray = @ \/ (Retired(x) /\ reg[x.key] # s)]]
  /\ Ends(r)
  /\ UNCHANGED <<reg, fut, outcome, tasks, row, leaving, drain, faults>>

(* After a failed send: once more on a fresh websocket, or the session is  *)
(* closed and the request fails.  A request that was failed meanwhile ends.*)
Resend(r) ==
  LET s == req[r].ses IN
  /\ pc[r] = "resend"
  /\ \/ /\ ses' = Reconnected(s)
        /\ IF r \in ses[s].pending THEN GoOn(r, "streaming") ELSE Ends(r)
     \/ /\ \E after \in NotReconnected(s) :
             ses' = [after EXCEPT ![s].pending = @ \ {r}, ![s].queued = Less(@)]
        /\ Ends(r)
  /\ UNCHANGED <<reg, fut, outcome, tasks, row, leaving, drain, faults>>

-------------------------------------------------------------------------------
(* The end of a request on its session.                                    *)

(* The last event of a request, pending or already left by its client.     *)
Terminal(s, r) ==
  /\ ses[s].reader /\ ~Reconnecting(s)
  /\ r \in ses[s].pending \cup ses[s].hidden
  /\ RetireIfReady(s, [ses[s] EXCEPT !.pending = @ \ {r}, !.hidden = @ \ {r},
                                     !.queued = IF r \in ses[s].pending THEN Less(@) ELSE @], None)
  /\ EndAll({r})
  /\ UNCHANGED <<reg, fut, outcome, row, leaving, drain, faults>>

(* The client leaves: its request is drained, and the session retires.     *)
Hide(x, r) ==
  IF r \in x.pending
  THEN [x EXCEPT !.pending = @ \ {r}, !.hidden = @ \cup {r}, !.queued = Less(@), !.retire = TRUE]
  ELSE x

ClientLeaves(r) ==
  /\ pc[r] = "streaming"
  /\ RetireIfReady(req[r].ses, Hide(ses[req[r].ses], r), r)
  /\ Ends(r)
  /\ UNCHANGED <<reg, fut, outcome, row, leaving, drain, faults>>

(* No first event: the request is drained and the session retired, after   *)
(* the close if there is nobody else.                                      *)
FirstEventTimeout(r) ==
  LET s == req[r].ses
      x == Hide(ses[s], r)
  IN /\ pc[r] = "streaming"
     /\ ses' = [ses EXCEPT ![s] = IF Retired(x) THEN [x EXCEPT !.hidden = {}] ELSE x]
     /\ tasks' = tasks \cup {Start(s, r, "retire")}
                        \cup (IF Retired(x) THEN {Start(s, r, "close")} ELSE {})
     /\ Ends(r)
     /\ UNCHANGED <<reg, fut, outcome, row, leaving, drain>>
     /\ Mishap

(* Cancelled after the submit and before the stream is guarded: the entry  *)
(* of the request stays in the session.                                    *)
AbandonedAfterSubmit(r) ==
  /\ pc[r] = "streaming"
  /\ Ends(r)
  /\ UNCHANGED <<reg, fut, outcome, ses, tasks, row, leaving, drain>>
  /\ Mishap

(* The websocket ends or stays silent too long: the reader fails what is   *)
(* pending and retires the session.                                        *)
UpstreamLost(s) ==
  /\ ses[s].reader /\ ~Reconnecting(s)
  /\ EndAll(ses[s].pending)
  /\ ses' = [ses EXCEPT ![s].closed = TRUE, ![s].queued = 0, ![s].pending = {}, ![s].hidden = {},
                        ![s].reader = FALSE]
  /\ tasks' = tasks \cup {Start(s, None, "retire")}
  /\ UNCHANGED <<reg, fut, outcome, row, leaving, drain>>
  /\ Mishap

(* The client's task is cancelled where the request holds nothing.         *)
Cancelled(r) ==
  /\ pc[r] \in {"enter", "submit", "queue"} \cup Waiting
  /\ Ends(r)
  /\ UNCHANGED <<reg, fut, outcome, ses, tasks, row, leaving, drain>>
  /\ Mishap

-------------------------------------------------------------------------------
(* Clean-ups.                                                              *)

(* The release of the durable row, if the session has a handle: it reads   *)
(* the row, and writes it if the handle is still that of the owner.        *)
Owned(s) == Holds(Me, ses[s].handle)
ToWrite(s) == [handle |-> ses[s].handle, state |-> IF drain = "no" THEN "closed" ELSE "draining"]

WriteRow(w) ==
  /\ Found(w.handle)
  /\ row' = [row EXCEPT ![w.handle.key] = Released(w.handle.key, w.state)]
  /\ UNCHANGED faults

WriteFails(w) ==
  /\ UNCHANGED row
  /\ IF Found(w.handle) THEN Mishap ELSE UNCHANGED faults

(* Mutant: a failed read of the row skips the lease.                       *)
CloseReleasesUnguarded(t) ==
  /\ t.kind = "close" /\ t.at = "start" /\ t.write = None
  /\ \/ /\ tasks' = (tasks \ {t}) \cup
                      {[t EXCEPT !.at = "end", !.write = IF Owned(t.ses) THEN ToWrite(t.ses) ELSE None]}
        /\ UNCHANGED faults
     \/ /\ ses[t.ses].handle # None
        /\ tasks' = (tasks \ {t}) \cup {[t EXCEPT !.at = "end"]}
        /\ Mishap
  /\ ses' = [ses EXCEPT ![t.ses].closed = TRUE, ![t.ses].lease = @ /\ faults' # faults]
  /\ UNCHANGED <<reg, fut, outcome, pc, req, row, leaving, drain>>

(* A close gives the lease and the row back, and then ends the reader and  *)
(* fails what is pending.                                                  *)
CloseReleases(t) ==
  /\ t.kind = "close" /\ t.at = "start" /\ t.write = None
  /\ \/ /\ tasks' = (tasks \ {t}) \cup
                      {[t EXCEPT !.at = "end", !.write = IF Owned(t.ses) THEN ToWrite(t.ses) ELSE None]}
        /\ UNCHANGED faults
     \/ /\ ses[t.ses].handle # None
        /\ tasks' = (tasks \ {t}) \cup {[t EXCEPT !.at = "end"]}
        /\ Mishap
  /\ ses' = [ses EXCEPT ![t.ses].closed = TRUE, ![t.ses].lease = FALSE]
  /\ UNCHANGED <<reg, fut, outcome, pc, req, row, leaving, drain>>

CloseWrites(t) ==
  /\ t.kind = "close" /\ t.write # None
  /\ WriteRow(t.write) \/ WriteFails(t.write)
  /\ tasks' = (tasks \ {t}) \cup {[t EXCEPT !.write = None]}
  /\ UNCHANGED <<reg, fut, outcome, pc, req, ses, leaving, drain>>

CloseEnds(t) ==
  LET s == t.ses IN
  /\ t.kind = "close" /\ t.at = "end" /\ t.write = None
  /\ tasks' = tasks \ {t}
  /\ ses' = [ses EXCEPT ![s].closed = @ \/ ses[s].reader, ![s].reader = FALSE, ![s].queued = 0,
                        ![s].pending = {}, ![s].hidden = {}]
  /\ EndAll(ses[s].pending)
  /\ UNCHANGED <<reg, fut, outcome, row, leaving, drain, faults>>

(* A retirement leaves the registry, and then gives the row and the lease  *)
(* back; one that follows a close waits for it.                            *)
RetireUnregisters(t) ==
  LET k == ses[t.ses].key IN
  /\ t.kind = "retire" /\ t.at = "start"
  /\ ~\E u \in tasks : t.by # None /\ u.kind = "close" /\ u.by = t.by
  /\ tasks' = (tasks \ {t}) \cup {[t EXCEPT !.at = "end"]}
  /\ ses' = [ses EXCEPT ![t.ses].closed = TRUE]
  /\ reg' = IF reg[k] = t.ses THEN [reg EXCEPT ![k] = None] ELSE reg
  /\ UNCHANGED <<fut, outcome, pc, req, row, leaving, drain, faults>>

RetireReleases(t) ==
  /\ t.kind = "retire" /\ t.at = "end" /\ t.write = None
  /\ \/ /\ Owned(t.ses)
        /\ tasks' = (tasks \ {t}) \cup {[t EXCEPT !.write = ToWrite(t.ses)]}
        /\ ses' = [ses EXCEPT ![t.ses].handle = None]
        /\ UNCHANGED faults
     \/ /\ ~Owned(t.ses)
        /\ tasks' = tasks \ {t}
        /\ ses' = [ses EXCEPT ![t.ses].lease = FALSE, ![t.ses].handle = None]
        /\ UNCHANGED faults
     \/ /\ ses[t.ses].handle # None              \* the read failed
        /\ tasks' = tasks \ {t}
        /\ ses' = [ses EXCEPT ![t.ses].lease = FALSE]
        /\ Mishap
  /\ UNCHANGED <<reg, fut, outcome, pc, req, row, leaving, drain>>

(* A failed write restores the handle.                                     *)
RetireWrites(t) ==
  /\ t.kind = "retire" /\ t.at = "end" /\ t.write # None
  /\ tasks' = tasks \ {t}
  /\ \/ /\ WriteRow(t.write)
        /\ ses' = [ses EXCEPT ![t.ses].lease = FALSE]
     \/ /\ WriteFails(t.write)
        /\ ses' = [ses EXCEPT ![t.ses].lease = FALSE, ![t.ses].handle = t.write.handle]
  /\ UNCHANGED <<reg, fut, outcome, pc, req, leaving, drain>>

(* Shutdown: the rows are marked first, then everything is closed and      *)
(* every waiter is told.                                                   *)
MarkDraining ==
  /\ drain = "no"
  /\ drain' = "draining"
  /\ row' = [k \in Keys |-> IF row[k].owner = Me /\ row[k].state = "active"
                            THEN [row[k] EXCEPT !.state = "draining"] ELSE row[k]]
  /\ UNCHANGED <<reg, fut, outcome, pc, req, ses, tasks, leaving>>
  /\ Mishap

CloseAll ==
  /\ drain = "draining"
  /\ drain' = "closed"
  /\ reg' = [k \in Keys |-> None]
  /\ fut' = [k \in Keys |-> None]
  /\ outcome' = [r \in Requests |->
                   IF outcome[r] = "pending" /\ \E k \in Keys : fut[k] = r THEN "failed" ELSE outcome[r]]
  /\ tasks' = tasks \cup {Start(reg[k], None, "close") : k \in Registered}
  /\ UNCHANGED <<pc, req, ses, row, leaving, faults>>

-------------------------------------------------------------------------------
(* The other instances, the clock and the purge.                           *)

OnlyTable == UNCHANGED <<reg, fut, outcome, pc, req, ses, tasks, drain>>
OnlyRow == OnlyTable /\ UNCHANGED leaving

(* Another instance claims a key; what its lookup saw may be old, so it    *)
(* may be allowed to take over at any time.  It drains and releases later. *)
RivalClaims(k) ==
  /\ row[k].owner # Rival
  /\ row' = [row EXCEPT ![k] = Claimed(k, Rival, FALSE)]
  /\ OnlyRow /\ Mishap

RivalLooks(k) ==
  /\ row[k].owner = Rival
  /\ leaving' = leaving \cup {Handle(k, row[k])}
  /\ UNCHANGED row
  /\ OnlyTable /\ UNCHANGED faults

RivalReleases(k) ==
  /\ \E h \in leaving, state \in {"closed", "draining"} :
       /\ h.key = k
       /\ leaving' = leaving \ {h}
       /\ row' = IF Found(h) THEN [row EXCEPT ![k] = Released(k, state)] ELSE row
  /\ OnlyTable /\ UNCHANGED faults

RivalDrains(k) ==
  /\ row[k].owner = Rival /\ row[k].state = "active"
  /\ row' = [row EXCEPT ![k].state = "draining"]
  /\ OnlyRow /\ UNCHANGED faults

LeaseExpires(k) ==
  /\ row[k].live
  /\ row' = [row EXCEPT ![k].live = FALSE]
  /\ OnlyRow /\ Mishap

Purge(k) ==
  /\ row[k].state = "closed"
  /\ row' = [row EXCEPT ![k].state = "absent"]
  /\ OnlyRow /\ Mishap

-------------------------------------------------------------------------------
RequestStep(r) ==
  \/ Enter(r)
  \/ JoinSession(r) \/ WakeAgain(r) \/ WakeFailed(r) \/ WaitTimeout(r)
  \/ CreateFails(r) \/ Claim(r) \/ ClaimCancelled(r) \/ ClaimFails(r) \/ Register(r) \/ RegisterFails(r)
  \/ SubmitClosed(r) \/ Reconnect(r) \/ Queue(r) \/ Enqueue(r) \/ GateFails(r) \/ Resend(r)
  \/ ClientLeaves(r) \/ FirstEventTimeout(r) \/ AbandonedAfterSubmit(r)
  \/ Cancelled(r)

Cleanup(s) ==
  \E t \in {u \in tasks : u.ses = s} :
    \/ CloseReleases(t) \/ CloseWrites(t) \/ CloseEnds(t)
    \/ RetireUnregisters(t) \/ RetireReleases(t) \/ RetireWrites(t)

Shutdown == MarkDraining \/ CloseAll

Elsewhere(k) ==
  RivalClaims(k) \/ RivalLooks(k) \/ RivalReleases(k) \/ RivalDrains(k) \/ LeaseExpires(k) \/ Purge(k)

Next ==
  \/ \E r \in Requests : Arrive(r) \/ RequestStep(r)
  \/ \E s \in Requests : UpstreamLost(s) \/ Cleanup(s) \/ \E r \in Requests : Terminal(s, r)
  \/ Shutdown
  \/ \E k \in Keys : Elsewhere(k)

(* The event loop runs every request that can go on.  All that is assumed  *)
(* of the outside is that the loop is not stopped: waits, the stream and   *)
(* the whole request have deadlines, whose expiry is a step of the request.*)
(* Nothing is assumed of the clean-ups, of the shutdown or of others.      *)
Fairness == \A r \in Requests : WF_vars(RequestStep(r))

Spec == Init /\ [][Next]_vars /\ Fairness

-------------------------------------------------------------------------------
(* Properties.                                                             *)

Places == {"idle", "enter"} \cup Waiting \cup Creating \cup Using \cup Final
Outcomes == {"none", "pending", "session", "failed", "cancelled"}
LocalSet == [key : Keys \cup {None}, aliasMiss : BOOLEAN, look : Looks, ses : Requests \cup {None},
             wait : Requests \cup {None}, force : BOOLEAN, after : BOOLEAN]
HandleSet == [key : Keys, token : Nat \X Nat]
SessionSet == [key : Keys \cup {None}, closed : BOOLEAN, lease : BOOLEAN, handle : HandleSet \cup {None},
               queued : Nat, pending : SUBSET Requests, hidden : SUBSET Requests, retire : BOOLEAN,
               reader : BOOLEAN, stray : BOOLEAN, leaked : BOOLEAN]
WriteSet == [handle : HandleSet, state : {"closed", "draining"}]
TaskSet == [ses : Requests, by : Requests \cup {None}, kind : {"close", "retire"}, at : {"start", "end"},
            write : WriteSet \cup {None}]
RowStates == {"absent", "active", "draining", "closed"}
RowSet == [gen : Nat, epoch : Nat, owner : {None, Me, Rival}, state : RowStates, live : BOOLEAN]

(* The state has the shape of the tables and locals it models.             *)
TypeOK ==
  /\ reg \in [Keys -> Requests \cup {None}]
  /\ fut \in [Keys -> Requests \cup {None}]
  /\ outcome \in [Requests -> Outcomes]
  /\ pc \in [Requests -> Places]
  /\ req \in [Requests -> LocalSet]
  /\ ses \in [Requests -> SessionSet]
  /\ tasks \subseteq TaskSet
  /\ row \in [Keys -> RowSet]
  /\ leaving \subseteq HandleSet
  /\ drain \in {"no", "draining", "closed"}
  /\ faults \in Nat

(* An in-flight marker has a request behind it that is still creating the  *)
(* session, whatever timed out, failed or was cancelled, so that nobody    *)
(* waits for a future that no one will settle.  (Requests that were        *)
(* forwarded are the exception, see NoOrphanMarker.)                       *)
MarkerOwned ==
  \A k \in Keys : fut[k] # None =>
    /\ outcome[fut[k]] = "pending"
    /\ pc[fut[k]] \in Creating \cup {"forwarded"}

(* The same without the exception, as the requirement on in-flight markers *)
(* has it.                                                                 *)
NoOrphanMarker ==
  \A k \in Keys : fut[k] # None => pc[fut[k]] \in Creating

(* Registered sessions and creations in flight never exceed max_sessions,  *)
(* but for the sessions bound anew for an unknown turn state.              *)
CapacityBound ==
  Cardinality({k \in Registered : outcome[reg[k]] # "none"}) + InFlight <= MaxSessions

(* The account lease of a session is in good hands: the session is         *)
(* registered or being created, or a clean-up that gives the lease back is *)
(* under way or follows when the last request on the session ends.  The    *)
(* sessions marked stray are the known exceptions: reconnected after they  *)
(* left the registry, overwritten in it, evicted by a request that was     *)
(* then refused, or retiring outside the registry when the last request    *)
(* gives up at the gate.  A lease that was leaked before a session had it  *)
(* is no session's and no clean-up finds it: the reclaim of stale leases   *)
(* is all that gives it back (AccountLeases).                              *)
LeaseTracked ==
  \A s \in Requests : ses[s].lease =>
    \/ reg[ses[s].key] = s
    \/ pc[s] \in Creating
    \/ \E t \in tasks : t.ses = s /\ (t.kind = "retire" \/ t.at = "start")
    \/ ses[s].retire /\ Visible(s)
    \/ ses[s].stray

(* The claims, renewals and releases of this instance, with everything     *)
(* that overtakes them, and of the others keep what the durable table      *)
(* promises.                                                               *)
ReleaseBy(i, h) == [key |-> h.key, by |-> i, token |-> h.token]
Leaving ==
  {ReleaseBy(Rival, h) : h \in leaving}
    \cup {ReleaseBy(Me, t.write.handle) : t \in {u \in tasks : u.write # None}}

Ownership == INSTANCE OwnerLease WITH
  Instances <- {Me, Rival},
  owner <- [k \in Keys |-> row[k].owner],
  token <- [k \in Keys |-> Token(k)],
  leaving <- Leaving

OwnershipKept == Ownership!Spec

(* The clean-up of a session that left the registry does not release the   *)
(* claim of the session that replaced it there.                            *)
ReplacementKeepsOwnership ==
  [][\A k \in Keys, t \in tasks \ tasks' :
       (/\ outcome[t.ses] = "session"
        /\ reg[k] \notin {None, t.ses} /\ ~ses[reg[k]].closed
        /\ Holds(Me, ses[reg[k]].handle)) => row'[k].owner = Me]_vars

(* Every request gets a session and its answer, or an error, or is         *)
(* forwarded, and leaves the bridge for good: no wait is for ever.  (The   *)
(* requests are finitely many, and one that has not come waits for none.)  *)
Answered == <>[](\A r \in Requests : pc[r] \in {"idle"} \cup Final)
===============================================================================
