-------------------------- MODULE StreamRetryProofs --------------------------
(***************************************************************************)
(* Proofs about one streamed request: its types, the accounts and leases   *)
(* of its attempts, that output is never followed by another call of the   *)
(* provider, and that a request which has ended has left nothing behind.   *)
(***************************************************************************)
EXTENDS StreamRetry, TLAPS

-----------------------------------------------------------------------------
(* The inductive invariant *)

Running == {"prepare", "open", "first", "stream", "refresh"}

Over == {"ending", "done"}

\* Between attempts only the leases of failed refreshes are held.
LeaseInv ==
    /\ AttemptEligible
    /\ st.pc \in Running => st.account \in Accounts
    /\ st.pc = "select" => held \subseteq kept

\* Output was passed on by the stream that runs now, or by the last one.
ShownInv ==
    shown => /\ st.pc \in {"stream", "settle"} \cup Over
             /\ st.pc = "stream" => once.visible /\ once.committed

\* The finally clause knows every lease of the request, and every create lease
\* belongs to a stream that runs.
ReturnInv ==
    /\ st.pc # "done" => st.account_leases = held
    /\ st.pc = "done" => held = {} \/ Interrupted
    /\ once.create # None => st.pc \in {"first", "stream"} \/ Interrupted

\* The served request: what was completed has been passed on.
ServedInv ==
    once.outcome = "completed" =>
        once.committed /\ st.pc \in {"stream", "settle"} \cup Over

\* The reservation is settled at most once, by what the last stream came to.
SettleInv ==
    /\ st.pc \notin Over => reservation = "reserved" /\ ~st.settled
    /\ cleanup => st.pc = "done" /\ client = "cancelled"
    /\ st.pc = "ending" =>
         IF st.settled THEN reservation = SettledAs(once)
         ELSE /\ reservation = "reserved"
              /\ client = "here" /\ faults = {} => once.outcome # "completed"
    /\ st.pc = "done" =>
         /\ cleanup \/ Interrupted \/ "database" \in faults \/ reservation # "reserved"
         /\ client = "here" /\ faults = {} =>
              (reservation = "finalized" <=> once.outcome = "completed")

Inv == TypeOK /\ LeaseInv /\ ShownInv /\ ReturnInv /\ ServedInv /\ SettleInv

\* Nothing of a request is left once it is over: its tasks have ended, its leases
\* are given back and its reservation is settled by what the client was served.
OverIsClean == st.pc = "done" /\ ~cleanup /\ orphan = None => Clean

-----------------------------------------------------------------------------
(* What the ways to end an attempt do to the request's account and leases *)

PCs == {"select", "settle"} \cup Running \cup Over

\* The part of the invariant about the account and the leases holds after the
\* step, which neither settles nor takes leases apart from the request's list.
Moved ==
    /\ st' \in States /\ held' \subseteq Leases /\ kept' \subseteq Leases
    /\ LeaseInv'
    /\ st'.settled = st.settled
    /\ st.account_leases = held => st'.account_leases = held'

LEMMA GotoMoves ==
    ASSUME TypeOK, LeaseInv, NEW p \in PCs, Goto(p), UNCHANGED <<pin, held, kept>>,
           p \in Running => st.pc \in Running, p # "select"
    PROVE  Moved /\ st'.pc = p
<1>1. PICK x \in States : x = st
  BY DEF TypeOK
<1>2. st' = [x EXCEPT !.pc = p]
  BY <1>1 DEF Goto
<1>3. /\ st' \in States /\ st'.pc = p /\ st'.account = st.account
      /\ st'.excluded = st.excluded /\ st'.settled = st.settled /\ st'.attempt = st.attempt
      /\ st'.account_leases = st.account_leases /\ st'.current_lease = st.current_lease
  BY <1>1, <1>2 DEF States, PCs, Running, Over
<1>4. LeaseInv'
  BY <1>3 DEF LeaseInv, AttemptEligible, Running, Lease
<1> QED BY <1>3, <1>4 DEF Moved, TypeOK

LEMMA StopMoves ==
    ASSUME TypeOK, LeaseInv, Stop, UNCHANGED pin
    PROVE  Moved /\ st'.pc = "ending"
BY GotoMoves DEF Stop, PCs, Running, Over

LEMMA AttemptLeft ==
    ASSUME TypeOK, LeaseInv, st.pc \in Running
    PROVE  /\ st.attempt \in 0..(MaxAttempts - 1) /\ st.attempt + 1 \in 0..MaxAttempts
           /\ st.account \in Accounts
           /\ st.current_lease \in Leases
           /\ held \subseteq kept \cup {st.current_lease}
<1>1. /\ st.current_lease = <<st.attempt, st.account>>
      /\ st.current_lease \in held /\ st.account \in Accounts
      /\ held \subseteq kept \cup {st.current_lease}
  BY DEF LeaseInv, AttemptEligible, Running, Lease
<1>2. st.current_lease \in Leases
  BY <1>1 DEF TypeOK
<1>3. st.attempt \in 0..(MaxAttempts - 1)
  BY <1>1, <1>2 DEF Leases
<1> QED BY <1>1, <1>2, <1>3, StreamAssumption

LEMMA FailOverMoves ==
    ASSUME TypeOK, LeaseInv, st.pc \in Running, NEW secure \in BOOLEAN,
           FailOver(secure), UNCHANGED pin
    PROVE  Moved /\ st'.pc = "select"
<1>1. PICK x \in States : x = st
  BY DEF TypeOK
<1>0. PICK b \in BOOLEAN : b = (x.security \/ secure)
  BY <1>1 DEF States
<1>2. st' = [x EXCEPT !.pc = "select", !.attempt = x.attempt + 1, !.refreshed = FALSE,
                      !.excluded = x.excluded \cup {x.account}, !.security = b,
                      !.account_leases = x.account_leases \ {x.current_lease},
                      !.current_lease = None]
  BY <1>0, <1>1 DEF FailOver
<1>3. /\ x.attempt + 1 \in 0..MaxAttempts /\ x.account \in Accounts
      /\ held \subseteq kept \cup {x.current_lease}
  BY <1>1, AttemptLeft
<1>4. /\ st' \in States /\ st'.pc = "select" /\ st'.settled = st.settled
      /\ st'.account_leases = st.account_leases \ {st.current_lease}
  BY <1>1, <1>2, <1>3 DEF States
<1>5. /\ held' = held \ {st.current_lease} /\ kept' = kept
  BY DEF FailOver
<1>6. LeaseInv'
  BY <1>1, <1>3, <1>4, <1>5 DEF LeaseInv, AttemptEligible, Running
<1> QED BY <1>4, <1>5, <1>6 DEF Moved, TypeOK

LEMMA MoveOnMoves ==
    ASSUME TypeOK, LeaseInv, st.pc \in Running, NEW excluded \in SUBSET Accounts,
           MoveOn(excluded), UNCHANGED pin
    PROVE  Moved /\ st'.pc = "select"
<1>1. PICK x \in States : x = st
  BY DEF TypeOK
<1>2. st' = [x EXCEPT !.pc = "select", !.attempt = x.attempt + 1, !.refreshed = FALSE,
                      !.excluded = x.excluded \cup excluded]
  BY <1>1 DEF MoveOn
<1>3. /\ x.attempt + 1 \in 0..MaxAttempts /\ x.current_lease \in Leases
      /\ held \subseteq kept \cup {x.current_lease}
  BY <1>1, AttemptLeft
<1>4. /\ st' \in States /\ st'.pc = "select" /\ st'.settled = st.settled
      /\ st'.account_leases = st.account_leases
  BY <1>1, <1>2, <1>3 DEF States
<1>5. held' = held /\ kept' = kept \cup {x.current_lease}
  BY <1>1 DEF MoveOn
<1>6. LeaseInv'
  BY <1>3, <1>4, <1>5 DEF LeaseInv, AttemptEligible, Running
<1> QED BY <1>3, <1>4, <1>5, <1>6 DEF Moved, TypeOK

LEMMA RetryMoves ==
    ASSUME TypeOK, LeaseInv, st.pc \in Running, RetrySame, UNCHANGED pin
    PROVE  Moved /\ st'.pc = "open"
<1>1. PICK x \in States : x = st
  BY DEF TypeOK
<1>2. st' = [x EXCEPT !.pc = "open", !.transient_retries = x.transient_retries + 1]
  BY <1>1 DEF RetrySame
<1>3. x.transient_retries \in 0..MaxRetries /\ x.transient_retries + 1 < MaxRetries
  BY <1>1 DEF RetrySame, States
<1>4. x.transient_retries + 1 \in 0..MaxRetries
  BY <1>3, StreamAssumption
<1>5. /\ st' \in States /\ st'.pc = "open" /\ st'.account = st.account
      /\ st'.excluded = st.excluded /\ st'.settled = st.settled /\ st'.attempt = st.attempt
      /\ st'.account_leases = st.account_leases /\ st'.current_lease = st.current_lease
  BY <1>1, <1>2, <1>4 DEF States
<1>6. held' = held /\ kept' = kept
  BY DEF RetrySame
<1>7. LeaseInv'
  BY <1>5, <1>6 DEF LeaseInv, AttemptEligible, Running, Lease
<1> QED BY <1>5, <1>6, <1>7 DEF Moved, TypeOK

LEMMA DecideMoves ==
    ASSUME TypeOK, LeaseInv, st.pc \in Running, UNCHANGED pin, NEW e,
           Decide(e) \/ DecideRefreshed(e)
    PROVE  Moved /\ st'.pc \in {"select", "open", "refresh", "ending"}
<1>1. CASE RetrySame
  BY <1>1, RetryMoves
<1>2. CASE \E secure \in BOOLEAN : FailOver(secure)
  BY <1>2, FailOverMoves
<1>3. CASE Goto("refresh") /\ UNCHANGED <<held, kept>>
  BY <1>3, GotoMoves DEF PCs, Running
<1>4. CASE Stop
  BY <1>4, StopMoves
<1> QED BY <1>1, <1>2, <1>3, <1>4 DEF Decide, DecideRefreshed, GiveUpAccount

-----------------------------------------------------------------------------
(* Steps before the request is over *)

\* What is left to show of a step that keeps the reservation and the environment.
LEMMA MidStep ==
    ASSUME Inv, Moved, st.pc \notin Over, st'.pc # "done",
           UNCHANGED <<pin, buffering, orphan, reservation, cleanup, expired, client, faults>>,
           once' \in Onces, shown' \in BOOLEAN,
           once'.create # None => st'.pc \in {"first", "stream"},
           ShownInv', ServedInv',
           st'.pc = "ending" => once'.outcome # "completed"
    PROVE  Inv'
<1>1. TypeOK'
  BY DEF Inv, TypeOK, Moved
<1>2. ReturnInv'
  BY DEF Inv, ReturnInv, Moved, Over, Interrupted
<1>3. SettleInv'
  BY DEF Inv, SettleInv, Moved, Over, SettledAs
<1> QED BY <1>1, <1>2, <1>3 DEF Inv, Moved

\* The same for a step that leaves the stream as it is and shows nothing.
LEMMA QuietStep ==
    ASSUME Inv, Moved, st.pc \in {"select", "prepare", "refresh"},
           st'.pc \in {"select", "prepare", "open", "ending"},
           UNCHANGED <<pin, buffering, once, orphan, reservation, cleanup, shown,
                       expired, client, faults>>
    PROVE  Inv'
<1>1. once.outcome # "completed" /\ ~shown /\ (once.create # None => Interrupted)
  BY DEF Inv, ServedInv, ShownInv, ReturnInv, Over
<1>2. TypeOK'
  BY DEF Inv, TypeOK, Moved
<1>3. ReturnInv'
  BY <1>1 DEF Inv, ReturnInv, Moved, Over, Interrupted
<1>4. SettleInv'
  BY <1>1 DEF Inv, SettleInv, Moved, Over, SettledAs
<1>5. ShownInv' /\ ServedInv'
  BY <1>1 DEF ShownInv, ServedInv
<1> QED BY <1>2, <1>3, <1>4, <1>5 DEF Inv, Moved

LEMMA GiveUpInv == ASSUME Inv, GiveUp PROVE Inv'
<1>1. Moved /\ st'.pc = "ending"
  BY StopMoves DEF Inv, GiveUp
<1> QED BY <1>1, QuietStep DEF GiveUp

LEMMA SelectAccountInv ==
    ASSUME Inv, NEW a \in Accounts, SelectAccount(a)
    PROVE  Inv'
<1>1. PICK x \in States : x = st
  BY DEF Inv, TypeOK
<1>2. /\ st.pc = "select" /\ st.attempt # MaxAttempts /\ a \notin st.excluded
      /\ pin.kind = "file" => a = pin.account
  BY DEF SelectAccount, Pickable, Exhausted
<1>3. PICK l \in Leases : l = Lease(x.attempt, a)
  <2>1. x.attempt \in 0..MaxAttempts /\ x.attempt # MaxAttempts
    BY <1>1, <1>2 DEF States
  <2>2. x.attempt \in 0..(MaxAttempts - 1)
    BY <2>1, StreamAssumption
  <2> QED BY <2>2 DEF Leases, Lease
<1>4. PICK p \in {"ending", "prepare"} :
          p = IF pin.kind = "owner" /\ a # pin.account THEN "ending" ELSE "prepare"
  OBVIOUS
<1>5. st' = [x EXCEPT !.pc = p, !.account = a, !.current_lease = l,
                      !.account_leases = x.account_leases \cup {l}]
  BY <1>1, <1>3, <1>4 DEF SelectAccount
<1>6. /\ st' \in States /\ st'.pc = p /\ st'.account = a /\ st'.excluded = st.excluded
      /\ st'.settled = st.settled /\ st'.attempt = st.attempt /\ st'.current_lease = l
      /\ st'.account_leases = st.account_leases \cup {l}
  BY <1>1, <1>4, <1>5 DEF States
<1>7. held' = held \cup {l} /\ kept' = kept /\ pin' = pin
  BY <1>1, <1>3 DEF SelectAccount
<1>8. pin.kind \in {"none", "owner", "file"} /\ held \subseteq kept
  BY <1>2 DEF Inv, TypeOK, Pins, LeaseInv
<1>9. p = "prepare" /\ pin.kind # "none" => a = pin.account
  BY <1>2, <1>4, <1>8
<1>10. LeaseInv'
  BY <1>1, <1>2, <1>3, <1>4, <1>6, <1>7, <1>8, <1>9 DEF LeaseInv, AttemptEligible, Running, Lease
<1>11. Moved
  BY <1>6, <1>7, <1>10 DEF Moved, Inv, TypeOK
<1> QED BY <1>4, <1>6, <1>11, QuietStep DEF SelectAccount

LEMMA SelectNoneInv == ASSUME Inv, SelectNone PROVE Inv'
<1>1. CASE Stop
  <2>1. Moved /\ st'.pc = "ending"
    BY <1>1, StopMoves DEF Inv, SelectNone
  <2> QED BY <2>1, QuietStep DEF SelectNone
<1>2. CASE ~Stop
  <2>1. PICK x \in States : x = st
    BY DEF Inv, TypeOK
  <2>2. /\ st' = [x EXCEPT !.security = FALSE, !.account = None, !.current_lease = None]
        /\ x.pc = "select" /\ held' = held /\ kept' = kept
    BY <1>2, <2>1 DEF SelectNone
  <2>3. /\ st' \in States /\ st'.pc = "select" /\ st'.settled = st.settled
        /\ st'.account_leases = st.account_leases
    BY <2>1, <2>2 DEF States
  <2>4. LeaseInv'
    BY <2>1, <2>2, <2>3 DEF Inv, LeaseInv, AttemptEligible, Running
  <2>5. Moved
    BY <2>2, <2>3, <2>4 DEF Moved, Inv, TypeOK
  <2> QED BY <2>3, <2>5, QuietStep DEF SelectNone
<1> QED BY <1>1, <1>2

LEMMA EnsureFreshInv == ASSUME Inv, EnsureFresh PROVE Inv'
<1>1. PICK x \in States : x = st
  BY DEF Inv, TypeOK
<1>2. PICK b \in BOOLEAN : b = (st.pc = "refresh")
  OBVIOUS
<1>3. PICK n \in 0..MaxRetries : n = IF st.pc = "prepare" THEN 0 ELSE x.transient_retries
  BY <1>1, StreamAssumption DEF States
<1>4. st' = [x EXCEPT !.pc = "open", !.refreshed = b, !.transient_retries = n]
  BY <1>1, <1>2, <1>3 DEF EnsureFresh
<1>5. /\ st' \in States /\ st'.pc = "open" /\ st'.account = st.account
      /\ st'.excluded = st.excluded /\ st'.settled = st.settled /\ st'.attempt = st.attempt
      /\ st'.account_leases = st.account_leases /\ st'.current_lease = st.current_lease
  BY <1>1, <1>4 DEF States
<1>6. held' = held /\ kept' = kept /\ pin' = pin /\ st.pc \in {"prepare", "refresh"}
  BY DEF EnsureFresh
<1>7. LeaseInv'
  BY <1>5, <1>6 DEF Inv, LeaseInv, AttemptEligible, Running, Lease
<1>8. Moved
  BY <1>5, <1>6, <1>7 DEF Moved, Inv, TypeOK
<1> QED BY <1>5, <1>6, <1>8, QuietStep DEF EnsureFresh

LEMMA RefreshFailsInv ==
    ASSUME Inv, RefreshFails \/ RefreshUnreachable
    PROVE  Inv'
<1>1. st.pc \in {"prepare", "refresh"} /\ st.account \in Accounts
  BY DEF RefreshFails, RefreshUnreachable, Inv, LeaseInv, Running
<1>2. PICK s \in SUBSET Accounts : MoveOn(s)
  BY <1>1 DEF RefreshFails, RefreshUnreachable
<1>3. Moved /\ st'.pc = "select"
  BY <1>1, <1>2, MoveOnMoves DEF Inv, Running, RefreshFails, RefreshUnreachable
<1> QED BY <1>1, <1>3, QuietStep DEF RefreshFails, RefreshUnreachable

LEMMA RefreshStopsInv == ASSUME Inv, RefreshStops PROVE Inv'
<1>1. Moved /\ st'.pc = "ending"
  BY StopMoves DEF Inv, RefreshStops
<1> QED BY <1>1, QuietStep DEF RefreshStops

-----------------------------------------------------------------------------
(* _stream_once *)

LEMMA FreshOnce ==
    ASSUME TypeOK
    PROVE  /\ Fresh \in Onces /\ Fresh.create = None /\ Fresh.outcome = "none"
           /\ Fresh.visible = FALSE
<1>1. PICK b \in BOOLEAN : b = (st.refreshed \/ ~buffering)
  BY DEF TypeOK, States
<1>2. Fresh = [create |-> None, visible |-> FALSE, committed |-> b,
               buffer |-> "none", outcome |-> "none"]
  BY <1>1 DEF Fresh
<1> QED BY <1>2 DEF Onces

LEMMA OpenStreamInv == ASSUME Inv, OpenStream PROVE Inv'
<1>1. PICK f \in Onces : f = Fresh
  BY FreshOnce DEF Inv
<1>2. st.pc = "open" /\ ~shown /\ st.account \in Accounts
  BY DEF OpenStream, Inv, ShownInv, LeaseInv, Running, Over
<1>3. once' = [f EXCEPT !.create = st.account]
  BY <1>1 DEF OpenStream
<1>4. once' \in Onces /\ once'.outcome = "none"
  BY <1>1, <1>2, <1>3, FreshOnce DEF Onces, Inv
<1>5. Moved /\ st'.pc = "first"
  BY <1>2, GotoMoves DEF OpenStream, Inv, PCs, Running
<1>6. ShownInv' /\ ServedInv'
  BY <1>2, <1>4 DEF OpenStream, ShownInv, ServedInv
<1>7. shown' \in BOOLEAN
  BY DEF OpenStream, Inv, TypeOK
<1> QED BY <1>2, <1>4, <1>5, <1>6, <1>7, MidStep DEF OpenStream, Over

\* An error of stream o ends the request, or the attempt if nothing was shown.
LEMMA FailInv ==
    ASSUME Inv, st.pc \in Running, NEW o \in Onces, NEW e, Fail(o, e),
           shown => st.pc = "stream" /\ o.visible /\ o.committed
    PROVE  Inv'
<1>1. once' = [o EXCEPT !.create = None, !.outcome = "failed"]
  BY DEF Fail
<1>2. once' \in Onces /\ once'.create = None /\ once'.outcome = "failed"
  BY <1>1 DEF Onces
<1>3. Moved /\ st'.pc \in {"select", "open", "refresh", "ending", "settle"}
           /\ (st'.pc # "settle" => ~shown)
  <2>1. CASE Surfaces(o) /\ Goto("settle") /\ UNCHANGED <<held, kept>>
    BY <2>1, GotoMoves DEF Fail, Inv, PCs, Running
  <2>2. CASE ~Surfaces(o) /\ (Decide(e) \/ DecideRefreshed(e))
    BY <2>2, DecideMoves DEF Fail, Inv, Surfaces
  <2> QED BY <2>1, <2>2 DEF Fail
<1>4. ShownInv' /\ ServedInv'
  BY <1>2, <1>3 DEF Fail, ShownInv, ServedInv
<1>5. shown' \in BOOLEAN /\ st.pc \notin Over
  BY DEF Fail, Inv, TypeOK, Running, Over
<1> QED BY <1>2, <1>3, <1>4, <1>5, MidStep DEF Fail

LEMMA OpenRefusedInv == ASSUME Inv, OpenRefused PROVE Inv'
<1>1. Fresh \in Onces /\ st.pc = "open" /\ ~shown
  BY FreshOnce DEF OpenRefused, Inv, ShownInv, Over
<1> QED BY <1>1, FailInv DEF OpenRefused, Running

LEMMA UpstreamErrorInv == ASSUME Inv, UpstreamError PROVE Inv'
<1>1. once \in Onces /\ st.pc \in {"first", "stream"}
      /\ (shown => st.pc = "stream" /\ once.visible /\ once.committed)
  BY DEF UpstreamError, Inv, TypeOK, ShownInv, Over
<1> QED BY <1>1, FailInv DEF UpstreamError, Running

\* A failure event of the proxy on stream o.
LEMMA ProxyEventInv ==
    ASSUME Inv, st.pc \in {"open", "first", "stream"}, NEW o \in Onces,
           NEW create \in Accounts \cup {None}, NEW class \in {"transient", "fatal"},
           ProxyEvent(o, create, class),
           shown => o.visible /\ o.committed
    PROVE  Inv'
<1>1. PICK b \in {"none", "protocol", "transient", "fatal"} :
          b = IF o.committed THEN o.buffer ELSE class
  BY DEF Onces
<1>2. once' = [o EXCEPT !.create = create, !.outcome = "failed", !.buffer = b]
  BY <1>1 DEF ProxyEvent
<1>3. /\ once' \in Onces /\ once'.outcome = "failed"
      /\ once'.visible = o.visible /\ once'.committed = o.committed
  BY <1>2 DEF Onces
<1>4. Moved /\ st'.pc = "stream"
  BY GotoMoves DEF ProxyEvent, Inv, PCs, Running
<1>5. ShownInv' /\ ServedInv'
  BY <1>3, <1>4 DEF ProxyEvent, ShownInv, ServedInv
<1>6. shown' \in BOOLEAN
  BY DEF ProxyEvent, Inv, TypeOK
<1> QED BY <1>3, <1>4, <1>5, <1>6, MidStep DEF ProxyEvent, Over

LEMMA OpenUnroutedInv == ASSUME Inv, OpenUnrouted PROVE Inv'
<1>1. Fresh \in Onces /\ st.pc = "open" /\ ~shown
  BY FreshOnce DEF OpenUnrouted, Inv, ShownInv, Over
<1> QED BY <1>1, ProxyEventInv DEF OpenUnrouted

LEMMA FirstNotShown ==
    ASSUME Inv, st.pc \in {"first", "stream"}
    PROVE  /\ once \in Onces /\ once.create \in Accounts \cup {None}
           /\ st.pc = "first" => ~shown
           /\ shown => once.visible /\ once.committed
BY DEF Inv, TypeOK, Onces, ShownInv, Over

LEMMA FirstMissingInv == ASSUME Inv, FirstMissing PROVE Inv'
BY FirstNotShown, ProxyEventInv DEF FirstMissing

LEMMA RewrittenInv == ASSUME Inv, Rewritten PROVE Inv'
<1>1. PICK class \in {"transient", "fatal"} : ProxyEvent(once, once.create, class)
  BY DEF Rewritten
<1>2. st.pc \in {"first", "stream"}
  BY DEF Rewritten
<1> QED BY <1>1, <1>2, FirstNotShown, ProxyEventInv

\* The stream has failed before it showed anything, and a step other than a
\* failure event of the proxy follows.
LEMMA FailedStep ==
    ASSUME Inv, st.pc \in {"first", "stream"}, ~shown,
           once' = [once EXCEPT !.create = None, !.outcome = "failed"],
           Moved, st'.pc \in {"select", "open", "ending"},
           UNCHANGED <<pin, buffering, orphan, reservation, cleanup, shown, expired,
                       client, faults>>
    PROVE  Inv'
<1>1. once' \in Onces /\ once'.create = None /\ once'.outcome = "failed"
  BY FirstNotShown DEF Onces
<1>2. ShownInv' /\ ServedInv' /\ shown' \in BOOLEAN
  BY <1>1 DEF ShownInv, ServedInv, Inv, TypeOK
<1> QED BY <1>1, <1>2, MidStep DEF Over

LEMMA FirstUnreachableInv == ASSUME Inv, FirstUnreachable PROVE Inv'
<1>0. st.pc = "first" /\ ~shown
  BY FirstNotShown DEF FirstUnreachable
<1>1. CASE \E class \in {"transient", "fatal"} : ProxyEvent(once, None, class)
  BY <1>0, <1>1, FirstNotShown, ProxyEventInv
<1>2. CASE ~ \E class \in {"transient", "fatal"} : ProxyEvent(once, None, class)
  <2>1. Moved /\ st'.pc = "select"
    BY <1>0, <1>2, FailOverMoves DEF FirstUnreachable, Inv, Running
  <2> QED BY <1>0, <1>2, <2>1, FailedStep DEF FirstUnreachable
<1> QED BY <1>1, <1>2

LEMMA FirstFailedInv ==
    ASSUME Inv, NEW class, FirstFailed(class)
    PROVE  Inv'
<1>0. st.pc = "first" /\ ~shown
  BY FirstNotShown DEF FirstFailed
<1>1. Moved /\ st'.pc \in {"select", "open", "ending"}
  <2>1. CASE RetrySame
    BY <1>0, <2>1, RetryMoves DEF FirstFailed, Inv, Running
  <2>2. CASE \E secure \in BOOLEAN : FailOver(secure)
    BY <1>0, <2>2, FailOverMoves DEF FirstFailed, Inv, Running
  <2>3. CASE Stop
    BY <2>3, StopMoves DEF FirstFailed, Inv
  <2> QED BY <2>1, <2>2, <2>3 DEF FirstFailed, GiveUpAccount
<1> QED BY <1>0, <1>1, FailedStep DEF FirstFailed

LEMMA FirstTerminalInv == ASSUME Inv, FirstTerminal PROVE Inv'
<1>1. once' \in Onces /\ once'.create = None /\ once'.outcome = "failed"
  BY FirstNotShown DEF FirstTerminal, Onces
<1>2. Moved /\ st'.pc = "ending"
  BY StopMoves DEF FirstTerminal, Inv
<1>3. ShownInv' /\ ServedInv'
  BY <1>1, <1>2 DEF ShownInv, ServedInv, Over
<1>4. shown' \in BOOLEAN
  BY DEF FirstTerminal, Inv, TypeOK, Onces
<1> QED BY <1>1, <1>2, <1>3, <1>4, MidStep DEF FirstTerminal, Over

LEMMA DeliverInv ==
    ASSUME Inv, NEW kind \in {"protocol", "data", "completed", "unpriced", "failed"},
           Deliver(kind)
    PROVE  Inv'
<1>0. st.pc \in {"first", "stream"}
  BY DEF Deliver
<1>1. PICK back \in BOOLEAN : back = (~once.committed /\ kind \in {"protocol", "failed"})
  OBVIOUS
<1>2. PICK class \in {"transient", "fatal"} :
          /\ once' = [create |-> None, visible |-> TRUE, committed |-> ~back,
                      buffer |-> CASE ~back -> "none"
                                   [] kind = "failed" -> class
                                   [] OTHER -> "protocol",
                      outcome |-> IF kind \in {"completed", "unpriced", "failed"}
                                  THEN kind ELSE "none"]
          /\ shown' = (shown \/ ~back)
  BY <1>1 DEF Deliver
<1>3. PICK c \in BOOLEAN : c = ~back
  OBVIOUS
<1>4. PICK b \in {"none", "protocol", "transient", "fatal"} :
          b = CASE ~back -> "none" [] kind = "failed" -> class [] OTHER -> "protocol"
  OBVIOUS
<1>5. PICK r \in {"none", "completed", "unpriced", "failed"} :
          r = IF kind \in {"completed", "unpriced", "failed"} THEN kind ELSE "none"
  OBVIOUS
<1>6. once' = [create |-> None, visible |-> TRUE, committed |-> c, buffer |-> b,
               outcome |-> r]
  BY <1>2, <1>3, <1>4, <1>5
<1>7. /\ once' \in Onces /\ once'.create = None /\ once'.visible = TRUE
      /\ once'.committed = c /\ once'.outcome = r
  BY <1>6 DEF Onces
<1>8. Moved /\ st'.pc = "stream"
  BY <1>0, GotoMoves DEF Deliver, Inv, PCs, Running
<1>9. shown => once.committed
  BY <1>0, FirstNotShown
<1>10. shown' => c
  BY <1>1, <1>2, <1>3, <1>9
<1>11. r = "completed" => c
  BY <1>1, <1>3, <1>5
<1>12. ShownInv' /\ ServedInv'
  BY <1>7, <1>8, <1>10, <1>11 DEF ShownInv, ServedInv
<1>13. shown' \in BOOLEAN
  BY <1>2
<1> QED BY <1>0, <1>7, <1>8, <1>12, <1>13, MidStep DEF Deliver, Over

LEMMA StreamBreaksInv == ASSUME Inv, StreamBreaks PROVE Inv'
<1>0. st.pc \in {"first", "stream"}
  BY DEF StreamBreaks
<1>1. once' \in Onces /\ once'.create = None /\ once'.outcome = "failed"
  BY <1>0, FirstNotShown DEF StreamBreaks, Onces
<1>2. Moved /\ st'.pc = "ending"
  BY StopMoves DEF StreamBreaks, Inv
<1>3. ShownInv' /\ ServedInv'
  BY <1>1, <1>2 DEF ShownInv, ServedInv, Over
<1>4. shown' \in BOOLEAN
  BY DEF StreamBreaks, Inv, TypeOK
<1> QED BY <1>0, <1>1, <1>2, <1>3, <1>4, MidStep DEF StreamBreaks, Over

LEMMA EndOfStreamInv == ASSUME Inv, EndOfStream PROVE Inv'
<1>0. st.pc = "stream" /\ once \in Onces
  BY FirstNotShown DEF EndOfStream
<1>1. CASE ~once.committed /\ once.buffer = "transient"
  <2>1. ~shown /\ once.outcome # "completed"
    BY <1>0, <1>1 DEF Inv, ShownInv, ServedInv
  <2>2. once' = [once EXCEPT !.create = None] /\ shown' = shown
    BY <1>1 DEF EndOfStream
  <2>3. once' \in Onces /\ once'.create = None /\ once'.outcome = once.outcome
    BY <1>0, <2>2 DEF Onces
  <2>4. Moved /\ st'.pc \in {"select", "open"}
    <3>1. CASE RetrySame
      BY <1>0, <3>1, RetryMoves DEF EndOfStream, Inv, Running
    <3>2. CASE FailOver(FALSE)
      BY <1>0, <3>2, FailOverMoves DEF EndOfStream, Inv, Running
    <3> QED BY <1>1, <3>1, <3>2 DEF EndOfStream, GiveUpAccount
  <2>5. ShownInv' /\ ServedInv' /\ shown' \in BOOLEAN
    BY <2>1, <2>2, <2>3 DEF ShownInv, ServedInv, Inv, TypeOK
  <2> QED BY <1>0, <2>3, <2>4, <2>5, MidStep DEF EndOfStream, Over
<1>2. CASE once.committed \/ once.buffer # "transient"
  <2>1. /\ once' = [once EXCEPT !.create = None] \/
           once' = [once EXCEPT !.create = None, !.committed = TRUE]
        /\ once.committed \/ once' = [once EXCEPT !.create = None, !.committed = TRUE]
        /\ shown' \in BOOLEAN
        /\ Goto("settle") /\ UNCHANGED <<held, kept>>
    BY <1>2 DEF EndOfStream, Inv, TypeOK
  <2>2. once' \in Onces /\ once'.create = None /\ once'.committed = TRUE
    BY <1>0, <2>1 DEF Onces
  <2>3. Moved /\ st'.pc = "settle"
    BY <2>1, GotoMoves DEF EndOfStream, Inv, PCs, Running
  <2>4. ShownInv' /\ ServedInv'
    BY <2>2, <2>3 DEF ShownInv, ServedInv
  <2> QED BY <1>0, <2>1, <2>2, <2>3, <2>4, MidStep DEF EndOfStream, Over
<1> QED BY <1>1, <1>2

-----------------------------------------------------------------------------
(* The end of the request, the client, the cleanup task and the clock *)

\* How SettledAs depends on the stream's outcome.
LEMMA SettledFields ==
    ASSUME NEW o \in Onces
    PROVE  /\ SettledAs(o) \in {"finalized", "released"}
           /\ SettledAs(o) = "finalized" <=> o.outcome = "completed"
BY DEF SettledAs

LEMMA SettleStepInv == ASSUME Inv, Settle PROVE Inv'
<1>0. st.pc = "settle" /\ once \in Onces /\ once.create # None => Interrupted
  BY DEF Settle, Inv, TypeOK, ReturnInv
<1>u. UNCHANGED <<pin, buffering, once, orphan, held, kept, cleanup, shown, expired, client>>
  BY DEF Settle
<1>1. PICK x \in States : x = st
  BY DEF Inv, TypeOK
<1>2. CASE reservation' = SettledAs(once)
           /\ st' = [st EXCEPT !.pc = "ending", !.settled = TRUE] /\ UNCHANGED faults
  <2>1. st' = [x EXCEPT !.pc = "ending", !.settled = TRUE]
    BY <1>1, <1>2
  <2>2. /\ st' \in States /\ st'.pc = "ending" /\ st'.settled = TRUE
        /\ st'.account_leases = st.account_leases
    BY <1>1, <2>1 DEF States
  <2>3. TypeOK'
    BY <1>u, <1>2, <2>2, SettledFields DEF Inv, TypeOK
  <2>4. LeaseInv' /\ ShownInv' /\ ServedInv'
    BY <1>u, <2>2 DEF Inv, LeaseInv, AttemptEligible, ShownInv, ServedInv, Running, Over
  <2>5. ReturnInv'
    BY <1>0, <1>u, <1>2, <2>2 DEF Settle, Inv, ReturnInv, Interrupted
  <2>6. cleanup' = FALSE
    BY <1>0, <1>u DEF Settle, Inv, TypeOK, SettleInv
  <2>7. SettleInv'
    BY <1>u, <1>2, <2>2, <2>6 DEF SettleInv, Over, SettledAs
  <2> QED BY <2>3, <2>4, <2>5, <2>7 DEF Inv
<1>3. CASE Goto("ending") /\ faults' = faults \cup {"database"} /\ UNCHANGED reservation
  <2>1. Moved /\ st'.pc = "ending"
    BY <1>3, <1>u, StopMoves DEF Inv, Stop
  <2>2. TypeOK'
    BY <1>u, <1>3, <2>1 DEF Inv, TypeOK, Moved
  <2>3. ShownInv' /\ ServedInv'
    BY <1>0, <1>u, <2>1 DEF Settle, Inv, ShownInv, ServedInv, Over
  <2>4. ReturnInv'
    BY <1>0, <1>u, <1>3, <2>1 DEF Settle, Inv, ReturnInv, Moved, Interrupted
  <2>5. SettleInv'
    <3>1. reservation = "reserved" /\ ~st.settled /\ ~cleanup
      BY <1>0 DEF Settle, Inv, SettleInv, Over
    <3>2. faults' # {}
      BY <1>3
    <3> QED BY <1>u, <1>3, <2>1, <3>1, <3>2 DEF SettleInv, Moved, Over
  <2> QED BY <2>1, <2>2, <2>3, <2>4, <2>5 DEF Inv, Moved
<1> QED BY <1>2, <1>3 DEF Settle

LEMMA ReleaseLeaseInv ==
    ASSUME Inv, NEW l \in Leases, ReleaseLease(l)
    PROVE  Inv'
<1>0. /\ st.pc = "ending" /\ held' = held \ {l}
      /\ UNCHANGED <<pin, buffering, once, orphan, kept, reservation, cleanup, shown,
                     expired, client, faults>>
  BY DEF ReleaseLease
<1>1. PICK x \in States : x = st
  BY DEF Inv, TypeOK
<1>2. st' = [x EXCEPT !.account_leases = x.account_leases \ {l}]
  BY <1>1 DEF ReleaseLease
<1>3. /\ st' \in States /\ st'.pc = "ending" /\ st'.settled = st.settled
      /\ st'.account_leases = st.account_leases \ {l}
  BY <1>0, <1>1, <1>2 DEF States
<1>4. TypeOK'
  BY <1>0, <1>3 DEF Inv, TypeOK
<1>5. LeaseInv' /\ ShownInv' /\ ServedInv'
  BY <1>0, <1>3 DEF Inv, LeaseInv, AttemptEligible, ShownInv, ServedInv, Running, Over
<1>6. ReturnInv'
  BY <1>0, <1>3 DEF Inv, ReturnInv, Interrupted
<1>7. SettleInv'
  BY <1>0, <1>3 DEF Inv, SettleInv, Over, SettledAs
<1> QED BY <1>4, <1>5, <1>6, <1>7 DEF Inv

LEMMA FinishInv == ASSUME Inv, Finish PROVE Inv'
<1>0. /\ st.pc = "ending" /\ st.account_leases = {} /\ Goto("done")
      /\ UNCHANGED <<pin, buffering, once, orphan, held, kept, shown, expired, client>>
  BY DEF Finish
<1>1. Moved /\ st'.pc = "done"
  BY <1>0, GotoMoves DEF Inv, PCs, Running, Over
<1>2. /\ ~cleanup /\ once \in Onces
      /\ IF st.settled THEN reservation = SettledAs(once)
         ELSE /\ reservation = "reserved"
              /\ client = "here" /\ faults = {} => once.outcome # "completed"
  BY <1>0 DEF Inv, SettleInv, TypeOK
<1>3. /\ reservation' \in {"reserved", "finalized", "released"} /\ cleanup' \in BOOLEAN
      /\ faults' \in {faults, faults \cup {"database"}}
  BY DEF Finish, ReleaseReservation, Inv, TypeOK
<1>4. TypeOK'
  BY <1>0, <1>1, <1>3 DEF Inv, TypeOK, Moved
<1>5. ShownInv' /\ ServedInv'
  BY <1>0, <1>1 DEF Inv, ShownInv, ServedInv, Over
<1>6. ReturnInv'
  BY <1>0, <1>1, <1>3 DEF Inv, ReturnInv, Moved, Interrupted
<1>7. SettleInv'
  <2>1. CASE st.settled /\ UNCHANGED <<reservation, cleanup, faults>>
    BY <1>0, <1>1, <1>2, <2>1, SettledFields DEF SettleInv, Over
  <2>2. CASE ~st.settled /\ client # "cancelled" /\ ReleaseReservation /\ UNCHANGED cleanup
    <3>1. CASE reservation' = "released" /\ UNCHANGED faults
      BY <1>0, <1>1, <1>2, <2>2, <3>1 DEF SettleInv, Over
    <3>2. CASE faults' = faults \cup {"database"}
      BY <1>0, <1>1, <1>2, <2>2, <3>2 DEF SettleInv, Over
    <3> QED BY <1>2, <2>2, <3>1, <3>2 DEF ReleaseReservation
  <2>3. CASE ~st.settled /\ client = "cancelled" /\ cleanup' = TRUE
             /\ UNCHANGED <<reservation, faults>>
    BY <1>0, <1>1, <2>3 DEF SettleInv, Over
  <2> QED BY <2>1, <2>2, <2>3 DEF Finish
<1> QED BY <1>1, <1>4, <1>5, <1>6, <1>7 DEF Inv, Moved

LEMMA CleanUpInv == ASSUME Inv, CleanUp PROVE Inv'
<1>0. /\ cleanup /\ cleanup' = FALSE
      /\ UNCHANGED <<pin, buffering, st, once, orphan, held, kept, shown, expired, client>>
  BY DEF CleanUp
<1>1. st.pc = "done" /\ client = "cancelled"
  BY <1>0 DEF Inv, SettleInv
<1>2. /\ reservation' \in {"reserved", "finalized", "released"}
      /\ faults' \in {faults, faults \cup {"database"}}
      /\ "database" \in faults' \/ reservation' # "reserved"
  BY DEF CleanUp, ReleaseReservation, Inv, TypeOK
<1>3. TypeOK'
  BY <1>0, <1>2 DEF Inv, TypeOK
<1>4. LeaseInv' /\ ShownInv' /\ ServedInv'
  BY <1>0, <1>1 DEF Inv, LeaseInv, AttemptEligible, ShownInv, ServedInv, Running, Over
<1>5. ReturnInv'
  BY <1>0, <1>1, <1>2 DEF Inv, ReturnInv, Interrupted
<1>6. SettleInv'
  BY <1>0, <1>1, <1>2 DEF SettleInv, Over
<1> QED BY <1>3, <1>4, <1>5, <1>6 DEF Inv

LEMMA LeaveInv == ASSUME Inv, Leave PROVE Inv'
<1>0. /\ st.pc \in {"stream", "settle", "select"} /\ client' = "left" /\ Goto("ending")
      /\ once' = [once EXCEPT !.create = None]
      /\ UNCHANGED <<pin, buffering, held, kept, reservation, cleanup, shown, expired, faults>>
  BY DEF Leave
<1>1. Moved /\ st'.pc = "ending"
  BY <1>0, StopMoves DEF Inv, Stop
<1>2. /\ once' \in Onces /\ once'.create = None /\ once'.outcome = once.outcome
      /\ once'.committed = once.committed /\ orphan' \in Accounts \cup {None}
  BY <1>0 DEF Leave, Inv, TypeOK, Onces
<1>3. TypeOK'
  BY <1>0, <1>1, <1>2 DEF Inv, TypeOK, Moved
<1>4. ShownInv' /\ ServedInv' /\ ReturnInv'
  BY <1>0, <1>1, <1>2 DEF Inv, ShownInv, ServedInv, ReturnInv, Moved, Over, Interrupted
<1>5. SettleInv'
  BY <1>0, <1>1 DEF Inv, SettleInv, Moved, Over
<1> QED BY <1>1, <1>3, <1>4, <1>5 DEF Inv, Moved

LEMMA CancelInv == ASSUME Inv, Cancel PROVE Inv'
<1>0. /\ st.pc \notin Over /\ client' = "cancelled" /\ Goto("ending")
      /\ UNCHANGED <<pin, buffering, orphan, held, kept, reservation, cleanup, shown, expired>>
  BY DEF Cancel, Over
<1>1. Moved /\ st'.pc = "ending"
  BY <1>0, StopMoves DEF Inv, Stop
<1>2. PICK o \in Onces : o = once
  BY DEF Inv, TypeOK
<1>3. /\ once' \in Onces /\ once'.outcome = once.outcome /\ once'.committed = once.committed
      /\ faults' \in {faults, faults \cup {"interrupted"}}
      /\ once'.create = None \/ "interrupted" \in faults'
  <2>1. CASE once' = [o EXCEPT !.create = None] /\ UNCHANGED faults
    BY <1>2, <2>1 DEF Onces
  <2>2. CASE faults' = faults \cup {"interrupted"} /\ UNCHANGED once
    BY <1>2, <2>2
  <2> QED BY <1>2, <2>1, <2>2 DEF Cancel
<1>4. TypeOK'
  BY <1>0, <1>1, <1>3 DEF Inv, TypeOK, Moved
<1>5. ShownInv' /\ ServedInv' /\ ReturnInv'
  BY <1>0, <1>1, <1>3 DEF Inv, ShownInv, ServedInv, ReturnInv, Moved, Over, Interrupted
<1>6. SettleInv'
  BY <1>0, <1>1 DEF Inv, SettleInv, Moved, Over
<1> QED BY <1>1, <1>4, <1>5, <1>6 DEF Inv, Moved

LEMMA InterruptInv == ASSUME Inv, Interrupt PROVE Inv'
<1>0. /\ st.pc = "ending" /\ client' = "cancelled" /\ Goto("done")
      /\ faults' = faults \cup {"interrupted"}
      /\ UNCHANGED <<pin, buffering, once, orphan, held, kept, reservation, cleanup,
                     shown, expired>>
  BY DEF Interrupt
<1>1. Moved /\ st'.pc = "done"
  BY <1>0, GotoMoves DEF Inv, PCs, Running, Over
<1>2. TypeOK'
  BY <1>0, <1>1 DEF Inv, TypeOK, Moved
<1>3. ShownInv' /\ ServedInv' /\ ReturnInv'
  BY <1>0, <1>1 DEF Inv, ShownInv, ServedInv, ReturnInv, Moved, Over, Interrupted
<1>4. SettleInv'
  BY <1>0, <1>1 DEF Inv, SettleInv, Moved, Over, Interrupted
<1> QED BY <1>1, <1>2, <1>3, <1>4 DEF Inv, Moved

\* Steps that change neither the request's state nor what it owes.
LEMMA AsideInv ==
    ASSUME Inv, CloseOrphan \/ Expire \/ Done \/ UNCHANGED vars
    PROVE  Inv'
<1>1. /\ UNCHANGED <<pin, buffering, st, once, held, kept, reservation, cleanup, shown,
                     client, faults>>
      /\ orphan' \in {orphan, None} /\ expired' \in {expired, TRUE}
  BY DEF CloseOrphan, Expire, Done, vars
<1>2. TypeOK'
  BY <1>1 DEF Inv, TypeOK
<1>3. LeaseInv' /\ ShownInv' /\ ServedInv'
  BY <1>1 DEF Inv, LeaseInv, AttemptEligible, ShownInv, ServedInv
<1>4. ReturnInv'
  BY <1>1 DEF Inv, ReturnInv, Interrupted
<1>5. SettleInv'
  BY <1>1 DEF Inv, SettleInv, SettledAs, Interrupted
<1> QED BY <1>2, <1>3, <1>4, <1>5 DEF Inv

-----------------------------------------------------------------------------
(* The theorems *)

LEMMA InitInv == Init => Inv
<1> SUFFICES ASSUME Init PROVE Inv
  OBVIOUS
<1>1. /\ st.pc = "select" /\ st.settled = FALSE /\ st.account_leases = {}
      /\ once.create = None /\ once.outcome = "none"
      /\ held = {} /\ kept = {} /\ reservation = "reserved" /\ cleanup = FALSE
      /\ shown = FALSE
  BY DEF Init
<1>2. st \in States /\ once \in Onces
  BY StreamAssumption DEF Init, States, Onces
<1>3. TypeOK
  BY <1>1, <1>2 DEF Init, TypeOK
<1>4. LeaseInv /\ ShownInv /\ ReturnInv /\ ServedInv /\ SettleInv
  BY <1>1 DEF LeaseInv, AttemptEligible, ShownInv, ReturnInv, ServedInv, SettleInv,
              Running, Over
<1> QED BY <1>3, <1>4 DEF Inv

LEMMA NextInv == Inv /\ [Next]_vars => Inv'
<1> SUFFICES ASSUME Inv, [Next]_vars PROVE Inv'
  OBVIOUS
<1>1. CASE Select
  BY <1>1, GiveUpInv, SelectNoneInv, SelectAccountInv DEF Select
<1>2. CASE Prepare
  BY <1>2, EnsureFreshInv, RefreshFailsInv, RefreshStopsInv DEF Prepare
<1>3. CASE StreamOnce
  BY <1>3, OpenStreamInv, OpenRefusedInv, OpenUnroutedInv, FirstMissingInv,
     FirstUnreachableInv, FirstTerminalInv, RewrittenInv, FirstFailedInv, DeliverInv,
     UpstreamErrorInv, StreamBreaksInv DEF StreamOnce
<1>4. CASE Wind
  BY <1>4, EndOfStreamInv, SettleStepInv, FinishInv, ReleaseLeaseInv DEF Wind
<1>5. CASE CleanUp
  BY <1>5, CleanUpInv
<1>6. CASE Leave \/ Cancel \/ Interrupt
  BY <1>6, LeaveInv, CancelInv, InterruptInv
<1>7. CASE CloseOrphan \/ Expire \/ Done \/ UNCHANGED vars
  BY <1>7, AsideInv
<1> QED BY <1>1, <1>2, <1>3, <1>4, <1>5, <1>6, <1>7 DEF Next, Work

LEMMA Invariance == Spec => []Inv
BY InitInv, NextInv, PTL DEF Spec

\* Type correctness of the request, its streams and its leases: no attempt or retry
\* counter leaves its range, on any number of attempts and retries.
THEOREM TypeCorrect == Spec => []TypeOK
<1>1. Inv => TypeOK
  BY DEF Inv
<1> QED BY <1>1, Invariance, PTL

\* Every attempt runs on an account the request may use and under a lease of its
\* own; of earlier attempts only the leases of failed refreshes are still held.
THEOREM AttemptsEligible == Spec => []AttemptEligible
<1>1. Inv => AttemptEligible
  BY DEF Inv, LeaseInv
<1> QED BY <1>1, Invariance, PTL

\* The provider is never called again once output has reached the client.
THEOREM NeverReplays == Spec => NoReplay
<1>1. Inv => (st.pc = "open" /\ st'.pc = "first" => ~shown)
  BY DEF Inv, ShownInv, Over
<1> QED BY <1>1, Invariance, PTL DEF NoReplay

\* A request that has ended, its cleanup task and its abandoned stream included, is
\* clean: EndsClean but for the fact that every request ends.
THEOREM EndedIsClean == Spec => []OverIsClean
<1>1. Inv => OverIsClean
  BY DEF Inv, OverIsClean, Clean, ReturnInv, SettleInv, Interrupted
<1> QED BY <1>1, Invariance, PTL

=============================================================================
