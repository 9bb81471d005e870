------------------------- MODULE BridgeSessionsProofs -------------------------
(***************************************************************************)
(* Theorems about BridgeSessions, for any number of requests, keys,        *)
(* sessions and mishaps: the durable table keeps the promise of OwnerLease,*)
(* every in-flight marker has a creation behind it, the registry never     *)
(* holds more than max_sessions, and no session loses its account lease.   *)
(***************************************************************************)
EXTENDS BridgeSessions, FiniteSetTheorems, TLAPS

-------------------------------------------------------------------------------
(* Types.  The invariant adds what a request has at hand where it is: its  *)
(* key until it has a session, whom it waits for, its session after.       *)

Early == {"enter"} \cup Waiting \cup Creating

Keyed ==
  \A r \in Requests :
    /\ pc[r] \in Early => req[r].key \in Keys
    /\ pc[r] \in Waiting => req[r].wait \in Requests
    /\ pc[r] \in Using => req[r].ses \in Requests

RequestsOK == pc \in [Requests -> Places] /\ req \in [Requests -> LocalSet] /\ Keyed
TablesOK == /\ reg \in [Keys -> Requests \cup {None}]
            /\ fut \in [Keys -> Requests \cup {None}]
            /\ outcome \in [Requests -> Outcomes]
SessionsOK == ses \in [Requests -> SessionSet] /\ tasks \subseteq TaskSet
LeavingOK == leaving \subseteq HandleSet
RestOK == drain \in {"no", "draining", "closed"} /\ faults \in Nat

RowOK == row \in [Keys -> RowSet]

TypeInv == RequestsOK /\ TablesOK /\ SessionsOK /\ RestOK /\ RowOK /\ LeavingOK

-------------------------------------------------------------------------------
(* The durable table: a step is one of the promise or invisible to it.     *)
LeaseStep == Ownership!Next \/ UNCHANGED Ownership!leaseVars

(* Most steps only begin clean-ups, which have nothing to write yet.       *)
Begun == /\ leaving' = leaving
         /\ tasks \subseteq tasks'
         /\ \A t \in tasks' : t \in tasks \/ t.write = None

LEMMA BegunLeaves == Begun => Leaving' = Leaving
BY DEF Begun, Leaving, ReleaseBy

LEMMA TasksKept == UNCHANGED <<tasks, leaving>> => Begun
BY DEF Begun

LEMMA StartWrites == \A x, by, kind : Start(x, by, kind).write = None
BY DEF Start

LEMMA StartBegun ==
  ASSUME NEW T, \A t \in T : t.write = None, tasks' = tasks \cup T, leaving' = leaving
  PROVE  Begun
BY DEF Begun

-------------------------------------------------------------------------------
(* The ways in which a row is written.                                     *)

LEMMA RowUntouched ==
  ASSUME RowOK, row' = row, Leaving' = Leaving
  PROVE  RowOK' /\ LeaseStep
<1>1. RowOK'
  BY DEF RowOK
<1>2. \A k \in Keys : row'[k].owner = row[k].owner /\ Token(k)' = Token(k)
  BY DEF Token
<1>3. UNCHANGED Ownership!leaseVars
  BY <1>2 DEF Ownership!leaseVars
<1> QED BY <1>1, <1>3 DEF LeaseStep

(* Whose the row is, and under which token, stays.                         *)
LEMMA RowRefreshed ==
  ASSUME RowOK, Leaving' = Leaving, row' \in [Keys -> RowSet],
         \A k \in Keys : /\ row'[k].owner = row[k].owner
                         /\ row'[k].gen = row[k].gen
                         /\ row'[k].epoch = row[k].epoch
  PROVE  RowOK' /\ LeaseStep
<1>1. RowOK'
  BY DEF RowOK
<1>2. \A k \in Keys : Token(k)' = Token(k)
  BY DEF Token
<1>3. UNCHANGED Ownership!leaseVars
  BY <1>2 DEF Ownership!leaseVars
<1> QED BY <1>1, <1>3 DEF LeaseStep

(* A claim, of whichever instance.                                         *)
LEMMA RowClaimed ==
  ASSUME RowOK, NEW k, NEW i \in {Me, Rival}, NEW advance \in BOOLEAN,
         row' = [row EXCEPT ![k] = Claimed(k, i, advance)], Leaving' = Leaving
  PROVE  RowOK' /\ LeaseStep
<1>1. CASE k \notin Keys
  <2>1. row' = row
    BY <1>1 DEF RowOK
  <2> QED BY <2>1, RowUntouched
<1>2. CASE k \in Keys
  <2>1. row[k] \in RowSet
    BY <1>2 DEF RowOK
  <2>2. /\ Claimed(k, i, advance) \in RowSet /\ Claimed(k, i, advance).owner = i
        /\ row[k].state # "absent" =>
             /\ Claimed(k, i, advance).gen = row[k].gen
             /\ Claimed(k, i, advance).epoch = NextEpoch(k, i, advance)
    <3>1. NextEpoch(k, i, advance) \in Nat
      BY <2>1 DEF NextEpoch, RowSet
    <3>2. CASE row[k].state = "absent"
      BY <2>1, <3>2 DEF Claimed, RowSet, RowStates
    <3>3. CASE row[k].state # "absent"
      <4>1. PICK x \in RowSet : x = row[k]
        BY <2>1
      <4>2. Claimed(k, i, advance)
              = [x EXCEPT !.epoch = NextEpoch(k, i, advance), !.owner = i, !.state = "active", !.live = TRUE]
        BY <3>3, <4>1 DEF Claimed
      <4>3. /\ Claimed(k, i, advance) \in RowSet /\ Claimed(k, i, advance).owner = i
            /\ Claimed(k, i, advance).gen = x.gen
            /\ Claimed(k, i, advance).epoch = NextEpoch(k, i, advance)
        BY <3>1, <4>2 DEF RowSet, RowStates
      <4> QED BY <4>1, <4>3
    <3> QED BY <3>2, <3>3
  <2>3. RowOK'
    BY <2>2, <1>2 DEF RowOK
  <2>4. row'[k] = Claimed(k, i, advance) /\ \A j \in Keys \ {k} : row'[j] = row[j]
    BY <1>2 DEF RowOK
  <2>5. \A j \in Keys \ {k} : row'[j].owner = row[j].owner /\ Token(j)' = Token(j)
    BY <2>4 DEF Token
  <2>6. row'[k].owner = i
    BY <2>2, <2>4
  <2>7. Token(k)' \in Nat \X Nat
    BY <2>2, <2>4 DEF Token, RowSet
  <2>8. CASE Token(k)' = Token(k) /\ row[k].owner = i
    <3>1. UNCHANGED Ownership!leaseVars
      BY <2>5, <2>6, <2>8 DEF Ownership!leaseVars
    <3> QED BY <2>3, <3>1 DEF LeaseStep
  <2>9. CASE Token(k)' # Token(k) \/ row[k].owner # i
    <3>1. Ownership!Later(Token(k)', Token(k))
      <4>1. CASE row[k].state = "absent"
        BY <2>1, <2>4, <4>1 DEF Claimed, Token, RowSet, Ownership!Later
      <4>2. CASE row[k].state # "absent"
        <5>1. row'[k].gen = row[k].gen /\ row'[k].epoch = NextEpoch(k, i, advance)
          BY <2>2, <2>4, <4>2
        <5>2. row'[k].epoch = row[k].epoch + 1
          BY <5>1, <2>9 DEF NextEpoch, Token
        <5> QED BY <2>1, <5>1, <5>2 DEF Token, RowSet, Ownership!Later
      <4> QED BY <4>1, <4>2
    <3>2. [j \in Keys |-> Token(j)]' = [[j \in Keys |-> Token(j)] EXCEPT ![k] = Token(k)']
      BY <2>5, <1>2
    <3>3. [j \in Keys |-> row[j].owner]' = [[j \in Keys |-> row[j].owner] EXCEPT ![k] = i]
      BY <2>5, <2>6, <1>2
    <3>4. Ownership!Take(k, i) \/ Ownership!TakeAgain(k, i)
      <4>1. CASE row[k].owner # i
        BY <1>2, <2>7, <3>1, <3>2, <3>3, <4>1 DEF Ownership!Take, Ownership!Tokens
      <4>2. CASE row[k].owner = i
        <5>1. [j \in Keys |-> row[j].owner]' = [j \in Keys |-> row[j].owner]
          BY <2>5, <2>6, <4>2
        <5> QED BY <1>2, <2>7, <3>1, <3>2, <4>2, <5>1 DEF Ownership!TakeAgain, Ownership!Tokens
      <4> QED BY <4>1, <4>2
    <3> QED BY <1>2, <2>3, <3>4 DEF LeaseStep, Ownership!Next
  <2> QED BY <2>8, <2>9
<1> QED BY <1>1, <1>2

LEMMA OwnerDropped ==
  ASSUME NEW k \in Keys, row'[k].owner = None, \A j \in Keys \ {k} : row'[j].owner = row[j].owner
  PROVE  [j \in Keys |-> row[j].owner]' = [[j \in Keys |-> row[j].owner] EXCEPT ![k] = None]
OBVIOUS

(* The write of a release that has looked.                                 *)
LEMMA RowYielded ==
  ASSUME RowOK, NEW k \in Keys, NEW h, h.key = k, NEW i \in {Me, Rival}, NEW state \in RowStates,
         ReleaseBy(i, h) \in Leaving, Found(h), row' = [row EXCEPT ![k] = Released(k, state)],
         Leaving' \in {Leaving, Leaving \ {ReleaseBy(i, h)}}
  PROVE  RowOK' /\ LeaseStep
<1>1. k = h.key
  OBVIOUS
<1>2. PICK x \in RowSet : x = row[k]
  BY DEF RowOK
<1>3. /\ row'[k] = [x EXCEPT !.owner = None, !.live = FALSE, !.state = state]
      /\ \A j \in Keys \ {k} : row'[j] = row[j]
  BY <1>1, <1>2 DEF RowOK, Released
<1>4. row'[k] \in RowSet /\ row'[k].owner = None /\ row'[k].gen = x.gen /\ row'[k].epoch = x.epoch
  <2>1. LET y == [x EXCEPT !.owner = None, !.live = FALSE, !.state = state] IN
        y \in RowSet /\ y.owner = None /\ y.gen = x.gen /\ y.epoch = x.epoch
    BY DEF RowSet
  <2> QED BY <1>3, <2>1
<1>5. RowOK'
  <2>1. row' = [row EXCEPT ![k] = row'[k]]
    BY <1>1 DEF RowOK
  <2> QED BY <1>4, <2>1 DEF RowOK
<1>6. \A j \in Keys : Token(j)' = Token(j)
  BY <1>2, <1>3, <1>4 DEF Token
<1>7. [j \in Keys |-> row[j].owner]' = [[j \in Keys |-> row[j].owner] EXCEPT ![k] = None]
  <2>1. \A j \in Keys \ {k} : row'[j].owner = row[j].owner
    BY <1>3
  <2> QED BY <1>4, <2>1, OwnerDropped
<1>8. [j \in Keys |-> Token(j)]' = [j \in Keys |-> Token(j)]
  BY <1>6
<1>9. PICK w : w = ReleaseBy(i, h)
  OBVIOUS
<1>10. w.key = k /\ w.token = h.token
  BY <1>1, <1>9 DEF ReleaseBy
<1>11. Token(k)[1] = w.token[1]
  BY <1>1, <1>10 DEF Found, Token
<1>12. Ownership!Yield(w)
  BY <1>7, <1>8, <1>9, <1>10, <1>11 DEF Ownership!Yield
<1> QED BY <1>5, <1>9, <1>12 DEF LeaseStep, Ownership!Next

(* The look of a release.                                                  *)
LEMMA RowLooked ==
  ASSUME RowOK, NEW h \in HandleSet, NEW i \in {Me, Rival}, row[h.key].owner = i, h.token = Token(h.key),
         row' = row, Leaving' = Leaving \cup {ReleaseBy(i, h)}
  PROVE  RowOK' /\ LeaseStep
<1>1. PICK k \in Keys : k = h.key
  BY DEF HandleSet
<1>2. \A j \in Keys : row'[j].owner = row[j].owner /\ Token(j)' = Token(j)
  BY DEF Token
<1>3. [j \in Keys |-> row[j].owner]' = [j \in Keys |-> row[j].owner] /\ [j \in Keys |-> Token(j)]' = [j \in Keys |-> Token(j)]
  BY <1>2
<1>4. Leaving' = Leaving \cup {[key |-> k, by |-> i, token |-> [j \in Keys |-> Token(j)][k]]}
  BY <1>1 DEF ReleaseBy
<1>5. Ownership!Leave(k, i)
  BY <1>1, <1>3, <1>4 DEF Ownership!Leave
<1> QED BY <1>5 DEF LeaseStep, Ownership!Next, RowOK

(* A release that is given up.                                             *)
LEMMA RowForgone ==
  ASSUME RowOK, NEW w \in Leaving, row' = row, Leaving' \in {Leaving, Leaving \ {w}}
  PROVE  RowOK' /\ LeaseStep
<1>1. CASE Leaving' = Leaving
  BY <1>1, RowUntouched
<1>2. CASE Leaving' = Leaving \ {w}
  <2>1. \A j \in Keys : row'[j].owner = row[j].owner /\ Token(j)' = Token(j)
    BY DEF Token
  <2>2. [j \in Keys |-> row[j].owner]' = [j \in Keys |-> row[j].owner] /\ [j \in Keys |-> Token(j)]' = [j \in Keys |-> Token(j)]
    BY <2>1
  <2>3. Ownership!Forgo(w)
    BY <1>2, <2>2 DEF Ownership!Forgo
  <2> QED BY <2>3 DEF LeaseStep, Ownership!Next, RowOK
<1> QED BY <1>1, <1>2

-------------------------------------------------------------------------------
(* The actions that write the table.                                       *)

(* A change of one row that leaves it whose it is.                         *)
LEMMA RowLifeOne ==
  ASSUME RowOK, NEW k, NEW x, k \in Keys => x \in RowSet,
         k \in Keys => x.owner = row[k].owner /\ x.gen = row[k].gen /\ x.epoch = row[k].epoch,
         row' = [row EXCEPT ![k] = x], Leaving' = Leaving
  PROVE  RowOK' /\ LeaseStep
<1>1. CASE k \notin Keys
  <2>1. row' = row
    BY <1>1 DEF RowOK
  <2> QED BY <2>1, RowUntouched
<1>2. CASE k \in Keys
  <2>1. row' \in [Keys -> RowSet] /\ row'[k] = x /\ \A j \in Keys \ {k} : row'[j] = row[j]
    BY <1>2 DEF RowOK
  <2> QED BY <1>2, <2>1, RowRefreshed
<1> QED BY <1>1, <1>2

LEMMA EnterRow ==
  ASSUME RowOK, NEW r \in Requests, Enter(r), Leaving' = Leaving
  PROVE  RowOK' /\ LeaseStep
<1>1. PICK P \in Sweeps :
        \/ EnterReuse(r, P) \/ EnterRefused(r, P) \/ EnterJoin(r, P)
        \/ EnterAliasMiss(r, P) \/ EnterPublish(r, P) \/ EnterFull(r, P)
  BY DEF Enter
<1>2. CASE EnterReuse(r, P)
  <2> DEFINE k == req[r].key
  <2>1. PICK b \in BOOLEAN : row' = [row EXCEPT ![k].live = @ \/ b]
    <3>1. PICK renewed : row' = [row EXCEPT ![k].live = @ \/ (renewed /\ Holds(Me, ses[reg[k]].handle))]
      BY <1>2, Zenon DEF EnterReuse
    <3>2. (renewed /\ Holds(Me, ses[reg[k]].handle)) \in BOOLEAN
      BY DEF Holds
    <3> QED BY <3>1, <3>2, Zenon
  <2> HIDE DEF k
  <2>2. CASE k \notin Keys
    <3>1. row' = row
      BY <2>1, <2>2 DEF RowOK
    <3> QED BY <3>1, RowUntouched
  <2>3. CASE k \in Keys
    <3>1. PICK x \in RowSet : x = row[k]
      BY <2>3 DEF RowOK
    <3>2. LET y == [x EXCEPT !.live = @ \/ b] IN
          y \in RowSet /\ y.owner = x.owner /\ y.gen = x.gen /\ y.epoch = x.epoch
      BY DEF RowSet
    <3>3. row' = [row EXCEPT ![k] = [x EXCEPT !.live = @ \/ b]]
      BY <2>1, <3>1
    <3> QED BY <3>1, <3>2, <3>3, RowLifeOne
  <2> QED BY <2>2, <2>3
<1>3. CASE ~EnterReuse(r, P)
  <2>1. row' = row
    BY <1>1, <1>3 DEF EnterRefused, EnterJoin, EnterAliasMiss, EnterPublish, EnterFull
  <2> QED BY <2>1, RowUntouched
<1> QED BY <1>2, <1>3

LEMMA CreationRow ==
  ASSUME RowOK, NEW r \in Requests, Claim(r) \/ ClaimCancelled(r), Leaving' = Leaving
  PROVE  RowOK' /\ LeaseStep
<1>1. \/ row' = [row EXCEPT ![req[r].key] = Claimed(req[r].key, Me, TRUE)]
      \/ row' = [row EXCEPT ![req[r].key] = Claimed(req[r].key, Me, req[r].force)]
  BY DEF Claim, ClaimCancelled
<1>2. \A k : Claimed(k, Me, req[r].force) = Claimed(k, Me, req[r].force = TRUE)
  BY DEF Claimed, NextEpoch
<1> QED BY <1>1, <1>2, RowClaimed

(* What only begins clean-ups.                                             *)
LEMMA DetachBegins ==
  ASSUME NEW K, NEW keep, NEW drop, Detach(K, keep, drop), leaving' = leaving
  PROVE  Begun
<1>1. PICK S : tasks' = tasks \cup {Start(s, None, "close") : s \in S}
  BY DEF Detach
<1>2. \A t \in {Start(s, None, "close") : s \in S} : t.write = None
  BY StartWrites
<1> QED BY <1>1, <1>2, StartBegun

LEMMA RetireBegins ==
  ASSUME NEW s, NEW x, NEW by, RetireIfReady(s, x, by), leaving' = leaving
  PROVE  Begun
<1>1. tasks' = tasks \cup {Start(s, by, "close")} \/ tasks' = tasks
  BY DEF RetireIfReady
<1>2. \A t \in {Start(s, by, "close")} : t.write = None
  BY StartWrites
<1> QED BY <1>1, <1>2, StartBegun, TasksKept

LEMMA EnterBegins ==
  ASSUME NEW r \in Requests, Enter(r)
  PROVE  Begun
<1>1. PICK P \in Sweeps :
        \/ EnterReuse(r, P) \/ EnterRefused(r, P) \/ EnterJoin(r, P)
        \/ EnterAliasMiss(r, P) \/ EnterPublish(r, P) \/ EnterFull(r, P)
  BY DEF Enter
<1>2. CASE EnterReuse(r, P)
  <2>1. PICK S : tasks' = tasks \cup {Start(x, None, "close") : x \in S}
    BY <1>2 DEF EnterReuse
  <2>2. \A t \in {Start(x, None, "close") : x \in S} : t.write = None
    BY StartWrites
  <2>3. leaving' = leaving
    BY <1>2 DEF EnterReuse
  <2> QED BY <2>1, <2>2, <2>3, StartBegun
<1>3. CASE ~EnterReuse(r, P)
  <2>1. leaving' = leaving
    BY <1>1, <1>3 DEF EnterRefused, EnterJoin, EnterAliasMiss, EnterPublish, EnterFull
  <2>2. \E K, keep, drop : Detach(K, keep, drop)
    BY <1>1, <1>3 DEF EnterRefused, EnterJoin, EnterAliasMiss, EnterPublish, EnterFull
  <2> QED BY <2>1, <2>2, DetachBegins
<1> QED BY <1>2, <1>3

LEMMA CreationBegins ==
  ASSUME NEW r \in Requests,
         CreateFails(r) \/ Claim(r) \/ ClaimCancelled(r) \/ ClaimFails(r) \/ Register(r) \/ RegisterFails(r)
  PROVE  Begun
<1>1. leaving' = leaving
  BY DEF CreateFails, Claim, ClaimCancelled, ClaimFails, Register, RegisterFails
<1>2. tasks' = tasks \cup {Start(r, r, "close")} \/ tasks' = tasks
  BY DEF CreateFails, Claim, ClaimCancelled, ClaimFails, Register, RegisterFails, CreationFails
<1>3. \A t \in {Start(r, r, "close")} : t.write = None
  BY StartWrites
<1> QED BY <1>1, <1>2, <1>3, StartBegun, TasksKept

LEMMA RequestBegins ==
  ASSUME NEW r \in Requests, Arrive(r) \/ RequestStep(r)
  PROVE  Begun
<1>1. CASE Arrive(r) \/ WakeAgain(r) \/ WakeFailed(r) \/ WaitTimeout(r) \/ SubmitClosed(r) \/ Reconnect(r)
           \/ Enqueue(r) \/ GateFails(r) \/ Resend(r) \/ AbandonedAfterSubmit(r) \/ Cancelled(r)
  BY <1>1, TasksKept DEF Arrive, WakeAgain, WakeFailed, WaitTimeout, SubmitClosed, Reconnect, Enqueue,
                         GateFails, Resend, AbandonedAfterSubmit, Cancelled
<1>2. CASE JoinSession(r)
  <2>1. leaving' = leaving /\ (tasks' = tasks \/ \E K, keep, drop : Detach(K, keep, drop))
    BY <1>2 DEF JoinSession
  <2> QED BY <2>1, TasksKept, DetachBegins
<1>3. CASE Queue(r) \/ ClientLeaves(r)
  <2>1. leaving' = leaving /\ (tasks' = tasks \/ \E s, x, by : RetireIfReady(s, x, by))
    BY <1>3 DEF Queue, ClientLeaves
  <2> QED BY <2>1, TasksKept, RetireBegins
<1>4. CASE FirstEventTimeout(r)
  <2>1. PICK s, T : /\ T \in {{}, {Start(s, r, "close")}} /\ leaving' = leaving
                   /\ tasks' = tasks \cup ({Start(s, r, "retire")} \cup T)
    <3>1. leaving' = leaving /\ \E s, T : /\ T \in {{}, {Start(s, r, "close")}}
                   /\ tasks' = tasks \cup {Start(s, r, "retire")} \cup T
      BY <1>4 DEF FirstEventTimeout
    <3> QED BY <3>1
  <2>2. \A t \in {Start(s, r, "retire")} \cup T : t.write = None
    BY <2>1, StartWrites
  <2> QED BY <2>1, <2>2, StartBegun
<1> QED BY <1>1, <1>2, <1>3, <1>4, EnterBegins, CreationBegins DEF RequestStep

LEMMA SessionBegins ==
  ASSUME NEW s \in Requests, UpstreamLost(s) \/ \E r \in Requests : Terminal(s, r)
  PROVE  Begun
<1>1. CASE UpstreamLost(s)
  <2>1. PICK T : /\ T = {Start(s, None, "retire")}
                 /\ tasks' = tasks \cup T /\ leaving' = leaving
    BY <1>1 DEF UpstreamLost
  <2>2. \A t \in T : t.write = None
    BY <2>1, StartWrites
  <2> QED BY <2>1, <2>2, StartBegun
<1>2. CASE \E r \in Requests : Terminal(s, r)
  BY <1>2, RetireBegins DEF Terminal
<1> QED BY <1>1, <1>2

LEMMA ShutdownBegins ==
  ASSUME Shutdown
  PROVE  Begun
<1>1. CASE MarkDraining
  BY <1>1, TasksKept DEF MarkDraining
<1>2. CASE CloseAll
  <2>1. tasks' = tasks \cup {Start(reg[k], None, "close") : k \in Registered} /\ leaving' = leaving
    BY <1>2 DEF CloseAll
  <2>2. \A t \in {Start(reg[k], None, "close") : k \in Registered} : t.write = None
    BY StartWrites
  <2> QED BY <2>1, <2>2, StartBegun
<1> QED BY <1>1, <1>2 DEF Shutdown

(* One clean-up goes on: what it had to write is gone, or it has something *)
(* to write now.                                                           *)
LEMMA TaskLeaves ==
  ASSUME NEW t \in tasks, t.write # None, NEW T, \A u \in T : u.write = None,
         tasks' = (tasks \ {t}) \cup T, leaving' = leaving
  PROVE  Leaving' \in {Leaving, Leaving \ {ReleaseBy(Me, t.write.handle)}}
<1> DEFINE W == {u \in tasks : u.write # None}
           V == {u \in tasks' : u.write # None}
<1>1. V = W \ {t}
  OBVIOUS
<1>2. Leaving = {ReleaseBy(Rival, h) : h \in leaving} \cup {ReleaseBy(Me, u.write.handle) : u \in W}
  BY DEF Leaving
<1>3. Leaving' = {ReleaseBy(Rival, h) : h \in leaving} \cup {ReleaseBy(Me, u.write.handle) : u \in V}
  BY DEF Leaving, ReleaseBy
<1> HIDE DEF W, V
<1>4. t \in W
  BY DEF W
<1>5. Leaving = Leaving' \cup {ReleaseBy(Me, t.write.handle)}
  BY <1>1, <1>2, <1>3, <1>4
<1> QED BY <1>5

LEMMA TaskGone ==
  ASSUME NEW t \in tasks, t.write = None, tasks' = tasks \ {t}, leaving' = leaving
  PROVE  Leaving' = Leaving
<1>1. {v \in tasks' : v.write # None} = {v \in tasks : v.write # None}
  OBVIOUS
<1> QED BY <1>1 DEF Leaving, ReleaseBy

LEMMA TaskIdle ==
  ASSUME NEW t \in tasks, t.write = None, NEW u, u.write = None,
         tasks' = (tasks \ {t}) \cup {u}, leaving' = leaving
  PROVE  Leaving' = Leaving
<1>1. {v \in tasks' : v.write # None} = {v \in tasks : v.write # None}
  OBVIOUS
<1> QED BY <1>1 DEF Leaving, ReleaseBy

LEMMA TaskLooks ==
  ASSUME NEW t \in tasks, t.write = None, NEW u, u.write # None,
         tasks' = (tasks \ {t}) \cup {u}, leaving' = leaving
  PROVE  Leaving' = Leaving \cup {ReleaseBy(Me, u.write.handle)}
<1> DEFINE W == {v \in tasks : v.write # None}
           V == {v \in tasks' : v.write # None}
<1>1. V = W \cup {u}
  OBVIOUS
<1>2. Leaving = {ReleaseBy(Rival, h) : h \in leaving} \cup {ReleaseBy(Me, v.write.handle) : v \in W}
  BY DEF Leaving
<1>3. Leaving' = {ReleaseBy(Rival, h) : h \in leaving} \cup {ReleaseBy(Me, v.write.handle) : v \in V}
  BY DEF Leaving, ReleaseBy
<1> HIDE DEF W, V
<1> QED BY <1>1, <1>2, <1>3

LEMMA HandleTyped ==
  ASSUME NEW k \in Keys, NEW x \in RowSet
  PROVE  Handle(k, x) \in HandleSet /\ Handle(k, x).key = k /\ Handle(k, x).token = <<x.gen, x.epoch>>
BY DEF Handle, HandleSet, RowSet

LEMMA OwnedHandle ==
  ASSUME TypeInv, NEW s \in Requests, Owned(s)
  PROVE  /\ ses[s].handle \in HandleSet
         /\ row[ses[s].handle.key].owner = Me
         /\ ses[s].handle.token = Token(ses[s].handle.key)
<1>1. PICK h : h = ses[s].handle
  OBVIOUS
<1>2. h \in HandleSet
  BY <1>1 DEF Owned, Holds, TypeInv, SessionsOK, SessionSet
<1>3. row[h.key].owner = Me /\ row[h.key].gen = h.token[1] /\ row[h.key].epoch = h.token[2]
  BY <1>1 DEF Owned, Holds, Found
<1>4. h.token = <<h.token[1], h.token[2]>>
  BY <1>2 DEF HandleSet
<1> QED BY <1>1, <1>2, <1>3, <1>4 DEF Token

LEMMA ToWriteSomething ==
  ASSUME TypeInv, NEW s \in Requests, Owned(s)
  PROVE  ToWrite(s) \in WriteSet /\ ToWrite(s).handle = ses[s].handle
BY OwnedHandle DEF ToWrite, WriteSet

(* A clean-up looks at the row of its session.                             *)
LEMMA LookRowStep ==
  ASSUME TypeInv, NEW t \in tasks, t.write = None, Owned(t.ses), NEW u \in TaskSet, u.write = ToWrite(t.ses),
         tasks' = (tasks \ {t}) \cup {u}, leaving' = leaving, row' = row
  PROVE  RowOK' /\ LeaseStep
<1>1. RowOK /\ t.ses \in Requests
  BY DEF TypeInv, SessionsOK, TaskSet
<1>2. CASE u.write = None
  <2>1. Leaving' = Leaving
    BY <1>2, TaskIdle
  <2> QED BY <1>1, <2>1, RowUntouched
<1>3. CASE u.write # None
  <2>1. Leaving' = Leaving \cup {ReleaseBy(Me, u.write.handle)}
    BY <1>3, TaskLooks
  <2>2. u.write.handle = ses[t.ses].handle
    BY <1>1, ToWriteSomething
  <2>3. /\ ses[t.ses].handle \in HandleSet
        /\ row[ses[t.ses].handle.key].owner = Me
        /\ ses[t.ses].handle.token = Token(ses[t.ses].handle.key)
    BY <1>1, OwnedHandle
  <2> QED BY <1>1, <2>1, <2>2, <2>3, RowLooked
<1> QED BY <1>2, <1>3

LEMMA TaskSteps ==
  ASSUME NEW t \in TaskSet
  PROVE  /\ [t EXCEPT !.at = "end"] \in TaskSet /\ [t EXCEPT !.at = "end"].write = t.write
         /\ [t EXCEPT !.write = None] \in TaskSet /\ [t EXCEPT !.write = None].write = None
         /\ \A w \in WriteSet \cup {None} :
              /\ [t EXCEPT !.write = w] \in TaskSet /\ [t EXCEPT !.write = w].write = w
              /\ [t EXCEPT !.at = "end", !.write = w] \in TaskSet
              /\ [t EXCEPT !.at = "end", !.write = w].write = w
BY DEF TaskSet

LEMMA WriteRowStep ==
  ASSUME TypeInv, NEW t \in tasks, t.write # None, WriteRow(t.write) \/ WriteFails(t.write),
         NEW T, \A u \in T : u.write = None, tasks' = (tasks \ {t}) \cup T, leaving' = leaving
  PROVE  RowOK' /\ LeaseStep
<1>1. PICK w \in WriteSet : w = t.write
  BY DEF TypeInv, SessionsOK, TaskSet
<1>2. w.state \in RowStates /\ \E k \in Keys : w.handle.key = k
  BY <1>1 DEF WriteSet, RowStates, HandleSet
<1>3. ReleaseBy(Me, w.handle) \in Leaving
  BY <1>1 DEF Leaving
<1>4. Leaving' \in {Leaving, Leaving \ {ReleaseBy(Me, w.handle)}}
  BY <1>1, TaskLeaves
<1>5. RowOK
  BY DEF TypeInv
<1>6. CASE WriteRow(w)
  BY <1>2, <1>3, <1>4, <1>5, <1>6, RowYielded DEF WriteRow
<1>7. CASE WriteFails(w)
  BY <1>3, <1>4, <1>5, <1>7, RowForgone DEF WriteFails
<1> QED BY <1>1, <1>6, <1>7

LEMMA CleanupRow ==
  ASSUME TypeInv, NEW s \in Requests, Cleanup(s)
  PROVE  RowOK' /\ LeaseStep
<1>1. PICK t \in tasks : \/ CloseReleases(t) \/ CloseWrites(t) \/ CloseEnds(t)
                         \/ RetireUnregisters(t) \/ RetireReleases(t) \/ RetireWrites(t)
  BY DEF Cleanup
<1>2. RowOK /\ t \in TaskSet /\ t.ses \in Requests
  BY DEF TypeInv, SessionsOK, TaskSet
<1>3. leaving' = leaving
  BY <1>1 DEF CloseReleases, CloseWrites, CloseEnds, RetireUnregisters, RetireReleases, RetireWrites
<1>4. CASE CloseReleases(t)
  <2>1. t.write = None /\ row' = row
    BY <1>4 DEF CloseReleases
  <2>2. CASE Owned(t.ses) /\ tasks' = (tasks \ {t}) \cup {[t EXCEPT !.at = "end", !.write = ToWrite(t.ses)]}
    <3>1. ToWrite(t.ses) \in WriteSet
      BY <1>2, <2>2, ToWriteSomething
    <3>2. PICK u \in TaskSet : u = [t EXCEPT !.at = "end", !.write = ToWrite(t.ses)] /\ u.write = ToWrite(t.ses)
      <4>1. PICK w \in WriteSet \cup {None} : w = ToWrite(t.ses)
        BY <3>1
      <4>2. [t EXCEPT !.at = "end", !.write = w] \in TaskSet /\ [t EXCEPT !.at = "end", !.write = w].write = w
        BY <1>2, TaskSteps
      <4> QED BY <4>1, <4>2
    <3> QED BY <1>3, <2>1, <2>2, <3>2, LookRowStep
  <2>3. CASE tasks' = (tasks \ {t}) \cup {[t EXCEPT !.at = "end", !.write = None]}
             \/ tasks' = (tasks \ {t}) \cup {[t EXCEPT !.at = "end"]}
    <3>1. PICK u : tasks' = (tasks \ {t}) \cup {u} /\ u.write = None
      BY <1>2, <2>1, <2>3, TaskSteps
    <3>2. Leaving' = Leaving
      BY <1>3, <2>1, <3>1, TaskIdle
    <3> QED BY <1>2, <2>1, <3>2, RowUntouched
  <2> QED BY <1>4, <2>2, <2>3 DEF CloseReleases
<1>5. CASE CloseWrites(t)
  <2>1. [t EXCEPT !.write = None].write = None
    BY <1>2, TaskSteps
  <2> QED BY <1>3, <1>5, <2>1, WriteRowStep DEF CloseWrites
<1>6. CASE RetireWrites(t)
  <2>1. tasks' = (tasks \ {t}) \cup {} /\ t.write # None /\ (WriteRow(t.write) \/ WriteFails(t.write))
    BY <1>6 DEF RetireWrites
  <2>2. PICK T : T = {}
    OBVIOUS
  <2>3. (\A u \in T : u.write = None) /\ tasks' = (tasks \ {t}) \cup T
    BY <2>1, <2>2
  <2> QED BY <1>3, <2>1, <2>3, WriteRowStep
<1>7. CASE CloseEnds(t)
  <2>1. tasks' = tasks \ {t} /\ t.write = None /\ row' = row
    BY <1>7 DEF CloseEnds
  <2>2. Leaving' = Leaving
    BY <1>3, <2>1, TaskGone
  <2> QED BY <1>2, <2>1, <2>2, RowUntouched
<1>8. CASE RetireUnregisters(t)
  <2>1. tasks' = (tasks \ {t}) \cup {[t EXCEPT !.at = "end"]} /\ row' = row
    BY <1>8 DEF RetireUnregisters
  <2>2. PICK u : u = [t EXCEPT !.at = "end"] /\ u.write = t.write
    BY <1>2, TaskSteps
  <2>3. Leaving' = Leaving
    <3>1. tasks' = (tasks \ {t}) \cup {u}
      BY <2>1, <2>2
    <3>2. {ReleaseBy(Me, v.write.handle) : v \in {x \in tasks' : x.write # None}}
            = {ReleaseBy(Me, v.write.handle) : v \in {x \in tasks : x.write # None}}
      BY <2>2, <3>1
    <3> QED BY <1>3, <3>2 DEF Leaving, ReleaseBy
  <2> QED BY <1>2, <2>1, <2>3, RowUntouched
<1>9. CASE RetireReleases(t)
  <2>1. t.write = None /\ row' = row
    BY <1>9 DEF RetireReleases
  <2>2. CASE Owned(t.ses) /\ tasks' = (tasks \ {t}) \cup {[t EXCEPT !.write = ToWrite(t.ses)]}
    <3>1. ToWrite(t.ses) \in WriteSet
      BY <1>2, <2>2, ToWriteSomething
    <3>2. PICK u \in TaskSet : u = [t EXCEPT !.write = ToWrite(t.ses)] /\ u.write = ToWrite(t.ses)
      <4>1. PICK w \in WriteSet \cup {None} : w = ToWrite(t.ses)
        BY <3>1
      <4>2. [t EXCEPT !.write = w] \in TaskSet /\ [t EXCEPT !.write = w].write = w
        BY <1>2, TaskSteps
      <4> QED BY <4>1, <4>2
    <3> QED BY <1>3, <2>1, <2>2, <3>2, LookRowStep
  <2>3. CASE tasks' = tasks \ {t}
    <3>1. Leaving' = Leaving
      BY <1>3, <2>1, <2>3, TaskGone
    <3> QED BY <1>2, <2>1, <3>1, RowUntouched
  <2> QED BY <1>9, <2>2, <2>3 DEF RetireReleases
<1> QED BY <1>1, <1>4, <1>5, <1>6, <1>7, <1>8, <1>9

LEMMA ShutdownRow ==
  ASSUME RowOK, Shutdown, Leaving' = Leaving
  PROVE  RowOK' /\ LeaseStep
<1>1. CASE CloseAll
  BY <1>1, RowUntouched DEF CloseAll
<1>2. CASE MarkDraining
  <2>1. ASSUME NEW k \in Keys
        PROVE  /\ row'[k] \in RowSet
               /\ row'[k].owner = row[k].owner /\ row'[k].gen = row[k].gen /\ row'[k].epoch = row[k].epoch
    <3>1. PICK x \in RowSet : x = row[k]
      BY DEF RowOK
    <3>2. row'[k] = x \/ row'[k] = [x EXCEPT !.state = "draining"]
      BY <1>2, <3>1 DEF MarkDraining
    <3>3. LET y == [x EXCEPT !.state = "draining"] IN
          y \in RowSet /\ y.owner = x.owner /\ y.gen = x.gen /\ y.epoch = x.epoch
      BY DEF RowSet, RowStates
    <3> QED BY <3>1, <3>2, <3>3
  <2>2. row' \in [Keys -> RowSet]
    BY <1>2, <2>1 DEF MarkDraining
  <2> QED BY <2>1, <2>2, RowRefreshed
<1> QED BY <1>1, <1>2 DEF Shutdown

LEMMA ElsewhereRow ==
  ASSUME TypeInv, NEW k \in Keys, Elsewhere(k)
  PROVE  RowOK' /\ LeaseStep
<1> RowOK
  BY DEF TypeInv
<1>1. CASE RivalClaims(k)
  <2>1. Leaving' = Leaving
    BY <1>1, TasksKept, BegunLeaves DEF RivalClaims, OnlyRow, OnlyTable
  <2> QED BY <1>1, <2>1, RowClaimed DEF RivalClaims
<1>4. CASE RivalLooks(k)
  <2>1. PICK h \in HandleSet : h = Handle(k, row[k]) /\ h.key = k /\ h.token = Token(k)
    BY HandleTyped DEF Token, RowOK
  <2>2. leaving' = leaving \cup {h} /\ row' = row /\ tasks' = tasks /\ row[k].owner = Rival
    BY <1>4, <2>1 DEF RivalLooks, OnlyTable
  <2>3. Leaving' = Leaving \cup {ReleaseBy(Rival, h)}
    BY <2>2 DEF Leaving, ReleaseBy
  <2> QED BY <2>1, <2>2, <2>3, RowLooked
<1>2. CASE RivalReleases(k)
  <2>1. PICK h \in leaving, state \in {"closed", "draining"} :
          /\ h.key = k /\ leaving' = leaving \ {h}
          /\ row' = IF Found(h) THEN [row EXCEPT ![k] = Released(k, state)] ELSE row
    BY <1>2 DEF RivalReleases
  <2>2. h \in HandleSet /\ state \in RowStates
    BY DEF TypeInv, LeavingOK, RowStates
  <2>3. ReleaseBy(Rival, h) \in Leaving
    BY DEF Leaving
  <2>4. Leaving' \in {Leaving, Leaving \ {ReleaseBy(Rival, h)}}
    <3>1. tasks' = tasks
      BY <1>2 DEF RivalReleases, OnlyTable
    <3>2. Leaving = Leaving' \cup {ReleaseBy(Rival, h)}
      BY <2>1, <3>1 DEF Leaving, ReleaseBy
    <3> QED BY <3>2
  <2>5. CASE Found(h)
    BY <2>1, <2>2, <2>3, <2>4, <2>5, RowYielded
  <2>6. CASE ~Found(h)
    BY <2>1, <2>3, <2>4, <2>6, RowForgone
  <2> QED BY <2>5, <2>6
<1>3. CASE RivalDrains(k) \/ LeaseExpires(k) \/ Purge(k)
  <2>1. PICK x \in RowSet : x = row[k]
    BY DEF RowOK
  <2>2. PICK t \in RowStates, l \in BOOLEAN : row' = [row EXCEPT ![k] = [x EXCEPT !.state = t, !.live = l]]
    <3>1. x.state \in RowStates /\ x.live \in BOOLEAN
      BY DEF RowSet
    <3>2. row' = [row EXCEPT ![k] = [x EXCEPT !.state = "draining"]]
          \/ row' = [row EXCEPT ![k] = [x EXCEPT !.live = FALSE]]
          \/ row' = [row EXCEPT ![k] = [x EXCEPT !.state = "absent"]]
      BY <1>3, <2>1 DEF RivalDrains, LeaseExpires, Purge
    <3>3. /\ [x EXCEPT !.state = "draining"] = [x EXCEPT !.state = "draining", !.live = x.live]
          /\ [x EXCEPT !.live = FALSE] = [x EXCEPT !.state = x.state, !.live = FALSE]
          /\ [x EXCEPT !.state = "absent"] = [x EXCEPT !.state = "absent", !.live = x.live]
      BY DEF RowSet
    <3> QED BY <3>1, <3>2, <3>3 DEF RowStates
  <2>3. LET y == [x EXCEPT !.state = t, !.live = l] IN
        y \in RowSet /\ y.owner = x.owner /\ y.gen = x.gen /\ y.epoch = x.epoch
    BY DEF RowSet
  <2>4. Leaving' = Leaving
    BY <1>3, TasksKept, BegunLeaves DEF RivalDrains, LeaseExpires, Purge, OnlyRow, OnlyTable
  <2> QED BY <2>1, <2>2, <2>3, <2>4, RowLifeOne
<1> QED BY <1>1, <1>2, <1>3, <1>4 DEF Elsewhere

-------------------------------------------------------------------------------
(* Every step of the bridge, of its clean-ups, of the shutdown and of the  *)
(* other instances is a step of the promise or leaves it alone.            *)
LEMMA StepRow ==
  ASSUME TypeInv, [Next]_vars
  PROVE  RowOK' /\ LeaseStep
<1> RowOK
  BY DEF TypeInv
<1>1. CASE UNCHANGED vars
  BY <1>1, RowUntouched, TasksKept, BegunLeaves DEF vars
<1>2. ASSUME NEW r \in Requests, Arrive(r) \/ RequestStep(r)
      PROVE  RowOK' /\ LeaseStep
  <2>1. Leaving' = Leaving
    BY <1>2, RequestBegins, BegunLeaves
  <2>2. CASE Enter(r)
    BY <2>1, <2>2, EnterRow
  <2>3. CASE Claim(r) \/ ClaimCancelled(r)
    BY <2>1, <2>3, CreationRow
  <2>4. CASE Arrive(r) \/ JoinSession(r) \/ WakeAgain(r) \/ WakeFailed(r) \/ WaitTimeout(r)
             \/ CreateFails(r) \/ ClaimFails(r) \/ Register(r) \/ RegisterFails(r)
    <3>1. row' = row
      BY <2>4 DEF Arrive, JoinSession, WakeAgain, WakeFailed, WaitTimeout, CreateFails, ClaimFails,
                  Register, RegisterFails
    <3> QED BY <2>1, <3>1, RowUntouched
  <2>5. CASE SubmitClosed(r) \/ Reconnect(r) \/ Queue(r) \/ Enqueue(r) \/ GateFails(r) \/ Resend(r)
             \/ ClientLeaves(r) \/ FirstEventTimeout(r) \/ AbandonedAfterSubmit(r) \/ Cancelled(r)
    <3>1. row' = row
      BY <2>5 DEF SubmitClosed, Reconnect, Queue, Enqueue, GateFails, Resend, ClientLeaves,
                  FirstEventTimeout, AbandonedAfterSubmit, Cancelled
    <3> QED BY <2>1, <3>1, RowUntouched
  <2> QED BY <1>2, <2>2, <2>3, <2>4, <2>5 DEF RequestStep
<1>3. ASSUME NEW s \in Requests, UpstreamLost(s) \/ \E r \in Requests : Terminal(s, r)
      PROVE  RowOK' /\ LeaseStep
  <2>1. row' = row
    BY <1>3 DEF UpstreamLost, Terminal
  <2>2. Leaving' = Leaving
    BY <1>3, SessionBegins, BegunLeaves
  <2> QED BY <2>1, <2>2, RowUntouched
<1>4. CASE Shutdown
  BY <1>4, ShutdownBegins, BegunLeaves, ShutdownRow
<1> QED BY <1>1, <1>2, <1>3, <1>4, CleanupRow, ElsewhereRow DEF Next

-------------------------------------------------------------------------------
(* Types: the steps.                                                       *)

LEMMA NoneIsNoRequest == None \notin Requests
BY BridgeAssumption

LEMMA NoLocalsTyped == NoLocals \in LocalSet /\ Blank \in SessionSet
BY DEF NoLocals, Blank, LocalSet, SessionSet, Looks

(* One request moves on with new locals.                                   *)
LEMMA Moved ==
  ASSUME RequestsOK, NEW r \in Requests, NEW where \in Places, NEW x \in LocalSet,
         pc' = [pc EXCEPT ![r] = where], req' = [req EXCEPT ![r] = x],
         where \in Early => x.key \in Keys,
         where \in Waiting => x.wait \in Requests,
         where \in Using => x.ses \in Requests
  PROVE  RequestsOK'
<1>1. pc' \in [Requests -> Places] /\ req' \in [Requests -> LocalSet]
  BY DEF RequestsOK
<1>2. Keyed'
  BY DEF RequestsOK, Keyed
<1> QED BY <1>1, <1>2 DEF RequestsOK

LEMMA EndsTyped ==
  ASSUME RequestsOK, NEW r \in Requests, Ends(r)
  PROVE  RequestsOK'
<1>1. "done" \in Places /\ "done" \notin Early /\ "done" \notin Waiting /\ "done" \notin Using
  BY DEF Places, Final, Early, Waiting, Creating, Using
<1> QED BY <1>1, NoLocalsTyped, Moved DEF Ends

LEMMA GoOnTyped ==
  ASSUME RequestsOK, NEW r \in Requests, pc[r] \in Using, NEW where \in Using, GoOn(r, where)
  PROVE  RequestsOK'
<1>1. where \in Places /\ where \notin Early /\ where \notin Waiting
  BY DEF Places, Early, Waiting, Creating, Using
<1>2. req[r] \in LocalSet /\ req[r].ses \in Requests
  BY DEF RequestsOK, Keyed
<1>3. req' = [req EXCEPT ![r] = req[r]]
  BY DEF GoOn, RequestsOK
<1> QED BY <1>1, <1>2, <1>3, Moved DEF GoOn

LEMMA EndAllTyped ==
  ASSUME RequestsOK, NEW R, EndAll(R)
  PROVE  RequestsOK'
<1>1. "done" \in Places /\ "done" \notin Early /\ "done" \notin Waiting /\ "done" \notin Using
  BY DEF Places, Final, Early, Waiting, Creating, Using
<1>2. pc' \in [Requests -> Places] /\ req' \in [Requests -> LocalSet]
  BY <1>1, NoLocalsTyped DEF RequestsOK, EndAll
<1>3. Keyed'
  BY <1>1 DEF RequestsOK, EndAll, Keyed
<1> QED BY <1>2, <1>3 DEF RequestsOK

LEMMA SettleTyped ==
  ASSUME TablesOK, NEW f, NEW how \in Outcomes, Settle(f, how), reg' = reg
  PROVE  TablesOK'
BY DEF TablesOK, Settle

LEMMA MishapTyped ==
  ASSUME RestOK, drain' = drain, Mishap \/ faults' = faults
  PROVE  RestOK'
BY DEF RestOK, Mishap

(* A clean-up of a session is added.                                       *)
LEMMA StartTyped ==
  ASSUME NEW s \in Requests, NEW by \in Requests \cup {None}, NEW kind \in {"close", "retire"}
  PROVE  Start(s, by, kind) \in TaskSet
BY DEF Start, TaskSet

LEMMA DetachTyped ==
  ASSUME TablesOK, SessionsOK, NEW K \in SUBSET Keys, NEW keep, NEW drop, Detach(K, keep, drop)
  PROVE  reg' \in [Keys -> Requests \cup {None}] /\ SessionsOK'
<1> DEFINE shut == {reg[k] : k \in K \ keep} \ {None}
           lost == {reg[k] : k \in drop}
           kept == {reg[k] : k \in keep}
<1>1. reg' \in [Keys -> Requests \cup {None}]
  BY DEF Detach, TablesOK
<1>2. ASSUME NEW s \in Requests
      PROVE  ses'[s] \in SessionSet
  <2>1. PICK x \in SessionSet : x = ses[s]
    BY DEF SessionsOK
  <2>2. \/ ses'[s] = [x EXCEPT !.closed = TRUE, !.stray = @ \/ s \in lost]
        \/ ses'[s] = [x EXCEPT !.retire = TRUE]
        \/ ses'[s] = x
    BY <2>1 DEF Detach
  <2>3. /\ [x EXCEPT !.closed = TRUE, !.stray = @ \/ s \in lost] \in SessionSet
        /\ [x EXCEPT !.retire = TRUE] \in SessionSet
    BY DEF SessionSet
  <2> QED BY <2>2, <2>3
<1>3. DOMAIN ses' = Requests /\ ses' \in [Requests -> SessionSet]
  <2>1. ses' = [s \in Requests |-> ses'[s]]
    BY DEF Detach
  <2> QED BY <1>2, <2>1
<1>4. shut \subseteq Requests
  BY DEF TablesOK
<1>5. tasks' \subseteq TaskSet
  BY <1>4, StartTyped DEF Detach, SessionsOK
<1> QED BY <1>1, <1>3, <1>5 DEF SessionsOK

(* A session is changed.                                                   *)
LEMMA SessionEdited ==
  ASSUME SessionsOK, NEW s, NEW y, s \in Requests => y \in SessionSet,
         ses' = [ses EXCEPT ![s] = y], tasks' \subseteq TaskSet
  PROVE  SessionsOK'
BY DEF SessionsOK

LEMMA RetireTyped ==
  ASSUME SessionsOK, NEW s \in Requests, NEW x \in SessionSet, NEW by \in Requests \cup {None},
         RetireIfReady(s, x, by)
  PROVE  SessionsOK'
<1>1. [x EXCEPT !.hidden = {}] \in SessionSet
  BY DEF SessionSet
<1>2. tasks' \subseteq TaskSet
  BY StartTyped DEF RetireIfReady, SessionsOK
<1> QED BY <1>1, <1>2, SessionEdited DEF RetireIfReady

LEMMA LessTyped == \A n \in Nat : Less(n) \in Nat
BY DEF Less

-------------------------------------------------------------------------------
LEMMA SweepsTyped ==
  ASSUME TypeInv, NEW P \in Sweeps
  PROVE  P \subseteq Registered /\ Registered \subseteq Keys
BY DEF Sweeps, Registered, Idle

LEMMA EnterTyped ==
  ASSUME TypeInv, NEW r \in Requests, Enter(r)
  PROVE  RequestsOK' /\ TablesOK' /\ SessionsOK' /\ RestOK'
<1>1. PICK P \in Sweeps :
        \/ EnterReuse(r, P) \/ EnterRefused(r, P) \/ EnterJoin(r, P)
        \/ EnterAliasMiss(r, P) \/ EnterPublish(r, P) \/ EnterFull(r, P)
  BY DEF Enter
<1>2. P \subseteq Keys
  BY SweepsTyped
<1> DEFINE k == req[r].key
<1>3. k \in Keys /\ pc[r] = "enter"
  BY DEF Enter, TypeInv, RequestsOK, Keyed, Early
<1>4. PICK l \in LocalSet : l = req[r]
  BY DEF TypeInv, RequestsOK
<1>5. \A E \in Evictions(P \cup {k}) : E \subseteq Keys
  BY DEF Evictions, Registered
<1>6. /\ "forwarded" \in Places /\ "forwarded" \notin Early \cup Waiting \cup Using
      /\ Waiting \subseteq Places /\ "create" \in Places
      /\ Waiting \cap Using = {} /\ "create" \notin Waiting \cup Using
      /\ "submit" \in Places /\ "submit" \in Using /\ "submit" \notin Early \cup Waiting
  BY DEF Places, Final, Early, Waiting, Creating, Using
<1>7. l.key = k
  BY <1>4
<1> HIDE DEF k
<1>8. ASSUME pc' = [pc EXCEPT ![r] = "forwarded"], req' = [req EXCEPT ![r] = NoLocals]
      PROVE  RequestsOK'
  BY <1>6, <1>8, NoLocalsTyped, Moved DEF TypeInv
<1>9. ASSUME NEW where \in Waiting, NEW f \in Requests,
             pc' = [pc EXCEPT ![r] = where], req' = [req EXCEPT ![r].wait = f]
      PROVE  RequestsOK'
  <2>1. [l EXCEPT !.wait = f] \in LocalSet /\ [l EXCEPT !.wait = f].key = k /\ [l EXCEPT !.wait = f].wait = f
    BY <1>7 DEF LocalSet
  <2>2. req' = [req EXCEPT ![r] = [l EXCEPT !.wait = f]]
    BY <1>4, <1>9
  <2> QED BY <1>3, <1>6, <1>9, <2>1, <2>2, Moved DEF TypeInv
<1>10. ASSUME NEW b \in BOOLEAN, pc' = [pc EXCEPT ![r] = "create"], req' = [req EXCEPT ![r].force = b]
       PROVE  RequestsOK'
  <2>1. [l EXCEPT !.force = b] \in LocalSet /\ [l EXCEPT !.force = b].key = k
    BY <1>7 DEF LocalSet
  <2>2. req' = [req EXCEPT ![r] = [l EXCEPT !.force = b]]
    BY <1>4, <1>10
  <2> QED BY <1>3, <1>6, <1>10, <2>1, <2>2, Moved DEF TypeInv
<1>11. \A owner : ForceAfter(r, owner) \in BOOLEAN
  BY DEF ForceAfter
<1>12. CASE EnterJoin(r, P)
  <2>1. fut[k] \in Requests /\ UNCHANGED <<fut, outcome, drain, faults>>
    BY <1>3, <1>12 DEF EnterJoin, k, TypeInv, TablesOK
  <2>2. \E keep : Detach(P \cup {k}, keep, {})
    BY <1>12 DEF EnterJoin, k
  <2>3. RequestsOK'
    <3>1. \/ pc' = [pc EXCEPT ![r] = "forwarded"] /\ req' = [req EXCEPT ![r] = NoLocals]
          \/ pc' = [pc EXCEPT ![r] = "join"] /\ req' = [req EXCEPT ![r].wait = fut[k]]
      BY <1>12 DEF EnterJoin, k
    <3> QED BY <1>8, <1>9, <2>1, <3>1 DEF Waiting
  <2> QED BY <1>2, <1>3, <2>1, <2>2, <2>3, DetachTyped DEF TypeInv, TablesOK, RestOK
<1>13. CASE EnterAliasMiss(r, P)
  <2>1. UNCHANGED <<fut, outcome, drain, faults>>
    BY <1>13 DEF EnterAliasMiss
  <2>2. \E keep : Detach(P \cup {k}, keep, {})
    BY <1>13 DEF EnterAliasMiss, k
  <2>3. RequestsOK'
    <3>1. \/ pc' = [pc EXCEPT ![r] = "forwarded"] /\ req' = [req EXCEPT ![r] = NoLocals]
          \/ \E owner : pc' = [pc EXCEPT ![r] = "create"] /\ req' = [req EXCEPT ![r].force = ForceAfter(r, owner)]
      BY <1>13 DEF EnterAliasMiss
    <3> QED BY <1>8, <1>10, <1>11, <3>1
  <2> QED BY <1>2, <1>3, <2>1, <2>2, <2>3, DetachTyped DEF TypeInv, TablesOK, RestOK
<1>14. CASE EnterPublish(r, P)
  <2>1. fut' = [fut EXCEPT ![k] = r] /\ outcome' = [outcome EXCEPT ![r] = "pending"] /\ UNCHANGED <<drain, faults>>
    BY <1>14 DEF EnterPublish, k
  <2>2. \E keep : \E E \in Evictions(P \cup {k}) : Detach(P \cup {k} \cup E, keep, {})
    BY <1>14 DEF EnterPublish, k
  <2>3. RequestsOK'
    <3>1. \/ pc' = [pc EXCEPT ![r] = "forwarded"] /\ req' = [req EXCEPT ![r] = NoLocals]
          \/ \E owner : pc' = [pc EXCEPT ![r] = "create"] /\ req' = [req EXCEPT ![r].force = ForceAfter(r, owner)]
      BY <1>14 DEF EnterPublish
    <3> QED BY <1>8, <1>10, <1>11, <3>1
  <2>4. PICK K \in SUBSET Keys : \E keep : Detach(K, keep, {})
    BY <1>2, <1>3, <1>5, <2>2
  <2>5. fut' \in [Keys -> Requests \cup {None}] /\ outcome' \in [Requests -> Outcomes]
    BY <2>1 DEF TypeInv, TablesOK, Outcomes
  <2> QED BY <2>1, <2>3, <2>4, <2>5, DetachTyped DEF TypeInv, TablesOK, RestOK
<1>15. CASE EnterFull(r, P)
  <2>1. UNCHANGED <<fut, outcome, drain, faults>>
    BY <1>15 DEF EnterFull
  <2>2. \E keep, drop : \E E \in Evictions(P \cup {k}) : Detach(P \cup {k} \cup E, keep, drop)
    BY <1>15 DEF EnterFull, k
  <2>3. RequestsOK'
    <3>1. \/ pc' = [pc EXCEPT ![r] = "forwarded"] /\ req' = [req EXCEPT ![r] = NoLocals]
          \/ \E f \in Requests : pc' = [pc EXCEPT ![r] = "capacity"] /\ req' = [req EXCEPT ![r].wait = f]
          \/ Ends(r)
      BY <1>15 DEF EnterFull, TypeInv, TablesOK
    <3> QED BY <1>8, <1>9, <3>1, EndsTyped DEF Waiting, TypeInv
  <2>4. PICK K \in SUBSET Keys : \E keep, drop : Detach(K, keep, drop)
    BY <1>2, <1>3, <1>5, <2>2
  <2> QED BY <2>1, <2>3, <2>4, DetachTyped DEF TypeInv, TablesOK, RestOK
<1>16. CASE EnterRefused(r, P)
  <2>1. PICK K \in SUBSET Keys : \E keep : Detach(K, keep, {})
    BY <1>2, <1>3, <1>16 DEF EnterRefused, k
  <2>2. Ends(r) /\ UNCHANGED <<fut, outcome, drain>> /\ Mishap
    BY <1>16 DEF EnterRefused
  <2> QED BY <2>1, <2>2, DetachTyped, EndsTyped, MishapTyped DEF TypeInv, TablesOK
<1>17. CASE EnterReuse(r, P)
  <2> DEFINE s == reg[k]
             shut == {reg[x] : x \in P}
  <2>1. s \in Requests
    BY <1>3, <1>17 DEF EnterReuse, k, TypeInv, TablesOK
  <2>2. shut \subseteq Requests
    <3>1. \A x \in P : reg[x] \in Requests
      BY <1>1, SweepsTyped DEF TypeInv, TablesOK, Registered
    <3> QED BY <3>1
  <2>3. RequestsOK'
    <3>1. [NoLocals EXCEPT !.ses = s] \in LocalSet /\ [NoLocals EXCEPT !.ses = s].ses = s
      BY <2>1 DEF NoLocals, LocalSet, Looks
    <3>2. pc' = [pc EXCEPT ![r] = "submit"] /\ req' = [req EXCEPT ![r] = [NoLocals EXCEPT !.ses = s]]
      BY <1>17 DEF EnterReuse, k
    <3> QED BY <1>6, <2>1, <3>1, <3>2, Moved DEF TypeInv
  <2>4. TablesOK'
    BY <1>17 DEF EnterReuse, TypeInv, TablesOK
  <2>5. RestOK'
    BY <1>17, MishapTyped DEF EnterReuse, TypeInv
  <2>6. tasks' \subseteq TaskSet
    <3>1. tasks' = tasks \cup {Start(x, None, "close") : x \in shut}
      BY <1>17 DEF EnterReuse
    <3> QED BY <2>2, <3>1, StartTyped DEF TypeInv, SessionsOK
  <2>7. \A x \in Requests : ses'[x] \in SessionSet
    <3> TAKE x \in Requests
    <3>1. PICK y \in SessionSet : y = ses[x]
      BY DEF TypeInv, SessionsOK
    <3>2. \/ ses'[x] = [y EXCEPT !.closed = TRUE]
          \/ ses'[x] = [y EXCEPT !.handle = Handle(k, row[k])]
          \/ ses'[x] = y
      BY <1>17, <3>1 DEF EnterReuse, k
    <3>3. PICK h \in HandleSet : h = Handle(k, row[k])
      BY <1>3, HandleTyped DEF TypeInv, RowOK
    <3>4. [y EXCEPT !.closed = TRUE] \in SessionSet /\ [y EXCEPT !.handle = h] \in SessionSet
      BY DEF SessionSet
    <3> QED BY <3>2, <3>3, <3>4
  <2>8. ses' \in [Requests -> SessionSet]
    <3>1. ses' = [x \in Requests |-> ses'[x]]
      BY <1>17 DEF EnterReuse
    <3> QED BY <2>7, <3>1
  <2> QED BY <2>3, <2>4, <2>5, <2>6, <2>8 DEF SessionsOK
<1> QED BY <1>1, <1>12, <1>13, <1>14, <1>15, <1>16, <1>17

LEMMA WaitTyped ==
  ASSUME TypeInv, NEW r \in Requests,
         JoinSession(r) \/ WakeAgain(r) \/ WakeFailed(r) \/ WaitTimeout(r)
  PROVE  RequestsOK' /\ TablesOK' /\ SessionsOK' /\ RestOK'
<1>1. PICK l \in LocalSet : l = req[r]
  BY DEF TypeInv, RequestsOK
<1>2. pc[r] \in Waiting /\ l.key \in Keys /\ l.wait \in Requests
  BY <1>1 DEF JoinSession, WakeAgain, WakeFailed, WaitTimeout, Waiting, TypeInv, RequestsOK, Keyed, Early
<1>3. /\ "enter" \in Places /\ "enter" \notin Waiting \cup Using
      /\ "submit" \in Places /\ "submit" \in Using /\ "submit" \notin Early \cup Waiting
  BY DEF Places, Early, Waiting, Creating, Using
<1>4. ASSUME Again(r) PROVE RequestsOK'
  <2>1. [l EXCEPT !.wait = None] \in LocalSet /\ [l EXCEPT !.wait = None].key = l.key
    BY DEF LocalSet
  <2>2. req' = [req EXCEPT ![r] = [l EXCEPT !.wait = None]]
    BY <1>1, <1>4 DEF Again
  <2> QED BY <1>2, <1>3, <1>4, <2>1, <2>2, Moved DEF Again, TypeInv
<1>5. CASE WakeAgain(r)
  BY <1>4, <1>5 DEF WakeAgain, TypeInv, TablesOK, SessionsOK, RestOK
<1>6. CASE WakeFailed(r)
  BY <1>6, EndsTyped DEF WakeFailed, TypeInv, TablesOK, SessionsOK, RestOK
<1>7. CASE WaitTimeout(r)
  BY <1>7, EndsTyped, SettleTyped DEF WaitTimeout, TypeInv, SessionsOK, RestOK, Outcomes
<1>8. CASE JoinSession(r)
  <2>1. UNCHANGED <<fut, outcome, drain, faults>>
    BY <1>8 DEF JoinSession
  <2>2. CASE pc' = [pc EXCEPT ![r] = "submit"] /\ UNCHANGED <<reg, ses, tasks>>
    <3>1. req' = [req EXCEPT ![r] = [NoLocals EXCEPT !.ses = l.wait]]
      BY <1>1, <1>2, <1>8, <2>2 DEF JoinSession, Again, TypeInv, RequestsOK
    <3>2. [NoLocals EXCEPT !.ses = l.wait] \in LocalSet /\ [NoLocals EXCEPT !.ses = l.wait].ses = l.wait
      BY <1>2 DEF NoLocals, LocalSet, Looks
    <3>3. RequestsOK'
      BY <1>2, <1>3, <2>2, <3>1, <3>2, Moved DEF TypeInv
    <3> QED BY <2>1, <2>2, <3>3 DEF TypeInv, TablesOK, SessionsOK, RestOK
  <2>3. CASE Again(r) /\ UNCHANGED <<reg, ses, tasks>>
    BY <1>4, <2>1, <2>3 DEF TypeInv, TablesOK, SessionsOK, RestOK
  <2>4. CASE /\ \E keep : Detach({l.key}, keep, {})
             /\ pc' = [pc EXCEPT ![r] = "enter"]
             /\ req' = [req EXCEPT ![r].wait = None, ![r].after = TRUE]
    <3>1. [l EXCEPT !.wait = None, !.after = TRUE] \in LocalSet /\ [l EXCEPT !.wait = None, !.after = TRUE].key = l.key
      BY DEF LocalSet
    <3>2. req' = [req EXCEPT ![r] = [l EXCEPT !.wait = None, !.after = TRUE]]
      BY <1>1, <2>4 DEF TypeInv, RequestsOK
    <3>3. RequestsOK'
      BY <1>2, <1>3, <2>4, <3>1, <3>2, Moved DEF TypeInv
    <3> QED BY <1>2, <2>1, <2>4, <3>3, DetachTyped DEF TypeInv, TablesOK, RestOK
  <2> QED BY <1>1, <1>8, <2>2, <2>3, <2>4 DEF JoinSession
<1> QED BY <1>5, <1>6, <1>7, <1>8

LEMMA ConnectedTyped ==
  ASSUME NEW k \in Keys
  PROVE  Connected(k) \in SessionSet /\ \A h \in HandleSet : [Connected(k) EXCEPT !.handle = h] \in SessionSet
<1>1. Connected(k) \in SessionSet
  BY DEF Connected, Blank, SessionSet
<1> HIDE DEF Connected
<1>2. PICK x \in SessionSet : x = Connected(k)
  BY <1>1
<1>3. \A h \in HandleSet : [x EXCEPT !.handle = h] \in SessionSet
  BY DEF SessionSet
<1> QED BY <1>1, <1>2, <1>3

LEMMA CreationTyped ==
  ASSUME TypeInv, RowOK', NEW r \in Requests,
         CreateFails(r) \/ Claim(r) \/ ClaimCancelled(r) \/ ClaimFails(r) \/ Register(r) \/ RegisterFails(r)
  PROVE  RequestsOK' /\ TablesOK' /\ SessionsOK' /\ RestOK'
<1> DEFINE k == req[r].key
<1>1. pc[r] \in Creating /\ k \in Keys
  BY DEF CreateFails, Claim, ClaimCancelled, ClaimFails, Register, RegisterFails, Creating, TypeInv,
         RequestsOK, Keyed, Early
<1> HIDE DEF k
<1>2. CASE CreateFails(r) \/ ClaimCancelled(r) \/ ClaimFails(r) \/ RegisterFails(r)
  <2>1. PICK how \in Outcomes : CreationFails(r, how)
    BY <1>2 DEF CreateFails, ClaimCancelled, ClaimFails, RegisterFails, Outcomes
  <2>2. UNCHANGED <<reg, drain>> /\ (Mishap \/ UNCHANGED faults)
    BY <1>2 DEF CreateFails, ClaimCancelled, ClaimFails, RegisterFails
  <2>3. PICK y : /\ ses' = ses \/ ses' = [ses EXCEPT ![r] = y]
                 /\ y = Connected(k) \/ \E b \in BOOLEAN : y = [ses[r] EXCEPT !.leaked = b]
    BY <1>2 DEF CreateFails, ClaimCancelled, ClaimFails, RegisterFails, k
  <2>6. y \in SessionSet
    <3>1. PICK x \in SessionSet : x = ses[r]
      BY DEF TypeInv, SessionsOK
    <3>2. \A b \in BOOLEAN : [x EXCEPT !.leaked = b] \in SessionSet
      BY DEF SessionSet
    <3> QED BY <1>1, <2>3, <3>1, <3>2, ConnectedTyped
  <2>4. tasks' \subseteq TaskSet
    BY <2>1, StartTyped DEF CreationFails, TypeInv, SessionsOK
  <2>5. SessionsOK'
    BY <2>3, <2>4, <2>6, SessionEdited DEF TypeInv, SessionsOK
  <2> QED BY <2>1, <2>2, <2>5, EndsTyped, SettleTyped, MishapTyped DEF CreationFails, TypeInv
<1>3. CASE Claim(r)
  <2>1. /\ ses' = [ses EXCEPT ![r] = [Connected(k) EXCEPT !.handle = Handle(k, row'[k])]]
        /\ UNCHANGED <<reg, fut, outcome, req, tasks, drain>> /\ (Mishap \/ UNCHANGED faults)
        /\ pc' = [pc EXCEPT ![r] = "register"]
    BY <1>3 DEF Claim, k
  <2>2. Handle(k, row'[k]) \in HandleSet
    BY <1>1, HandleTyped DEF RowOK
  <2>3. SessionsOK'
    BY <1>1, <2>1, <2>2, ConnectedTyped, SessionEdited DEF TypeInv, SessionsOK
  <2>4. RequestsOK'
    <3>1. "register" \in Places /\ "register" \notin Waiting \cup Using
      BY DEF Places, Waiting, Creating, Using
    <3>2. req[r] \in LocalSet /\ req' = [req EXCEPT ![r] = req[r]]
      BY <2>1 DEF TypeInv, RequestsOK
    <3> QED BY <1>1, <2>1, <3>1, <3>2, Moved DEF k, TypeInv
  <2> QED BY <2>1, <2>3, <2>4, MishapTyped DEF TypeInv, TablesOK
<1>4. CASE Register(r)
  <2>1. /\ reg' = [reg EXCEPT ![k] = r] /\ fut' = [fut EXCEPT ![k] = None]
        /\ outcome' = IF outcome[r] = "pending" THEN [outcome EXCEPT ![r] = "session"] ELSE outcome
        /\ pc' = [pc EXCEPT ![r] = "submit"] /\ req' = [req EXCEPT ![r] = [NoLocals EXCEPT !.ses = r]]
        /\ UNCHANGED <<tasks, drain, faults>>
    BY <1>4 DEF Register, k
  <2>2. ses' = ses \/ ses' = [ses EXCEPT ![reg[k]].stray = TRUE]
    BY <1>4 DEF Register, k
  <2>3. SessionsOK'
    <3>1. CASE ses' = ses
      BY <2>1, <3>1 DEF TypeInv, SessionsOK
    <3>2. CASE ses' = [ses EXCEPT ![reg[k]].stray = TRUE]
      <4>1. CASE reg[k] \in Requests
        <5>1. PICK x \in SessionSet : x = ses[reg[k]]
          BY <4>1 DEF TypeInv, SessionsOK
        <5>2. [x EXCEPT !.stray = TRUE] \in SessionSet
          BY DEF SessionSet
        <5>3. ses' = [ses EXCEPT ![reg[k]] = [x EXCEPT !.stray = TRUE]]
          BY <3>2, <5>1
        <5> QED BY <2>1, <5>2, <5>3, SessionEdited DEF TypeInv, SessionsOK
      <4>2. CASE reg[k] \notin Requests
        BY <2>1, <3>2, <4>2 DEF TypeInv, SessionsOK
      <4> QED BY <4>1, <4>2
    <3> QED BY <2>2, <3>1, <3>2
  <2>4. RequestsOK'
    <3>1. "submit" \in Places /\ "submit" \in Using /\ "submit" \notin Early \cup Waiting
      BY DEF Places, Early, Waiting, Creating, Using
    <3>2. [NoLocals EXCEPT !.ses = r] \in LocalSet /\ [NoLocals EXCEPT !.ses = r].ses = r
      BY DEF NoLocals, LocalSet, Looks
    <3> QED BY <2>1, <3>1, <3>2, Moved DEF TypeInv
  <2>5. TablesOK'
    BY <2>1 DEF TypeInv, TablesOK, Outcomes
  <2> QED BY <2>1, <2>3, <2>4, <2>5 DEF TypeInv, RestOK
<1> QED BY <1>2, <1>3, <1>4

(* Reconnecting leaves a well-formed session, whether it succeeds or not.  *)
LEMMA NotReconnectedAs ==
  ASSUME NEW s, NEW after \in NotReconnected(s)
  PROVE  \E kept, leaks \in BOOLEAN : after = Unconnected(s, kept, leaks)
BY DEF NotReconnected

LEMMA ReconnectTyped ==
  ASSUME SessionsOK, NEW s \in Requests, NEW after,
         after = Reconnected(s) \/ after \in NotReconnected(s)
  PROVE  after \in [Requests -> SessionSet]
<1>1. PICK x \in SessionSet : x = ses[s]
  BY DEF SessionsOK
<1>2. PICK b \in BOOLEAN : b = (reg[ses[s].key] # s)
  OBVIOUS
<1>3. PICK y \in SessionSet : after = [ses EXCEPT ![s] = y]
  <2>1. CASE after = Reconnected(s)
    <3>1. [x EXCEPT !.closed = FALSE, !.lease = TRUE, !.reader = TRUE, !.stray = @ \/ b] \in SessionSet
      BY DEF SessionSet
    <3>2. after = [ses EXCEPT ![s] = [x EXCEPT !.closed = FALSE, !.lease = TRUE, !.reader = TRUE, !.stray = @ \/ b]]
      BY <1>1, <1>2, <2>1 DEF Reconnected, SessionsOK
    <3> QED BY <3>1, <3>2
  <2>2. CASE after \in NotReconnected(s)
    <3>1. \A c \in BOOLEAN : \A d \in BOOLEAN :
            [x EXCEPT !.closed = TRUE, !.lease = c, !.reader = FALSE, !.stray = @ \/ b, !.leaked = d] \in SessionSet
      BY DEF SessionSet
    <3>2. PICK kept \in BOOLEAN, leaks \in BOOLEAN :
            after = Unconnected(s, kept, leaks)
      BY <2>2, NotReconnectedAs
    <3>3. PICK c \in BOOLEAN, d \in BOOLEAN : c = (x.lease /\ kept) /\ d = (x.leaked \/ leaks)
      BY DEF SessionSet
    <3>4. after = [ses EXCEPT ![s] = [x EXCEPT !.closed = TRUE, !.lease = c, !.reader = FALSE, !.stray = @ \/ b,
                                               !.leaked = d]]
      BY <1>1, <1>2, <3>2, <3>3 DEF Unconnected, SessionsOK
    <3> QED BY <3>1, <3>4
  <2> QED BY <2>1, <2>2
<1> QED BY <1>3 DEF SessionsOK

LEMMA SubmitTyped ==
  ASSUME TypeInv, NEW r \in Requests,
         SubmitClosed(r) \/ Reconnect(r) \/ Queue(r) \/ Enqueue(r) \/ GateFails(r) \/ Resend(r)
  PROVE  RequestsOK' /\ TablesOK' /\ SessionsOK' /\ RestOK'
<1> DEFINE s == req[r].ses
<1>1. pc[r] \in Using /\ s \in Requests
  <2>1. pc[r] \in Using
    BY DEF SubmitClosed, Reconnect, Queue, Enqueue, GateFails, Resend, Using
  <2> QED BY <2>1 DEF TypeInv, RequestsOK, Keyed
<1>2. PICK x \in SessionSet : x = ses[s]
  BY <1>1 DEF TypeInv, SessionsOK
<1>3. TablesOK' /\ drain' = drain
  BY DEF SubmitClosed, Reconnect, Queue, Enqueue, GateFails, Resend, TypeInv, TablesOK
<1>4. RestOK'
  BY <1>3, MishapTyped DEF SubmitClosed, Reconnect, Queue, Enqueue, GateFails, Resend, TypeInv
<1>5. RequestsOK'
  <2>1. Ends(r) \/ \E where \in Using : GoOn(r, where)
    BY DEF SubmitClosed, Reconnect, Queue, Enqueue, GateFails, Resend, Using
  <2> QED BY <1>1, <2>1, EndsTyped, GoOnTyped DEF TypeInv
<1>6. SessionsOK'
  <2>1. CASE SubmitClosed(r)
    BY <2>1 DEF SubmitClosed, TypeInv, SessionsOK
  <2>2. CASE Reconnect(r)
    <3>1. tasks' = tasks /\ (ses' = Reconnected(s) \/ ses' \in NotReconnected(s))
      BY <2>2 DEF Reconnect
    <3> QED BY <1>1, <3>1, ReconnectTyped DEF TypeInv, SessionsOK
  <2>3. CASE Queue(r)
    <3>1. CASE RetireIfReady(s, ses[s], r)
      BY <1>1, <1>2, <3>1, RetireTyped DEF TypeInv
    <3>2. CASE UNCHANGED <<ses, tasks>>
      BY <3>2 DEF TypeInv, SessionsOK
    <3>3. CASE ses' = [ses EXCEPT ![s].queued = @ + 1] /\ tasks' = tasks
      <4>1. [x EXCEPT !.queued = @ + 1] \in SessionSet
        BY DEF SessionSet
      <4>2. ses' = [ses EXCEPT ![s] = [x EXCEPT !.queued = @ + 1]]
        BY <1>2, <3>3
      <4> QED BY <3>3, <4>1, <4>2, SessionEdited DEF TypeInv, SessionsOK
    <3> QED BY <2>3, <3>1, <3>2, <3>3 DEF Queue
  <2>4. CASE Enqueue(r)
    <3>1. [x EXCEPT !.pending = @ \cup {r}] \in SessionSet
      BY DEF SessionSet
    <3>2. ses' = [ses EXCEPT ![s] = [x EXCEPT !.pending = @ \cup {r}]] /\ tasks' = tasks
      BY <1>2, <2>4 DEF Enqueue
    <3> QED BY <3>1, <3>2, SessionEdited DEF TypeInv, SessionsOK
  <2>5. CASE GateFails(r)
    <3>1. PICK y \in SessionSet : y = [x EXCEPT !.queued = Less(@)]
      BY LessTyped DEF SessionSet
    <3>2. PICK b \in BOOLEAN : b = (Retired(y) /\ reg[y.key] # s)
      BY DEF Retired
    <3>3. [y EXCEPT !.stray = @ \/ b] \in SessionSet
      BY DEF SessionSet
    <3>4. ses' = [ses EXCEPT ![s] = [y EXCEPT !.stray = @ \/ b]] /\ tasks' = tasks
      BY <1>2, <2>5, <3>1, <3>2 DEF GateFails
    <3> QED BY <3>3, <3>4, SessionEdited DEF TypeInv, SessionsOK
  <2>6. CASE Resend(r)
    <3>1. CASE ses' = Reconnected(s) /\ tasks' = tasks
      BY <1>1, <3>1, ReconnectTyped DEF TypeInv, SessionsOK
    <3>2. CASE tasks' = tasks /\ \E after \in NotReconnected(s) :
                  ses' = [after EXCEPT ![s].pending = @ \ {r}, ![s].queued = Less(@)]
      <4>1. PICK after \in [Requests -> SessionSet] :
              ses' = [after EXCEPT ![s].pending = @ \ {r}, ![s].queued = Less(@)]
        BY <1>1, <3>2, ReconnectTyped DEF TypeInv
      <4>2. PICK y \in SessionSet : y = after[s]
        BY <1>1, <4>1
      <4>3. [y EXCEPT !.pending = @ \ {r}, !.queued = Less(@)] \in SessionSet
        BY LessTyped DEF SessionSet
      <4>4. ses' = [after EXCEPT ![s] = [y EXCEPT !.pending = @ \ {r}, !.queued = Less(@)]]
        BY <1>1, <4>1, <4>2
      <4> QED BY <3>2, <4>1, <4>3, <4>4 DEF TypeInv, SessionsOK
    <3> QED BY <2>6, <3>1, <3>2 DEF Resend
  <2> QED BY <2>1, <2>2, <2>3, <2>4, <2>5, <2>6
<1> QED BY <1>3, <1>4, <1>5, <1>6

LEMMA HideTyped ==
  ASSUME NEW x \in SessionSet, NEW r \in Requests
  PROVE  Hide(x, r) \in SessionSet
<1>1. [x EXCEPT !.pending = @ \ {r}, !.hidden = @ \cup {r}, !.queued = Less(@), !.retire = TRUE] \in SessionSet
  BY LessTyped DEF SessionSet
<1> QED BY <1>1 DEF Hide

LEMMA LeaveTyped ==
  ASSUME TypeInv, NEW r \in Requests,
         ClientLeaves(r) \/ FirstEventTimeout(r) \/ AbandonedAfterSubmit(r) \/ Cancelled(r)
  PROVE  RequestsOK' /\ TablesOK' /\ SessionsOK' /\ RestOK'
<1>1. Ends(r) /\ UNCHANGED <<reg, fut, outcome, drain>> /\ (Mishap \/ UNCHANGED faults)
  BY DEF ClientLeaves, FirstEventTimeout, AbandonedAfterSubmit, Cancelled
<1>2. RequestsOK' /\ TablesOK' /\ RestOK'
  BY <1>1, EndsTyped, MishapTyped DEF TypeInv, TablesOK
<1>3. SessionsOK'
  <2> DEFINE s == req[r].ses
  <2>1. CASE AbandonedAfterSubmit(r) \/ Cancelled(r)
    BY <2>1 DEF AbandonedAfterSubmit, Cancelled, TypeInv, SessionsOK
  <2>2. CASE ClientLeaves(r) \/ FirstEventTimeout(r)
    <3>1. s \in Requests
      BY <2>2 DEF ClientLeaves, FirstEventTimeout, TypeInv, RequestsOK, Keyed, Using
    <3>2. PICK x \in SessionSet : x = Hide(ses[s], r)
      BY <3>1, HideTyped DEF TypeInv, SessionsOK
    <3>3. CASE ClientLeaves(r)
      BY <3>1, <3>2, <3>3, RetireTyped DEF ClientLeaves, TypeInv
    <3>4. CASE FirstEventTimeout(r)
      <4>1. [x EXCEPT !.hidden = {}] \in SessionSet
        BY DEF SessionSet
      <4>2. PICK y \in SessionSet : ses' = [ses EXCEPT ![s] = y]
        BY <3>2, <3>4, <4>1 DEF FirstEventTimeout
      <4>3. tasks' \subseteq TaskSet
        <5>1. tasks' \subseteq tasks \cup {Start(s, r, "retire"), Start(s, r, "close")}
          BY <3>4 DEF FirstEventTimeout
        <5> QED BY <3>1, <5>1, StartTyped DEF TypeInv, SessionsOK
      <4> QED BY <4>2, <4>3, SessionEdited DEF TypeInv
    <3> QED BY <2>2, <3>3, <3>4
  <2> QED BY <2>1, <2>2
<1> QED BY <1>2, <1>3

LEMMA UpstreamTyped ==
  ASSUME TypeInv, NEW s \in Requests, UpstreamLost(s) \/ \E r \in Requests : Terminal(s, r)
  PROVE  RequestsOK' /\ TablesOK' /\ SessionsOK' /\ RestOK'
<1>1. PICK x \in SessionSet : x = ses[s]
  BY DEF TypeInv, SessionsOK
<1>2. CASE UpstreamLost(s)
  <2>1. [x EXCEPT !.closed = TRUE, !.queued = 0, !.pending = {}, !.hidden = {}, !.reader = FALSE] \in SessionSet
    BY DEF SessionSet
  <2>2. ses' = [ses EXCEPT ![s] = [x EXCEPT !.closed = TRUE, !.queued = 0, !.pending = {}, !.hidden = {},
                                             !.reader = FALSE]]
    BY <1>1, <1>2 DEF UpstreamLost, TypeInv, SessionsOK
  <2>3. tasks' \subseteq TaskSet
    BY <1>2, StartTyped DEF UpstreamLost, TypeInv, SessionsOK
  <2>4. SessionsOK'
    BY <2>1, <2>2, <2>3, SessionEdited DEF TypeInv
  <2>5. EndAll(ses[s].pending) /\ UNCHANGED <<reg, fut, outcome, drain>> /\ Mishap
    BY <1>2 DEF UpstreamLost
  <2> QED BY <2>4, <2>5, EndAllTyped, MishapTyped DEF TypeInv, TablesOK
<1>3. ASSUME NEW r \in Requests, Terminal(s, r)
      PROVE  RequestsOK' /\ TablesOK' /\ SessionsOK' /\ RestOK'
  <2>1. PICK n \in Nat : n = IF r \in ses[s].pending THEN Less(ses[s].queued) ELSE ses[s].queued
    BY <1>1, LessTyped DEF SessionSet
  <2>2. PICK y \in SessionSet : y = [x EXCEPT !.pending = @ \ {r}, !.hidden = @ \ {r}, !.queued = n]
    BY DEF SessionSet
  <2>3. RetireIfReady(s, y, None)
    BY <1>1, <1>3, <2>1, <2>2 DEF Terminal
  <2>4. EndAll({r}) /\ UNCHANGED <<reg, fut, outcome, drain, faults>>
    BY <1>3 DEF Terminal
  <2> QED BY <2>3, <2>4, RetireTyped, EndAllTyped DEF TypeInv, TablesOK, RestOK
<1> QED BY <1>2, <1>3

LEMMA CleanupTyped ==
  ASSUME TypeInv, NEW s \in Requests, Cleanup(s)
  PROVE  RequestsOK' /\ TablesOK' /\ SessionsOK' /\ RestOK'
<1>1. PICK t \in tasks : /\ t.ses = s
                         /\ \/ CloseReleases(t) \/ CloseWrites(t) \/ CloseEnds(t)
                            \/ RetireUnregisters(t) \/ RetireReleases(t) \/ RetireWrites(t)
  BY DEF Cleanup
<1>2. PICK x \in SessionSet : x = ses[s]
  BY DEF TypeInv, SessionsOK
<1>3. t \in TaskSet
  BY <1>1 DEF TypeInv, SessionsOK, TaskSet
<1>4. tasks' \subseteq TaskSet
  <2>1. PICK w \in WriteSet \cup {None} : w = IF Owned(s) THEN ToWrite(s) ELSE None
    BY ToWriteSomething
  <2>2. \A u \in tasks' : \/ u \in tasks \/ u = [t EXCEPT !.at = "end"] \/ u = [t EXCEPT !.write = None]
                          \/ u = [t EXCEPT !.at = "end", !.write = w] \/ u = [t EXCEPT !.write = w]
    BY <1>1, <2>1 DEF CloseReleases, CloseWrites, CloseEnds, RetireUnregisters, RetireReleases, RetireWrites
  <2> QED BY <1>3, <2>2, TaskSteps DEF TypeInv, SessionsOK
<1>5. RestOK'
  <2>1. drain' = drain /\ (Mishap \/ UNCHANGED faults)
    BY <1>1 DEF CloseReleases, CloseWrites, CloseEnds, RetireUnregisters, RetireReleases, RetireWrites,
                WriteRow, WriteFails
  <2> QED BY <2>1, MishapTyped DEF TypeInv
<1>6. TablesOK'
  BY <1>1 DEF CloseReleases, CloseWrites, CloseEnds, RetireUnregisters, RetireReleases, RetireWrites,
              TypeInv, TablesOK
<1>7. RequestsOK'
  <2>1. EndAll(ses[s].pending) \/ UNCHANGED <<pc, req>>
    BY <1>1 DEF CloseReleases, CloseWrites, CloseEnds, RetireUnregisters, RetireReleases, RetireWrites
  <2> QED BY <2>1, EndAllTyped DEF TypeInv, RequestsOK, Keyed
<1>8. PICK y \in SessionSet : ses' = [ses EXCEPT ![s] = y]
  <2>1. CASE CloseReleases(t)
    <3>1. [x EXCEPT !.closed = TRUE, !.lease = FALSE] \in SessionSet
      BY DEF SessionSet
    <3>2. ses' = [ses EXCEPT ![s] = [x EXCEPT !.closed = TRUE, !.lease = FALSE]]
      BY <1>1, <1>2, <2>1 DEF CloseReleases, TypeInv, SessionsOK
    <3> QED BY <3>1, <3>2
  <2>2. CASE CloseEnds(t)
    <3>1. PICK b \in BOOLEAN : b = ses[s].reader
      BY <1>2 DEF SessionSet
    <3>2. [x EXCEPT !.closed = @ \/ b, !.reader = FALSE, !.queued = 0, !.pending = {}, !.hidden = {}] \in SessionSet
      BY DEF SessionSet
    <3>3. ses' = [ses EXCEPT ![s] = [x EXCEPT !.closed = @ \/ b, !.reader = FALSE, !.queued = 0, !.pending = {},
                                              !.hidden = {}]]
      BY <1>1, <1>2, <2>2, <3>1 DEF CloseEnds, TypeInv, SessionsOK
    <3> QED BY <3>2, <3>3
  <2>3. CASE RetireUnregisters(t)
    <3>1. [x EXCEPT !.closed = TRUE] \in SessionSet
      BY DEF SessionSet
    <3>2. ses' = [ses EXCEPT ![s] = [x EXCEPT !.closed = TRUE]]
      BY <1>1, <1>2, <2>3 DEF RetireUnregisters
    <3> QED BY <3>1, <3>2
  <2>4. CASE RetireReleases(t)
    <3>1. /\ [x EXCEPT !.handle = None] \in SessionSet
          /\ [x EXCEPT !.lease = FALSE, !.handle = None] \in SessionSet
          /\ [x EXCEPT !.lease = FALSE] \in SessionSet
      BY DEF SessionSet
    <3>2. \/ ses' = [ses EXCEPT ![s] = [x EXCEPT !.handle = None]]
          \/ ses' = [ses EXCEPT ![s] = [x EXCEPT !.lease = FALSE, !.handle = None]]
          \/ ses' = [ses EXCEPT ![s] = [x EXCEPT !.lease = FALSE]]
      BY <1>1, <1>2, <2>4 DEF RetireReleases, TypeInv, SessionsOK
    <3> QED BY <3>1, <3>2
  <2>5. CASE CloseWrites(t)
    <3>1. ses' = [ses EXCEPT ![s] = x]
      BY <1>2, <2>5 DEF CloseWrites, TypeInv, SessionsOK
    <3> QED BY <3>1
  <2>6. CASE RetireWrites(t)
    <3>1. PICK h \in HandleSet : h = t.write.handle
      BY <1>3, <2>6 DEF RetireWrites, TaskSet, WriteSet
    <3>2. [x EXCEPT !.lease = FALSE] \in SessionSet /\ [x EXCEPT !.lease = FALSE, !.handle = h] \in SessionSet
      BY DEF SessionSet
    <3>3. \/ ses' = [ses EXCEPT ![s] = [x EXCEPT !.lease = FALSE]]
          \/ ses' = [ses EXCEPT ![s] = [x EXCEPT !.lease = FALSE, !.handle = h]]
      BY <1>1, <1>2, <2>6, <3>1 DEF RetireWrites, TypeInv, SessionsOK
    <3> QED BY <3>2, <3>3
  <2> QED BY <1>1, <2>1, <2>2, <2>3, <2>4, <2>5, <2>6
<1>9. SessionsOK'
  BY <1>4, <1>8, SessionEdited DEF TypeInv
<1> QED BY <1>5, <1>6, <1>7, <1>9

LEMMA OtherTyped ==
  ASSUME TypeInv, Shutdown \/ (\E k \in Keys : Elsewhere(k)) \/ \E r \in Requests : Arrive(r)
  PROVE  RequestsOK' /\ TablesOK' /\ SessionsOK' /\ RestOK'
<1>1. CASE MarkDraining
  BY <1>1 DEF MarkDraining, Mishap, TypeInv, RequestsOK, Keyed, TablesOK, SessionsOK, RestOK
<1>2. CASE CloseAll
  <2>1. tasks' \subseteq TaskSet
    <3>1. \A k \in Registered : reg[k] \in Requests
      BY DEF Registered, TypeInv, TablesOK
    <3> QED BY <1>2, <3>1, StartTyped DEF CloseAll, TypeInv, SessionsOK
  <2>2. TablesOK'
    BY <1>2 DEF CloseAll, TypeInv, TablesOK, Outcomes
  <2> QED BY <1>2, <2>1, <2>2 DEF CloseAll, TypeInv, RequestsOK, Keyed, SessionsOK, RestOK
<1>3. ASSUME NEW k \in Keys, Elsewhere(k)
      PROVE  RequestsOK' /\ TablesOK' /\ SessionsOK' /\ RestOK'
  <2>1. UNCHANGED <<reg, fut, outcome, pc, req, ses, tasks, drain>> /\ (Mishap \/ UNCHANGED faults)
    BY <1>3 DEF Elsewhere, RivalClaims, RivalLooks, RivalReleases, RivalDrains, LeaseExpires, Purge, OnlyRow,
                OnlyTable
  <2> QED BY <2>1, MishapTyped DEF TypeInv, RequestsOK, Keyed, TablesOK, SessionsOK
<1>4. ASSUME NEW r \in Requests, Arrive(r)
      PROVE  RequestsOK' /\ TablesOK' /\ SessionsOK' /\ RestOK'
  <2>1. PICK k \in Keys, miss \in BOOLEAN :
          req' = [req EXCEPT ![r] = [NoLocals EXCEPT !.key = k, !.look = Look(k),
                                                     !.aliasMiss = miss /\ Look(k) = "none"]]
    BY <1>4 DEF Arrive
  <2>2. PICK l \in Looks, b \in BOOLEAN : l = Look(k) /\ b = (miss /\ Look(k) = "none")
    BY DEF Look, Looks
  <2>3. PICK x \in LocalSet : x = [NoLocals EXCEPT !.key = k, !.look = l, !.aliasMiss = b] /\ x.key = k
    <3>1. PICK n \in LocalSet : n = NoLocals
      BY NoLocalsTyped
    <3>2. LET y == [n EXCEPT !.key = k, !.look = l, !.aliasMiss = b] IN y \in LocalSet /\ y.key = k
      BY DEF LocalSet
    <3> QED BY <3>1, <3>2
  <2>4. "enter" \in Places /\ "enter" \notin Waiting \cup Using
    BY DEF Places, Waiting, Using
  <2>5. req' = [req EXCEPT ![r] = x] /\ pc' = [pc EXCEPT ![r] = "enter"]
    BY <1>4, <2>1, <2>2, <2>3 DEF Arrive
  <2>6. RequestsOK'
    BY <2>3, <2>4, <2>5, Moved DEF TypeInv
  <2> QED BY <1>4, <2>6 DEF Arrive, TypeInv, TablesOK, SessionsOK, RestOK
<1> QED BY <1>1, <1>2, <1>3, <1>4 DEF Shutdown

LEMMA LeavingTyped ==
  ASSUME TypeInv, [Next]_vars
  PROVE  LeavingOK'
<1>1. ASSUME Begun
      PROVE  LeavingOK'
  BY <1>1 DEF Begun, TypeInv, LeavingOK
<1>2. CASE UNCHANGED vars
  BY <1>2 DEF vars, TypeInv, LeavingOK
<1>3. ASSUME NEW s \in Requests, Cleanup(s)
      PROVE  LeavingOK'
  <2>1. leaving' = leaving
    BY <1>3 DEF Cleanup, CloseReleases, CloseWrites, CloseEnds, RetireUnregisters, RetireReleases, RetireWrites
  <2> QED BY <2>1 DEF TypeInv, LeavingOK
<1>4. ASSUME NEW k \in Keys, Elsewhere(k)
      PROVE  LeavingOK'
  <2>1. Handle(k, row[k]) \in HandleSet
    BY HandleTyped DEF TypeInv, RowOK
  <2>2. leaving' \subseteq leaving \cup {Handle(k, row[k])}
    BY <1>4 DEF Elsewhere, RivalClaims, RivalLooks, RivalReleases, RivalDrains, LeaseExpires, Purge, OnlyRow
  <2> QED BY <2>1, <2>2 DEF TypeInv, LeavingOK
<1> QED BY <1>1, <1>2, <1>3, <1>4, RequestBegins, SessionBegins, ShutdownBegins DEF Next

LEMMA TypesAlways == Spec => []TypeInv
<1>1. Init => TypeInv
  <2> SUFFICES ASSUME Init PROVE TypeInv
    OBVIOUS
  <2>1. RequestsOK
    BY NoLocalsTyped DEF Init, RequestsOK, Keyed, Places, Early, Waiting, Creating, Using
  <2>2. TablesOK /\ RestOK /\ RowOK /\ LeavingOK
    BY DEF Init, TablesOK, RestOK, RowOK, RowSet, RowStates, Outcomes, LeavingOK
  <2>3. SessionsOK
    BY NoLocalsTyped DEF Init, SessionsOK
  <2> QED BY <2>1, <2>2, <2>3 DEF TypeInv
<1>2. TypeInv /\ [Next]_vars => TypeInv'
  <2> SUFFICES ASSUME TypeInv, [Next]_vars PROVE TypeInv'
    OBVIOUS
  <2>1. RowOK' /\ LeavingOK'
    BY StepRow, LeavingTyped
  <2>2. RequestsOK' /\ TablesOK' /\ SessionsOK' /\ RestOK'
    <3>1. CASE UNCHANGED vars
      BY <3>1 DEF vars, TypeInv, RequestsOK, Keyed, TablesOK, SessionsOK, RestOK
    <3>2. ASSUME NEW r \in Requests, RequestStep(r)
          PROVE  RequestsOK' /\ TablesOK' /\ SessionsOK' /\ RestOK'
      BY <2>1, <3>2, EnterTyped, WaitTyped, CreationTyped, SubmitTyped, LeaveTyped DEF RequestStep
    <3> QED BY <3>1, <3>2, UpstreamTyped, CleanupTyped, OtherTyped DEF Next
  <2> QED BY <2>1, <2>2 DEF TypeInv
<1> QED BY <1>1, <1>2, PTL DEF Spec

(* The tables, the sessions and the locals of any number of requests keep  *)
(* their shape; in particular the count of queued requests is never        *)
(* negative, whoever ends a request twice (queued_request_count).          *)
THEOREM BridgeTypes == Spec => []TypeOK
<1>1. TypeInv => TypeOK
  BY DEF TypeInv, RequestsOK, TablesOK, SessionsOK, RestOK, RowOK, LeavingOK, TypeOK
<1> QED BY <1>1, TypesAlways, PTL

(* The bridge implements OwnerLease: whatever is cancelled, overtaken or   *)
(* lost, of this instance and of the others, a key has one owner, a token  *)
(* never names two of them, and a row is only released after a look at it  *)
(* that found the releasing instance as its owner (claim, renew and        *)
(* release in durable_bridge_repository.py and their callers).             *)
THEOREM OwnershipRefined == Spec => OwnershipKept
<1>1. Init => Ownership!Init
  BY DEF Init, Ownership!Init, Token, Leaving
<1>2. TypeInv /\ [Next]_vars => [Ownership!Next]_(Ownership!leaseVars)
  BY StepRow DEF LeaseStep
<1> QED BY <1>1, <1>2, TypesAlways, PTL DEF Spec, OwnershipKept, Ownership!Spec

-------------------------------------------------------------------------------
(* Markers.  The invariant adds to MarkerOwned that a request has at most  *)
(* one marker, so that registering its session removes the only one.       *)

Behind == Creating \cup {"forwarded"}

MarkersDistinct == \A j, k \in Keys : fut[j] = fut[k] /\ fut[j] # None => j = k

MarkerInv ==
  /\ fut \in [Keys -> Requests \cup {None}]
  /\ outcome \in [Requests -> Outcomes]
  /\ pc \in [Requests -> Places]
  /\ MarkerOwned
  /\ MarkersDistinct

(* A step that leaves the markers and every creation alone.                *)
LEMMA MarkersKept ==
  ASSUME MarkerInv, UNCHANGED <<fut, outcome>>, pc' \in [Requests -> Places],
         \A q \in Requests : pc[q] \in Behind => pc'[q] \in Behind
  PROVE  MarkerInv'
BY NoneIsNoRequest DEF MarkerInv, MarkerOwned, MarkersDistinct, Behind

(* One request moves on that was not creating, and is not.                 *)
LEMMA OneMoves ==
  ASSUME MarkerInv, UNCHANGED <<fut, outcome>>, NEW r \in Requests, pc[r] \notin Behind,
         NEW where \in Places, pc' = [pc EXCEPT ![r] = where]
  PROVE  MarkerInv'
<1>1. pc' \in [Requests -> Places]
  BY DEF MarkerInv
<1>2. \A q \in Requests : pc[q] \in Behind => pc'[q] \in Behind
  BY DEF MarkerInv
<1> QED BY <1>1, <1>2, MarkersKept

(* Settling a marker removes it and leaves the others.                     *)
LEMMA SettleKeeps ==
  ASSUME MarkerInv, NEW f, NEW how \in Outcomes, Settle(f, how), pc' \in [Requests -> Places],
         \A q \in Requests \ {f} : pc[q] \in Behind => pc'[q] \in Behind
  PROVE  MarkerInv'
<1>1. fut' \in [Keys -> Requests \cup {None}]
  BY DEF MarkerInv, Settle
<1>2. \A k \in Keys : fut'[k] # None => fut'[k] = fut[k] /\ fut[k] # f
  BY DEF MarkerInv, Settle
<1>3. outcome' \in [Requests -> Outcomes] /\ \A q \in Requests \ {f} : outcome'[q] = outcome[q]
  BY DEF MarkerInv, Settle
<1> QED BY <1>1, <1>2, <1>3, NoneIsNoRequest DEF MarkerInv, MarkerOwned, MarkersDistinct, Behind

LEMMA EnterMarkers ==
  ASSUME MarkerInv, NEW r \in Requests, Enter(r)
  PROVE  MarkerInv'
<1>1. PICK P \in Sweeps :
        \/ EnterReuse(r, P) \/ EnterRefused(r, P) \/ EnterJoin(r, P)
        \/ EnterAliasMiss(r, P) \/ EnterPublish(r, P) \/ EnterFull(r, P)
  BY DEF Enter
<1>2. pc[r] = "enter" /\ pc[r] \notin Behind
  BY DEF Enter, Behind, Creating
<1>3. \E where \in Places : pc' = [pc EXCEPT ![r] = where]
  <2>1. CASE EnterReuse(r, P) \/ EnterRefused(r, P)
    BY <2>1 DEF EnterReuse, EnterRefused, Ends, Places, Using, Final
  <2>2. CASE EnterJoin(r, P) \/ EnterAliasMiss(r, P)
    BY <2>2 DEF EnterJoin, EnterAliasMiss, Places, Waiting, Creating, Final
  <2>3. CASE EnterPublish(r, P) \/ EnterFull(r, P)
    BY <2>3 DEF EnterPublish, EnterFull, Ends, Places, Waiting, Creating, Final
  <2> QED BY <1>1, <2>1, <2>2, <2>3
<1>4. CASE EnterPublish(r, P)
  <2> DEFINE k == req[r].key
  <2>1. fut' = [fut EXCEPT ![k] = r] /\ outcome' = [outcome EXCEPT ![r] = "pending"]
    BY <1>4 DEF EnterPublish
  <2>2. pc'[r] \in Behind /\ pc' \in [Requests -> Places] /\ \A q \in Requests \ {r} : pc'[q] = pc[q]
    BY <1>3, <1>4 DEF EnterPublish, MarkerInv, Behind, Creating
  <2>3. \A j \in Keys : fut[j] # r
    BY <1>2, NoneIsNoRequest DEF MarkerInv, MarkerOwned, Behind
  <2> HIDE DEF k
  <2>4. fut' \in [Keys -> Requests \cup {None}] /\ outcome' \in [Requests -> Outcomes]
    BY <2>1 DEF MarkerInv, Outcomes
  <2>5. MarkersDistinct'
    BY <2>1, <2>3 DEF MarkerInv, MarkersDistinct
  <2>6. MarkerOwned'
    BY <2>1, <2>2, <2>3, NoneIsNoRequest DEF MarkerInv, MarkerOwned, Behind
  <2> QED BY <2>2, <2>4, <2>5, <2>6 DEF MarkerInv
<1>5. CASE ~EnterPublish(r, P)
  <2>1. UNCHANGED <<fut, outcome>>
    BY <1>1, <1>5 DEF EnterReuse, EnterRefused, EnterJoin, EnterAliasMiss, EnterFull
  <2> QED BY <1>2, <1>3, <2>1, OneMoves
<1> QED BY <1>4, <1>5

LEMMA CreationMarkers ==
  ASSUME TypeInv, MarkerInv, NEW r \in Requests,
         CreateFails(r) \/ Claim(r) \/ ClaimCancelled(r) \/ ClaimFails(r) \/ Register(r) \/ RegisterFails(r)
  PROVE  MarkerInv'
<1>1. CASE CreateFails(r) \/ ClaimCancelled(r) \/ ClaimFails(r) \/ RegisterFails(r)
  <2>1. PICK how \in Outcomes : CreationFails(r, how)
    BY <1>1 DEF CreateFails, ClaimCancelled, ClaimFails, RegisterFails, Outcomes
  <2>2. Settle(r, how) /\ pc' = [pc EXCEPT ![r] = "done"]
    BY <2>1 DEF CreationFails, Ends
  <2>3. pc' \in [Requests -> Places] /\ \A q \in Requests \ {r} : pc'[q] = pc[q]
    BY <2>2 DEF MarkerInv, Places, Final
  <2> QED BY <2>2, <2>3, SettleKeeps
<1>2. CASE Claim(r)
  <2>1. UNCHANGED <<fut, outcome>> /\ pc' = [pc EXCEPT ![r] = "register"]
    BY <1>2 DEF Claim
  <2>2. pc' \in [Requests -> Places] /\ \A q \in Requests : pc[q] \in Behind => pc'[q] \in Behind
    BY <2>1 DEF MarkerInv, Places, Behind, Creating
  <2> QED BY <2>1, <2>2, MarkersKept
<1>3. CASE Register(r)
  <2> DEFINE k == req[r].key
  <2>1. /\ fut' = [fut EXCEPT ![k] = None]
        /\ outcome' = IF outcome[r] = "pending" THEN [outcome EXCEPT ![r] = "session"] ELSE outcome
        /\ pc' = [pc EXCEPT ![r] = "submit"]
        /\ fut[k] = (IF outcome[r] = "none" THEN None ELSE r)
    BY <1>3 DEF Register, MarkerStands
  <2>2. \A j \in Keys \ {k} : fut[j] # r
    <3>1. k \in Keys
      BY <1>3 DEF Register, TypeInv, RequestsOK, Keyed, Early, Creating
    <3> QED BY <2>1, <3>1, NoneIsNoRequest DEF MarkerInv, MarkerOwned, MarkersDistinct
  <2> HIDE DEF k
  <2>3. fut' \in [Keys -> Requests \cup {None}] /\ outcome' \in [Requests -> Outcomes]
    BY <2>1 DEF MarkerInv, Outcomes
  <2>4. pc' \in [Requests -> Places] /\ \A q \in Requests \ {r} : pc'[q] = pc[q] /\ outcome'[q] = outcome[q]
    BY <2>1 DEF MarkerInv, Places, Using
  <2>5. \A j \in Keys : fut'[j] # None => fut'[j] = fut[j] /\ fut[j] # r
    BY <2>1, <2>2 DEF MarkerInv
  <2>6. MarkerOwned'
    BY <2>4, <2>5, NoneIsNoRequest DEF MarkerInv, MarkerOwned
  <2>7. MarkersDistinct'
    BY <2>5 DEF MarkerInv, MarkersDistinct
  <2> QED BY <2>3, <2>4, <2>6, <2>7 DEF MarkerInv
<1> QED BY <1>1, <1>2, <1>3

LEMMA WaitMarkers ==
  ASSUME MarkerInv, NEW r \in Requests,
         JoinSession(r) \/ WakeAgain(r) \/ WakeFailed(r) \/ WaitTimeout(r)
  PROVE  MarkerInv'
<1>1. pc[r] \in Waiting /\ pc[r] \notin Behind
  BY DEF JoinSession, WakeAgain, WakeFailed, WaitTimeout, Waiting, Behind, Creating
<1>2. PICK where \in Places : pc' = [pc EXCEPT ![r] = where]
  BY DEF JoinSession, WakeAgain, WakeFailed, WaitTimeout, Again, Ends, Places, Using, Final
<1>3. CASE WaitTimeout(r)
  <2>1. pc' \in [Requests -> Places] /\ \A q \in Requests : pc[q] \in Behind => pc'[q] \in Behind
    BY <1>1, <1>2 DEF MarkerInv
  <2>2. Settle(req[r].wait, "failed")
    BY <1>3 DEF WaitTimeout
  <2> QED BY <2>1, <2>2, SettleKeeps DEF Outcomes
<1>4. CASE ~WaitTimeout(r)
  <2>1. UNCHANGED <<fut, outcome>>
    BY <1>4 DEF JoinSession, WakeAgain, WakeFailed
  <2> QED BY <1>1, <1>2, <2>1, OneMoves
<1> QED BY <1>3, <1>4

(* On its session a request has no marker any more.                        *)
LEMMA UseMarkers ==
  ASSUME MarkerInv, NEW r \in Requests,
         \/ SubmitClosed(r) \/ Reconnect(r) \/ Queue(r) \/ Enqueue(r) \/ GateFails(r) \/ Resend(r)
         \/ ClientLeaves(r) \/ FirstEventTimeout(r) \/ AbandonedAfterSubmit(r) \/ Cancelled(r)
  PROVE  MarkerInv'
<1>1. UNCHANGED <<fut, outcome>>
  BY DEF SubmitClosed, Reconnect, Queue, Enqueue, GateFails, Resend, ClientLeaves, FirstEventTimeout,
         AbandonedAfterSubmit, Cancelled
<1>2. pc[r] \notin Behind
  BY DEF SubmitClosed, Reconnect, Queue, Enqueue, GateFails, Resend, ClientLeaves, FirstEventTimeout,
         AbandonedAfterSubmit, Cancelled, Waiting, Behind, Creating
<1>3. PICK where \in Places : pc' = [pc EXCEPT ![r] = where]
  <2>1. CASE SubmitClosed(r) \/ Reconnect(r) \/ Queue(r)
    BY <2>1 DEF SubmitClosed, Reconnect, Queue, GoOn, Ends, Places, Using, Final
  <2>2. CASE Enqueue(r) \/ GateFails(r) \/ Resend(r)
    BY <2>2 DEF Enqueue, GateFails, Resend, GoOn, Ends, Places, Using, Final
  <2>3. CASE ClientLeaves(r) \/ FirstEventTimeout(r) \/ AbandonedAfterSubmit(r) \/ Cancelled(r)
    BY <2>3 DEF ClientLeaves, FirstEventTimeout, AbandonedAfterSubmit, Cancelled, Ends, Places, Final
  <2> QED BY <2>1, <2>2, <2>3
<1> QED BY <1>1, <1>2, <1>3, OneMoves

(* Requests that are ended from outside were streaming.                    *)
LEMMA EndAllMarkers ==
  ASSUME MarkerInv, UNCHANGED <<fut, outcome>>, NEW R, EndAll(R)
  PROVE  MarkerInv'
<1>1. pc' \in [Requests -> Places]
  BY DEF MarkerInv, EndAll, Places, Final
<1>2. \A q \in Requests : pc[q] \in Behind => pc'[q] \in Behind
  BY DEF MarkerInv, EndAll, Behind, Creating
<1> QED BY <1>1, <1>2, MarkersKept

LEMMA OtherMarkers ==
  ASSUME MarkerInv,
         \/ \E s \in Requests : UpstreamLost(s) \/ Cleanup(s) \/ \E r \in Requests : Terminal(s, r)
         \/ Shutdown
         \/ \E k \in Keys : Elsewhere(k)
  PROVE  MarkerInv'
<1>1. ASSUME NEW s \in Requests, UpstreamLost(s) \/ \E r \in Requests : Terminal(s, r)
      PROVE  MarkerInv'
  BY <1>1, EndAllMarkers DEF UpstreamLost, Terminal
<1>2. ASSUME NEW s \in Requests, Cleanup(s)
      PROVE  MarkerInv'
  <2>1. PICK t : (CloseReleases(t) \/ CloseWrites(t) \/ CloseEnds(t) \/ RetireUnregisters(t) \/ RetireReleases(t)
                            \/ RetireWrites(t))
    BY <1>2 DEF Cleanup
  <2>2. CASE CloseEnds(t)
    BY <2>2, EndAllMarkers DEF CloseEnds
  <2>3. CASE CloseReleases(t) \/ CloseWrites(t) \/ RetireUnregisters(t) \/ RetireReleases(t) \/ RetireWrites(t)
    <3>1. UNCHANGED <<fut, outcome, pc>>
      BY <2>3 DEF CloseReleases, CloseWrites, RetireUnregisters, RetireReleases, RetireWrites
    <3> QED BY <3>1, MarkersKept DEF MarkerInv
  <2> QED BY <2>1, <2>2, <2>3
<1>3. CASE MarkDraining
  BY <1>3, MarkersKept DEF MarkDraining, MarkerInv
<1>4. CASE CloseAll
  <2>1. fut' = [k \in Keys |-> None] /\ pc' = pc
    BY <1>4 DEF CloseAll
  <2>2. outcome' \in [Requests -> Outcomes]
    BY <1>4 DEF CloseAll, MarkerInv, Outcomes
  <2> QED BY <2>1, <2>2 DEF MarkerInv, MarkerOwned, MarkersDistinct
<1>5. ASSUME NEW k \in Keys, Elsewhere(k)
      PROVE  MarkerInv'
  <2>1. UNCHANGED <<fut, outcome, pc>>
    BY <1>5 DEF Elsewhere, RivalClaims, RivalLooks, RivalReleases, RivalDrains, LeaseExpires, Purge,
              OnlyRow, OnlyTable
  <2> QED BY <2>1, MarkersKept DEF MarkerInv
<1> QED BY <1>1, <1>2, <1>3, <1>4, <1>5 DEF Shutdown

LEMMA MarkersAlways == Spec => []MarkerInv
<1>1. Init => MarkerInv
  BY DEF Init, MarkerInv, MarkerOwned, MarkersDistinct, Outcomes, Places
<1>2. TypeInv /\ MarkerInv /\ [Next]_vars => MarkerInv'
  <2> SUFFICES ASSUME TypeInv, MarkerInv, [Next]_vars PROVE MarkerInv'
    OBVIOUS
  <2>1. CASE UNCHANGED vars
    BY <2>1, MarkersKept DEF vars, MarkerInv
  <2>2. ASSUME NEW r \in Requests, Arrive(r)
        PROVE  MarkerInv'
    <3>1. pc[r] \notin Behind /\ pc' = [pc EXCEPT ![r] = "enter"] /\ UNCHANGED <<fut, outcome>>
      BY <2>2 DEF Arrive, Behind, Creating
    <3> QED BY <3>1, OneMoves DEF Places
  <2>3. ASSUME NEW r \in Requests, RequestStep(r)
        PROVE  MarkerInv'
    BY <2>3, EnterMarkers, WaitMarkers, CreationMarkers, UseMarkers DEF RequestStep
  <2> QED BY <2>1, <2>2, <2>3, OtherMarkers DEF Next
<1> QED BY <1>1, <1>2, TypesAlways, PTL DEF Spec

(* Whatever times out, fails or is cancelled, of any number of requests,   *)
(* an in-flight marker belongs to a request that is still creating its     *)
(* session, or that was forwarded (get_or_create, its waits and error      *)
(* paths, and close_all).                                                  *)
THEOREM MarkersAlwaysOwned == Spec => []MarkerOwned
<1>1. MarkerInv => MarkerOwned
  BY DEF MarkerInv
<1> QED BY <1>1, MarkersAlways, PTL

-------------------------------------------------------------------------------
(* Capacity.  The invariant adds that the session of a registered key was  *)
(* made by a request that is past the registry.                            *)

Counted == {k \in Registered : outcome[reg[k]] # "none"}
Marked == {k \in Keys : fut[k] # None}

Past == Using \cup {"done"}
RegisteredPast == \A k \in Keys : reg[k] # None => pc[reg[k]] \in Past

LEMMA KeySetsFinite ==
  ASSUME NEW K \in SUBSET Keys
  PROVE  IsFiniteSet(K) /\ Cardinality(K) \in Nat
BY BridgeAssumption, FS_Subset, FS_CardinalityType

LEMMA CountedBound == CapacityBound <=> Cardinality(Counted) + Cardinality(Marked) <= MaxSessions
BY DEF CapacityBound, Counted, Marked, InFlight

(* A step that registers and marks nothing new.                            *)
LEMMA LessHeld ==
  ASSUME CapacityBound, Counted' \subseteq Counted, Marked' \subseteq Marked
  PROVE  CapacityBound'
<1>1. Counted \subseteq Keys /\ Marked \subseteq Keys
  BY DEF Counted, Marked, Registered
<1>2. Cardinality(Counted') <= Cardinality(Counted) /\ Cardinality(Marked') <= Cardinality(Marked)
  BY <1>1, KeySetsFinite, FS_Subset
<1>3. /\ Cardinality(Counted) \in Nat /\ Cardinality(Marked) \in Nat
      /\ Cardinality(Counted') \in Nat /\ Cardinality(Marked') \in Nat
  BY <1>1, KeySetsFinite
<1>4. Cardinality(Counted) + Cardinality(Marked) <= MaxSessions
  BY CountedBound
<1>5. Cardinality(Counted') + Cardinality(Marked') <= MaxSessions
  BY <1>2, <1>3, <1>4, BridgeAssumption
<1> QED BY <1>5 DEF CapacityBound, Counted, Marked, InFlight

HeldInv == CapacityBound /\ RegisteredPast

LEMMA Shrinks ==
  ASSUME TypeInv, TypeInv', HeldInv,
         \A k \in Keys : reg'[k] \in {reg[k], None} /\ fut'[k] \in {fut[k], None},
         \A q \in Requests : outcome'[q] # "none" => outcome[q] # "none",
         \A q \in Requests : pc[q] \in Past => pc'[q] \in Past
  PROVE  HeldInv'
<1>1. Counted' \subseteq Counted
  BY DEF Counted, Registered, TypeInv, TablesOK
<1>2. Marked' \subseteq Marked
  BY DEF Marked
<1>3. RegisteredPast'
  BY DEF RegisteredPast, HeldInv, TypeInv, TablesOK
<1> QED BY <1>1, <1>2, <1>3, LessHeld DEF HeldInv

LEMMA DetachShrinks ==
  ASSUME NEW K, NEW keep, NEW drop, Detach(K, keep, drop)
  PROVE  \A k \in Keys : reg'[k] \in {reg[k], None}
BY DEF Detach

LEMMA SettleShrinks ==
  ASSUME TypeInv, NEW f, NEW how, Settle(f, how)
  PROVE  /\ \A k \in Keys : fut'[k] \in {fut[k], None}
         /\ \A q \in Requests : outcome'[q] # "none" => outcome[q] # "none"
BY DEF Settle, TypeInv, TablesOK

LEMMA PublishHolds ==
  ASSUME TypeInv, TypeInv', HeldInv, NEW r \in Requests, pc[r] = "enter", NEW P \in Sweeps, EnterPublish(r, P)
  PROVE  HeldInv'
<1> DEFINE k == req[r].key
<1>1. k \in Keys /\ fut[k] = None /\ fut' = [fut EXCEPT ![k] = r] /\ outcome' = [outcome EXCEPT ![r] = "pending"]
  BY DEF EnterPublish, TypeInv, RequestsOK, Keyed, Early
<1>2. PICK K : /\ Held(K) < MaxSessions
               /\ \E keep : Detach(K, keep, {})
  BY DEF EnterPublish
<1> HIDE DEF k
<1>3. Counted' \subseteq Registered \ K
  BY <1>2 DEF Counted, Registered, Detach
<1>4. Marked' = Marked \cup {k} /\ k \notin Marked
  BY <1>1, NoneIsNoRequest DEF Marked, TypeInv, TablesOK
<1>5. Marked \subseteq Keys /\ Registered \ K \subseteq Keys /\ Counted' \subseteq Keys
  BY <1>3 DEF Marked, Registered
<1>6. Cardinality(Marked') = Cardinality(Marked) + 1
  BY <1>4, <1>5, KeySetsFinite, FS_AddElement
<1>7. Cardinality(Counted') <= Cardinality(Registered \ K)
  BY <1>3, <1>5, KeySetsFinite, FS_Subset
<1>8. Cardinality(Marked) \in Nat /\ Cardinality(Registered \ K) \in Nat /\ Cardinality(Counted') \in Nat
  BY <1>5, KeySetsFinite
<1>9. Cardinality(Registered \ K) + Cardinality(Marked) < MaxSessions
  BY <1>2 DEF Held, InFlight, Marked
<1>10. Cardinality(Counted') + Cardinality(Marked') <= MaxSessions
  BY <1>6, <1>7, <1>8, <1>9, BridgeAssumption
<1>11. CapacityBound'
  BY <1>10 DEF CapacityBound, Counted, Marked, InFlight
<1>12. RegisteredPast'
  <2>1. \A j \in Keys : reg'[j] \in {reg[j], None}
    BY <1>2, DetachShrinks
  <2>2. \A q \in Requests : pc[q] \in Past => pc'[q] = pc[q]
    BY DEF EnterPublish, Past, Using, TypeInv, RequestsOK
  <2> QED BY <2>1, <2>2 DEF RegisteredPast, HeldInv, TypeInv, TablesOK
<1> QED BY <1>11, <1>12 DEF HeldInv

LEMMA RegisterHolds ==
  ASSUME TypeInv, TypeInv', HeldInv, NEW r \in Requests, Register(r)
  PROVE  HeldInv'
<1> DEFINE k == req[r].key
<1>1. /\ k \in Keys
      /\ fut[k] = (IF outcome[r] = "none" THEN None ELSE r)
      /\ reg' = [reg EXCEPT ![k] = r] /\ fut' = [fut EXCEPT ![k] = None]
      /\ outcome' = IF outcome[r] = "pending" THEN [outcome EXCEPT ![r] = "session"] ELSE outcome
      /\ pc' = [pc EXCEPT ![r] = "submit"] /\ pc[r] = "register"
  BY DEF Register, MarkerStands, TypeInv, RequestsOK, Keyed, Early, Creating
<1> HIDE DEF k
<1>2. RegisteredPast'
  BY <1>1 DEF RegisteredPast, HeldInv, Past, Using, TypeInv, TablesOK, RequestsOK
<1>3. \A q \in Requests : outcome'[q] # "none" <=> outcome[q] # "none"
  BY <1>1 DEF TypeInv, TablesOK
<1>4. CASE outcome[r] = "none"
  <2>1. Counted' \subseteq Counted /\ Marked' \subseteq Marked
    BY <1>1, <1>3, <1>4 DEF Counted, Marked, Registered, TypeInv, TablesOK
  <2> QED BY <1>2, <2>1, LessHeld DEF HeldInv
<1>5. CASE outcome[r] # "none"
  <2>1. Counted' \subseteq Counted \cup {k}
    BY <1>1, <1>3 DEF Counted, Registered, TypeInv, TablesOK
  <2>2. Marked' = Marked \ {k} /\ k \in Marked
    BY <1>1, <1>5, NoneIsNoRequest DEF Marked, TypeInv, TablesOK
  <2>3. Counted \subseteq Keys /\ Marked \subseteq Keys /\ Counted' \subseteq Keys /\ Counted \cup {k} \subseteq Keys
    BY <1>1, <2>1 DEF Counted, Marked, Registered
  <2>4. Cardinality(Counted \cup {k}) <= Cardinality(Counted) + 1
    BY <2>3, KeySetsFinite, FS_AddElement
  <2>5. Cardinality(Counted') <= Cardinality(Counted \cup {k})
    BY <2>1, <2>3, KeySetsFinite, FS_Subset
  <2>6. Cardinality(Marked') = Cardinality(Marked) - 1
    BY <2>2, <2>3, KeySetsFinite, FS_RemoveElement
  <2>7. /\ Cardinality(Counted) \in Nat /\ Cardinality(Marked) \in Nat
        /\ Cardinality(Counted') \in Nat /\ Cardinality(Counted \cup {k}) \in Nat
    BY <2>3, KeySetsFinite
  <2>8. Cardinality(Counted) + Cardinality(Marked) <= MaxSessions
    BY CountedBound DEF HeldInv
  <2>9. Cardinality(Counted') + Cardinality(Marked') <= MaxSessions
    BY <2>4, <2>5, <2>6, <2>7, <2>8, BridgeAssumption
  <2> QED BY <1>2, <2>9 DEF HeldInv, CapacityBound, Counted, Marked, InFlight
<1> QED BY <1>4, <1>5

LEMMA RequestHolds ==
  ASSUME TypeInv, TypeInv', HeldInv, NEW r \in Requests, Arrive(r) \/ RequestStep(r)
  PROVE  HeldInv'
<1>1. CASE Enter(r)
  <2>1. PICK P \in Sweeps :
          \/ EnterReuse(r, P) \/ EnterRefused(r, P) \/ EnterJoin(r, P)
          \/ EnterAliasMiss(r, P) \/ EnterPublish(r, P) \/ EnterFull(r, P)
    BY <1>1 DEF Enter
  <2>2. pc[r] = "enter"
    BY <1>1 DEF Enter
  <2>3. CASE EnterPublish(r, P)
    BY <2>2, <2>3, PublishHolds
  <2>4. CASE ~EnterPublish(r, P)
    <3>1. UNCHANGED <<fut, outcome>>
      BY <2>1, <2>4 DEF EnterReuse, EnterRefused, EnterJoin, EnterAliasMiss, EnterFull
    <3>2. \A k \in Keys : reg'[k] \in {reg[k], None}
      <4>1. CASE EnterReuse(r, P)
        BY <4>1 DEF EnterReuse
      <4>2. CASE ~EnterReuse(r, P)
        BY <2>1, <2>4, <4>2, DetachShrinks DEF EnterRefused, EnterJoin, EnterAliasMiss, EnterFull
      <4> QED BY <4>1, <4>2
    <3>3. \A q \in Requests \ {r} : pc'[q] = pc[q]
      BY <2>1, <2>4 DEF EnterReuse, EnterRefused, EnterJoin, EnterAliasMiss, EnterFull, Ends, TypeInv, RequestsOK
    <3>4. \A q \in Requests : pc[q] \in Past => pc'[q] \in Past
      BY <2>2, <3>3 DEF Past, Using
    <3> QED BY <3>1, <3>2, <3>4, Shrinks
  <2> QED BY <2>3, <2>4
<1>2. CASE Register(r)
  BY <1>2, RegisterHolds
<1>3. CASE JoinSession(r) \/ WakeAgain(r) \/ WakeFailed(r) \/ WaitTimeout(r)
  <2>1. pc[r] \in Waiting /\ \A q \in Requests \ {r} : pc'[q] = pc[q]
    BY <1>3 DEF JoinSession, WakeAgain, WakeFailed, WaitTimeout, Again, Ends, Waiting, TypeInv, RequestsOK
  <2>2. \A q \in Requests : pc[q] \in Past => pc'[q] \in Past
    BY <2>1 DEF Past, Using, Waiting
  <2>3. \A k \in Keys : reg'[k] \in {reg[k], None}
    BY <1>3, DetachShrinks DEF JoinSession, WakeAgain, WakeFailed, WaitTimeout
  <2>4. UNCHANGED <<fut, outcome>> \/ Settle(req[r].wait, "failed")
    BY <1>3 DEF JoinSession, WakeAgain, WakeFailed, WaitTimeout
  <2> QED BY <2>2, <2>3, <2>4, Shrinks, SettleShrinks
<1>4. CASE CreateFails(r) \/ Claim(r) \/ ClaimCancelled(r) \/ ClaimFails(r) \/ RegisterFails(r)
  <2>1. pc[r] \in Creating /\ \A q \in Requests \ {r} : pc'[q] = pc[q]
    BY <1>4 DEF CreateFails, Claim, ClaimCancelled, ClaimFails, RegisterFails, CreationFails, Ends,
                Creating, TypeInv, RequestsOK
  <2>2. \A q \in Requests : pc[q] \in Past => pc'[q] \in Past
    BY <2>1 DEF Past, Using, Creating
  <2>3. reg' = reg
    BY <1>4 DEF CreateFails, Claim, ClaimCancelled, ClaimFails, RegisterFails
  <2>4. UNCHANGED <<fut, outcome>> \/ \E how : Settle(r, how)
    BY <1>4 DEF CreateFails, Claim, ClaimCancelled, ClaimFails, RegisterFails, CreationFails
  <2> QED BY <2>2, <2>3, <2>4, Shrinks, SettleShrinks
<1>5. CASE Arrive(r)
  <2>1. UNCHANGED <<reg, fut, outcome>> /\ pc[r] = "idle" /\ \A q \in Requests \ {r} : pc'[q] = pc[q]
    BY <1>5 DEF Arrive, TypeInv, RequestsOK
  <2>2. \A q \in Requests : pc[q] \in Past => pc'[q] \in Past
    BY <2>1 DEF Past, Using
  <2> QED BY <2>1, <2>2, Shrinks
<1>6. CASE SubmitClosed(r) \/ Reconnect(r) \/ Queue(r) \/ Enqueue(r) \/ GateFails(r) \/ Resend(r)
           \/ ClientLeaves(r) \/ FirstEventTimeout(r) \/ AbandonedAfterSubmit(r) \/ Cancelled(r)
  <2>1. UNCHANGED <<reg, fut, outcome>>
    BY <1>6 DEF SubmitClosed, Reconnect, Queue, Enqueue, GateFails, Resend, ClientLeaves,
                FirstEventTimeout, AbandonedAfterSubmit, Cancelled
  <2>2. PICK where \in Past : pc' = [pc EXCEPT ![r] = where]
    <3>1. CASE SubmitClosed(r) \/ Reconnect(r) \/ Queue(r)
      BY <3>1 DEF SubmitClosed, Reconnect, Queue, GoOn, Ends, Past, Using
    <3>2. CASE Enqueue(r) \/ GateFails(r) \/ Resend(r)
      BY <3>2 DEF Enqueue, GateFails, Resend, GoOn, Ends, Past, Using
    <3>3. CASE ClientLeaves(r) \/ FirstEventTimeout(r) \/ AbandonedAfterSubmit(r) \/ Cancelled(r)
      BY <3>3 DEF ClientLeaves, FirstEventTimeout, AbandonedAfterSubmit, Cancelled, Ends, Past
    <3> QED BY <1>6, <3>1, <3>2, <3>3
  <2>3. \A q \in Requests : pc[q] \in Past => pc'[q] \in Past
    BY <2>2 DEF TypeInv, RequestsOK
  <2> QED BY <2>1, <2>3, Shrinks
<1> QED BY <1>1, <1>2, <1>3, <1>4, <1>5, <1>6 DEF RequestStep

LEMMA OtherHolds ==
  ASSUME TypeInv, TypeInv', HeldInv,
         \/ \E s \in Requests : UpstreamLost(s) \/ Cleanup(s) \/ \E r \in Requests : Terminal(s, r)
         \/ Shutdown
         \/ \E k \in Keys : Elsewhere(k)
  PROVE  HeldInv'
<1>1. ASSUME UNCHANGED <<reg, fut, outcome>>, (\E R : EndAll(R)) \/ pc' = pc
      PROVE  HeldInv'
  <2>1. \A q \in Requests : pc[q] \in Past => pc'[q] \in Past
    BY <1>1 DEF EndAll, Past
  <2> QED BY <1>1, <2>1, Shrinks
<1>2. ASSUME NEW s \in Requests, UpstreamLost(s) \/ \E r \in Requests : Terminal(s, r)
      PROVE  HeldInv'
  BY <1>1, <1>2 DEF UpstreamLost, Terminal
<1>3. ASSUME NEW s \in Requests, Cleanup(s)
      PROVE  HeldInv'
  <2>1. PICK t : (CloseReleases(t) \/ CloseWrites(t) \/ CloseEnds(t) \/ RetireUnregisters(t) \/ RetireReleases(t)
                            \/ RetireWrites(t))
    BY <1>3 DEF Cleanup
  <2>2. CASE RetireUnregisters(t)
    <3>1. UNCHANGED <<fut, outcome, pc>> /\ \A k \in Keys : reg'[k] \in {reg[k], None}
      BY <2>2 DEF RetireUnregisters, TypeInv, TablesOK
    <3> QED BY <3>1, Shrinks
  <2>3. CASE CloseReleases(t) \/ CloseWrites(t) \/ CloseEnds(t) \/ RetireReleases(t) \/ RetireWrites(t)
    BY <1>1, <2>3 DEF CloseReleases, CloseWrites, CloseEnds, RetireReleases, RetireWrites
  <2> QED BY <2>1, <2>2, <2>3
<1>4. CASE MarkDraining
  BY <1>1, <1>4 DEF MarkDraining
<1>5. CASE CloseAll
  <2>1. pc' = pc /\ \A k \in Keys : reg'[k] = None /\ fut'[k] = None
    BY <1>5 DEF CloseAll
  <2>2. \A q \in Requests : outcome'[q] # "none" => outcome[q] # "none"
    BY <1>5 DEF CloseAll
  <2> QED BY <2>1, <2>2, Shrinks
<1>6. ASSUME NEW k \in Keys, Elsewhere(k)
      PROVE  HeldInv'
  BY <1>1, <1>6 DEF Elsewhere, RivalClaims, RivalLooks, RivalReleases, RivalDrains, LeaseExpires, Purge,
              OnlyRow, OnlyTable
<1> QED BY <1>2, <1>3, <1>4, <1>5, <1>6 DEF Shutdown

LEMMA HeldAlways == Spec => []HeldInv
<1>1. Init => HeldInv
  <2> SUFFICES ASSUME Init PROVE HeldInv
    OBVIOUS
  <2>1. Counted = {} /\ Marked = {}
    BY DEF Init, Counted, Marked, Registered
  <2>2. CapacityBound
    BY <2>1, CountedBound, FS_EmptySet, BridgeAssumption
  <2> QED BY <2>2 DEF Init, HeldInv, RegisteredPast
<1>2. TypeInv /\ TypeInv' /\ HeldInv /\ [Next]_vars => HeldInv'
  <2> SUFFICES ASSUME TypeInv, TypeInv', HeldInv, [Next]_vars PROVE HeldInv'
    OBVIOUS
  <2>1. CASE UNCHANGED vars
    BY <2>1, Shrinks DEF vars
  <2> QED BY <2>1, RequestHolds, OtherHolds DEF Next
<1> QED BY <1>1, <1>2, TypesAlways, PTL DEF Spec

(* Registered sessions and creations in flight never exceed max_sessions,  *)
(* for any number of keys and requests and through every eviction,         *)
(* time-out and late registration (the capacity check of get_or_create).   *)
THEOREM CapacityAlwaysBounded == Spec => []CapacityBound
<1>1. HeldInv => CapacityBound
  BY DEF HeldInv
<1> QED BY <1>1, HeldAlways, PTL

-------------------------------------------------------------------------------
(* Leases.  First, what a session may be asked for where its creator is:   *)
(* until the creator is past the registry nobody uses the session, closes  *)
(* it or has an entry in it, and a registered session has the key it is    *)
(* registered under.                                                       *)

Unready == Early \cup {"idle"}
AfterGate == {"resend", "streaming", "done"}
Closing(s) == \E t \in tasks : t.ses = s /\ t.kind = "close"

KeyInv == \A k \in Keys : reg[k] # None => ses[reg[k]].key = k
HandedInv == \A s \in Requests : outcome[s] = "session" => ses[s].key \in Keys /\ pc[s] \notin Unready
UsedInv == \A r \in Requests :
  /\ pc[r] \in Using => ses[req[r].ses].key \in Keys /\ pc[req[r].ses] \notin Unready
  /\ pc[r] = "register" => ses[r].key = req[r].key
PendingInv == \A s \in Requests : \A r \in ses[s].pending : pc[r] \in AfterGate
FreshInv == \A s \in Requests : pc[s] \in Unready =>
  ses[s].queued = 0 /\ ses[s].pending = {} /\ ses[s].hidden = {} /\ ~Closing(s)

UseInv == KeyInv /\ HandedInv /\ UsedInv /\ PendingInv /\ FreshInv

(* How requests move: none comes back to where it is fresh or before the   *)
(* gate, and one that gets a session gets one that is past the registry.   *)
Walks ==
  \A q \in Requests :
    /\ pc'[q] \in Unready => pc[q] \in Unready
    /\ pc[q] \in AfterGate => pc'[q] \in AfterGate
    /\ pc'[q] \in Using => \/ pc[q] \in Using /\ req'[q].ses = req[q].ses
                           \/ ses[req'[q].ses].key \in Keys /\ pc[req'[q].ses] \notin Unready /\ req'[q].ses # q
                           \/ req'[q].ses = q /\ pc[q] = "register"
    /\ pc'[q] = "register" => \/ pc[q] = "register" /\ req'[q].key = req[q].key
                              \/ pc[q] = "create" /\ ses'[q].key = req'[q].key

(* How sessions change: the key is set when the session is made, requests  *)
(* enter it after the gate, and what is closed is past the registry.       *)
Changes ==
  \A s \in Requests :
    /\ ses'[s].key = ses[s].key \/ pc[s] = "create"
    /\ \A q \in ses'[s].pending : q \in ses[s].pending \/ pc'[q] \in AfterGate
    /\ pc'[s] \in Unready =>
         /\ ses'[s].queued = 0 /\ ses'[s].pending = {} /\ ses'[s].hidden = {}
         /\ Closing(s)' => Closing(s)

LEMMA UseKept ==
  ASSUME TypeInv, TypeInv', HeldInv, UseInv, Walks, Changes,
         \A k \in Keys : reg'[k] \in {reg[k], None} \/ (pc[reg'[k]] = "register" /\ req[reg'[k]].key = k),
         \A s \in Requests : outcome'[s] = "session" => outcome[s] = "session" \/ (pc[s] = "register" /\ pc'[s] \notin Unready)
  PROVE  UseInv'
<1>1. KeyInv'
  <2> SUFFICES ASSUME NEW k \in Keys, reg'[k] # None PROVE ses'[reg'[k]].key = k
    BY DEF KeyInv
  <2>1. reg'[k] \in Requests
    BY DEF TypeInv, TablesOK
  <2>2. CASE reg'[k] = reg[k]
    <3>1. pc[reg[k]] # "create"
      BY <2>1, <2>2, NoneIsNoRequest DEF HeldInv, RegisteredPast, Past, Using
    <3> QED BY <2>1, <2>2, <3>1 DEF Changes, UseInv, KeyInv
  <2>3. CASE pc[reg'[k]] = "register" /\ req[reg'[k]].key = k
    BY <2>1, <2>3 DEF Changes, UseInv, UsedInv
  <2> QED BY <2>2, <2>3
<1>2. HandedInv'
  <2> SUFFICES ASSUME NEW s \in Requests, outcome'[s] = "session"
               PROVE  ses'[s].key \in Keys /\ pc'[s] \notin Unready
    BY DEF HandedInv
  <2>1. CASE outcome[s] = "session"
    BY <2>1 DEF UseInv, HandedInv, Walks, Changes, Unready, Early, Creating
  <2>2. CASE pc[s] = "register" /\ pc'[s] \notin Unready
    <3>1. ses[s].key = req[s].key /\ req[s].key \in Keys
      BY <2>2 DEF UseInv, UsedInv, TypeInv, RequestsOK, Keyed, Early, Creating
    <3> QED BY <2>2, <3>1 DEF Changes
  <2> QED BY <2>1, <2>2
<1>3. UsedInv'
  <2> SUFFICES ASSUME NEW r \in Requests
               PROVE  /\ pc'[r] \in Using => ses'[req'[r].ses].key \in Keys /\ pc'[req'[r].ses] \notin Unready
                      /\ pc'[r] = "register" => ses'[r].key = req'[r].key
    BY DEF UsedInv
  <2>1. ASSUME pc'[r] \in Using
        PROVE  ses'[req'[r].ses].key \in Keys /\ pc'[req'[r].ses] \notin Unready
    <3>1. req'[r].ses \in Requests
      BY <2>1 DEF TypeInv, RequestsOK, Keyed
    <3>2. CASE req'[r].ses = r /\ pc[r] = "register"
      <4>1. ses[r].key = req[r].key /\ req[r].key \in Keys
        BY <3>2 DEF UseInv, UsedInv, TypeInv, RequestsOK, Keyed, Early, Creating
      <4>2. pc'[r] \notin Unready
        BY <2>1 DEF Unready, Early, Waiting, Creating, Using
      <4> QED BY <3>2, <4>1, <4>2 DEF Changes
    <3>3. CASE ses[req'[r].ses].key \in Keys /\ pc[req'[r].ses] \notin Unready
      BY <3>1, <3>3 DEF Walks, Changes, Unready, Early, Creating
    <3> QED BY <2>1, <3>2, <3>3 DEF Walks, UseInv, UsedInv
  <2>2. ASSUME pc'[r] = "register"
        PROVE  ses'[r].key = req'[r].key
    BY <2>2 DEF Walks, Changes, UseInv, UsedInv
  <2> QED BY <2>1, <2>2
<1>4. PendingInv'
  <2> SUFFICES ASSUME NEW s \in Requests, NEW q \in ses'[s].pending PROVE pc'[q] \in AfterGate
    BY DEF PendingInv
  <2>1. q \in Requests
    BY DEF TypeInv, SessionsOK, SessionSet
  <2> QED BY <2>1 DEF Changes, Walks, UseInv, PendingInv
<1>5. FreshInv'
  <2> SUFFICES ASSUME NEW s \in Requests, pc'[s] \in Unready
               PROVE  /\ ses'[s].queued = 0 /\ ses'[s].pending = {} /\ ses'[s].hidden = {}
                      /\ ~Closing(s)'
    BY DEF FreshInv
  <2>1. pc[s] \in Unready /\ ~Closing(s)
    BY DEF Walks, UseInv, FreshInv
  <2> QED BY <2>1 DEF Changes
<1> QED BY <1>1, <1>2, <1>3, <1>4, <1>5 DEF UseInv
-------------------------------------------------------------------------------
LEMMA WalkOne ==
  ASSUME TypeInv, NEW r \in Requests, NEW w, pc' = [pc EXCEPT ![r] = w],
         \A q \in Requests \ {r} : req'[q] = req[q],
         w \in Unready => pc[r] \in Unready,
         pc[r] \in AfterGate => w \in AfterGate,
         w \in Using => \/ pc[r] \in Using /\ req'[r].ses = req[r].ses
                        \/ ses[req'[r].ses].key \in Keys /\ pc[req'[r].ses] \notin Unready /\ req'[r].ses # r
                        \/ req'[r].ses = r /\ pc[r] = "register",
         w = "register" => pc[r] = "create" /\ ses'[r].key = req'[r].key
  PROVE  Walks
BY DEF Walks, TypeInv, RequestsOK

LEMMA WalkEnds ==
  ASSUME TypeInv, NEW r \in Requests, Ends(r) 
  PROVE  Walks
<1>1. pc' = [pc EXCEPT ![r] = "done"] /\ \A q \in Requests \ {r} : req'[q] = req[q]
  BY DEF Ends, TypeInv, RequestsOK
<1>2. "done" \notin Unready /\ "done" \in AfterGate /\ "done" \notin Using
  BY DEF Unready, Early, Waiting, Creating, AfterGate, Using
<1> QED BY <1>1, <1>2, WalkOne

LEMMA WalkGoOn ==
  ASSUME TypeInv, NEW r \in Requests, NEW w \in Using, GoOn(r, w), pc[r] \in Using,
         pc[r] \in AfterGate => w \in AfterGate
  PROVE  Walks
<1>1. pc' = [pc EXCEPT ![r] = w] /\ req' = req
  BY DEF GoOn
<1>2. w \notin Unready /\ w # "register"
  BY DEF Unready, Early, Waiting, Creating, AfterGate, Using
<1> QED BY <1>1, <1>2, WalkOne

LEMMA WalkEndAll ==
  ASSUME TypeInv, (\E R : EndAll(R)) \/ UNCHANGED <<pc, req>>
  PROVE  Walks
<1>1. \A q \in Requests : \/ pc'[q] = pc[q] /\ req'[q] = req[q]
                          \/ pc[q] = "streaming" /\ pc'[q] = "done"
  BY DEF EndAll, TypeInv, RequestsOK
<1>2. "done" \notin Unready /\ "done" \in AfterGate /\ "done" \notin Using
  BY DEF Unready, Early, Waiting, Creating, AfterGate, Using
<1> QED BY <1>1, <1>2 DEF Walks

(* Sessions keep their keys and entries, and what starts to be closed is   *)
(* past the registry.                                                      *)
LEMMA ChangeLight ==
  ASSUME TypeInv, UseInv, Walks,
         \A s \in Requests : /\ ses'[s].key = ses[s].key /\ ses'[s].queued = ses[s].queued
                             /\ ses'[s].pending = ses[s].pending /\ ses'[s].hidden = ses[s].hidden,
         \A t \in tasks' : t \in tasks \/ t.kind # "close" \/ pc'[t.ses] \notin Unready
  PROVE  Changes
<1>1. \A s \in Requests : pc'[s] \in Unready => 
        ses[s].queued = 0 /\ ses[s].pending = {} /\ ses[s].hidden = {} 
  BY DEF Walks, UseInv, FreshInv
<1>2. \A s \in Requests : pc'[s] \in Unready => (Closing(s)' => Closing(s))
  BY DEF Closing
<1> QED BY <1>1, <1>2 DEF Changes

(* One session, which is past the registry, changes.                       *)
LEMMA ChangeOne ==
  ASSUME TypeInv, UseInv, Walks, NEW s \in Requests, pc'[s] \notin Unready,
         \A x \in Requests \ {s} : ses'[x] = ses[x],
         ses'[s].key = ses[s].key \/ pc[s] = "create",
         \A q \in ses'[s].pending : q \in ses[s].pending \/ pc'[q] \in AfterGate,
         \A t \in tasks' : t \in tasks \/ t.ses = s
  PROVE  Changes
<1>1. \A x \in Requests : pc'[x] \in Unready => 
        ses[x].queued = 0 /\ ses[x].pending = {} /\ ses[x].hidden = {} 
  BY DEF Walks, UseInv, FreshInv
<1>2. \A x \in Requests : pc'[x] \in Unready => (Closing(x)' => Closing(x))
  BY DEF Closing
<1> QED BY <1>1, <1>2 DEF Changes

LEMMA DetachLight ==
  ASSUME TypeInv, HeldInv, NEW K \in SUBSET Keys, NEW keep, NEW drop, Detach(K, keep, drop)
  PROVE  /\ \A s \in Requests : /\ ses'[s].key = ses[s].key /\ ses'[s].queued = ses[s].queued
                                /\ ses'[s].pending = ses[s].pending /\ ses'[s].hidden = ses[s].hidden
                                /\ ses'[s].lease = ses[s].lease
         /\ \A t \in tasks' : t \in tasks \/ (t.ses \in Requests /\ pc[t.ses] \in Past)
         /\ \A k \in Keys : reg'[k] \in {reg[k], None}
<1> DEFINE lost == {reg[k] : k \in drop}
<1>1. ASSUME NEW s \in Requests
      PROVE  /\ ses'[s].key = ses[s].key /\ ses'[s].queued = ses[s].queued
             /\ ses'[s].pending = ses[s].pending /\ ses'[s].hidden = ses[s].hidden
             /\ ses'[s].lease = ses[s].lease
  <2>1. PICK x \in SessionSet : x = ses[s]
    BY DEF TypeInv, SessionsOK
  <2>2. \/ ses'[s] = [x EXCEPT !.closed = TRUE, !.stray = @ \/ s \in lost]
        \/ ses'[s] = [x EXCEPT !.retire = TRUE]
        \/ ses'[s] = x
    BY <2>1 DEF Detach
  <2> QED BY <2>1, <2>2 DEF SessionSet
<1>2. ASSUME NEW t \in tasks', t \notin tasks
      PROVE  t.ses \in Requests /\ pc[t.ses] \in Past
  <2>1. PICK k \in K : reg[k] # None /\ t = Start(reg[k], None, "close")
    BY <1>2 DEF Detach
  <2>2. t.ses = reg[k]
    BY <2>1 DEF Start
  <2> QED BY <2>1, <2>2 DEF HeldInv, RegisteredPast, TypeInv, TablesOK
<1>3. \A k \in Keys : reg'[k] \in {reg[k], None}
  BY DetachShrinks
<1> QED BY <1>1, <1>2, <1>3
-------------------------------------------------------------------------------
LEMMA KeptVisible ==
  ASSUME NEW k, NEW P, NEW keep \in Kept(k, P)
  PROVE  keep \subseteq {k} /\ \A j \in keep : reg[j] # None /\ Visible(reg[j])
<1>1. keep = {} \/ (keep = {k} /\ reg[k] # None /\ KeepsServing(reg[k]))
  BY DEF Kept
<1>2. KeepsServing(reg[k]) => Visible(reg[k])
  BY DEF KeepsServing, Visible
<1> QED BY <1>1, <1>2

(* The sessions a pass through the locked section detaches, and how.       *)
LEMMA EnterKeeps ==
  ASSUME TypeInv, NEW r \in Requests, pc[r] = "enter", NEW P \in Sweeps,
         \/ EnterRefused(r, P) \/ EnterJoin(r, P) \/ EnterAliasMiss(r, P)
         \/ EnterPublish(r, P) \/ EnterFull(r, P)
  PROVE  \E K \in SUBSET Keys : \E keep \in SUBSET K : \E drop :
           /\ Detach(K, keep, drop)
           /\ \A k \in keep : reg[k] # None /\ Visible(reg[k])
<1> DEFINE k == req[r].key
<1>1. k \in Keys
  BY DEF TypeInv, RequestsOK, Keyed, Early
<1>2. P \subseteq Keys /\ P \cup {k} \subseteq Keys
  BY <1>1, SweepsTyped
<1>3. \A E \in Evictions(P \cup {k}) : P \cup {k} \cup E \subseteq Keys
  BY <1>2 DEF Evictions, Registered
<1> HIDE DEF k
<1>4. ASSUME NEW K \in SUBSET Keys, NEW keep \in Kept(k, P), keep \subseteq K, NEW drop, Detach(K, keep, drop)
      PROVE  \E L \in SUBSET Keys : \E hold \in SUBSET L : \E d :
               /\ Detach(L, hold, d)
               /\ \A j \in hold : reg[j] # None /\ Visible(reg[j])
  BY <1>4, KeptVisible
<1>5. ASSUME NEW keep \in Kept(k, P)
      PROVE  keep \subseteq {k}
  BY KeptVisible
<1>6. CASE EnterRefused(r, P)
  <2>1. PICK K \in {P, P \cup {k}}, keep \in Kept(k, P) : keep \subseteq K /\ Detach(K, keep, {})
    BY <1>6 DEF EnterRefused, k
  <2>2. K \in SUBSET Keys
    BY <1>2, <2>1
  <2> QED BY <1>4, <2>1, <2>2
<1>7. CASE EnterJoin(r, P) \/ EnterAliasMiss(r, P)
  <2>1. PICK keep \in Kept(k, P) : Detach(P \cup {k}, keep, {})
    BY <1>7 DEF EnterJoin, EnterAliasMiss, k
  <2>2. P \cup {k} \in SUBSET Keys /\ keep \subseteq P \cup {k}
    BY <1>2, <1>5
  <2> QED BY <1>4, <2>1, <2>2
<1>8. CASE EnterPublish(r, P) \/ EnterFull(r, P)
  <2>1. PICK keep \in Kept(k, P), E \in Evictions(P \cup {k}) :
          \E drop : Detach(P \cup {k} \cup E, keep, drop)
    BY <1>8 DEF EnterPublish, EnterFull, k
  <2>2. P \cup {k} \cup E \in SUBSET Keys /\ keep \subseteq P \cup {k} \cup E
    BY <1>3, <1>5
  <2> QED BY <1>4, <2>1, <2>2
<1> QED BY <1>6, <1>7, <1>8

LEMMA EnterMoves ==
  ASSUME TypeInv, NEW r \in Requests, pc[r] = "enter", NEW P \in Sweeps,
         \/ EnterRefused(r, P) \/ EnterJoin(r, P) \/ EnterAliasMiss(r, P)
         \/ EnterPublish(r, P) \/ EnterFull(r, P)
  PROVE  /\ \E w \in {"done", "forwarded", "create"} \cup Waiting : pc' = [pc EXCEPT ![r] = w]
         /\ \A q \in Requests \ {r} : req'[q] = req[q]
<1>1. CASE EnterRefused(r, P)
  BY <1>1 DEF EnterRefused, Ends, TypeInv, RequestsOK
<1>2. CASE EnterJoin(r, P)
  BY <1>2 DEF EnterJoin, Waiting, TypeInv, RequestsOK
<1>3. CASE EnterAliasMiss(r, P)
  BY <1>3 DEF EnterAliasMiss, TypeInv, RequestsOK
<1>4. CASE EnterPublish(r, P)
  BY <1>4 DEF EnterPublish, TypeInv, RequestsOK
<1>5. CASE EnterFull(r, P)
  BY <1>5 DEF EnterFull, Ends, Waiting, TypeInv, RequestsOK
<1> QED BY <1>1, <1>2, <1>3, <1>4, <1>5

LEMMA PastIsReady == Past \cap Unready = {} /\ Using \subseteq Past /\ AfterGate \cap Unready = {}
BY DEF Past, Using, Unready, Early, Waiting, Creating, AfterGate

(* A reuse in parts.                                                       *)
LEMMA ReuseLight ==
  ASSUME TypeInv, HeldInv, NEW r \in Requests, pc[r] = "enter", NEW P \in Sweeps, EnterReuse(r, P)
  PROVE  /\ \A s \in Requests : /\ ses'[s].key = ses[s].key /\ ses'[s].queued = ses[s].queued
                                /\ ses'[s].pending = ses[s].pending /\ ses'[s].hidden = ses[s].hidden
                                /\ ses'[s].lease = ses[s].lease /\ ses'[s].retire = ses[s].retire
                                /\ ses'[s].stray = ses[s].stray
         /\ \A k \in Keys : reg'[k] = IF k \in P THEN None ELSE reg[k]
         /\ tasks' = tasks \cup {Start(x, None, "close") : x \in {reg[k] : k \in P}}
         /\ \A t \in tasks' : t \in tasks \/ (t.ses \in Requests /\ pc[t.ses] \in Past)
<1>1. ASSUME NEW s \in Requests
      PROVE  /\ ses'[s].key = ses[s].key /\ ses'[s].queued = ses[s].queued
             /\ ses'[s].pending = ses[s].pending /\ ses'[s].hidden = ses[s].hidden
             /\ ses'[s].lease = ses[s].lease /\ ses'[s].retire = ses[s].retire
             /\ ses'[s].stray = ses[s].stray
  <2>1. PICK x \in SessionSet : x = ses[s]
    BY DEF TypeInv, SessionsOK
  <2>2. \/ ses'[s] = [x EXCEPT !.closed = TRUE]
        \/ ses'[s] = [x EXCEPT !.handle = Handle(req[r].key, row[req[r].key])]
        \/ ses'[s] = x
    BY <2>1 DEF EnterReuse
  <2> QED BY <2>1, <2>2 DEF SessionSet
<1>2. /\ \A k \in Keys : reg'[k] = IF k \in P THEN None ELSE reg[k]
      /\ tasks' = tasks \cup {Start(x, None, "close") : x \in {reg[k] : k \in P}}
  BY DEF EnterReuse
<1>3. ASSUME NEW t \in tasks', t \notin tasks
      PROVE  t.ses \in Requests /\ pc[t.ses] \in Past
  <2>1. PICK k \in P : t = Start(reg[k], None, "close")
    BY <1>2, <1>3
  <2>2. t.ses = reg[k]
    BY <2>1 DEF Start
  <2>3. k \in Keys /\ reg[k] # None
    BY SweepsTyped DEF Registered
  <2> QED BY <2>2, <2>3 DEF HeldInv, RegisteredPast, TypeInv, TablesOK
<1> QED BY <1>1, <1>2, <1>3

LEMMA EnterUse ==
  ASSUME TypeInv, TypeInv', HeldInv, UseInv, NEW r \in Requests, Enter(r)
  PROVE  UseInv'
<1>1. PICK P \in Sweeps : 
        \/ EnterReuse(r, P) \/ EnterRefused(r, P) \/ EnterJoin(r, P)
        \/ EnterAliasMiss(r, P) \/ EnterPublish(r, P) \/ EnterFull(r, P)
  BY DEF Enter
<1>2. pc[r] = "enter" /\ pc[r] \in Unready /\ pc[r] \notin AfterGate
  BY DEF Enter, Unready, Early, AfterGate
<1>3. CASE ~EnterReuse(r, P)
  <2>1. PICK w \in {"done", "forwarded", "create"} \cup Waiting : pc' = [pc EXCEPT ![r] = w]
    BY <1>1, <1>2, <1>3, EnterMoves
  <2>2. w \notin Using /\ w # "register"
    BY DEF Using, Waiting
  <2>3. Walks
    BY <1>1, <1>2, <1>3, <2>1, <2>2, EnterMoves, WalkOne
  <2>4. PICK K \in SUBSET Keys : \E keep, drop : Detach(K, keep, drop)
    BY <1>1, <1>2, <1>3, EnterKeeps
  <2>5. \A q \in Requests : pc[q] \in Past => pc'[q] \notin Unready
    BY <2>3, PastIsReady DEF Walks
  <2>6. Changes
    BY <2>3, <2>4, <2>5, DetachLight, ChangeLight
  <2>7. \A k \in Keys : reg'[k] \in {reg[k], None}
    BY <2>4, DetachLight
  <2>8. \A s \in Requests : outcome'[s] = "session" => outcome[s] = "session" 
    BY <1>1, <1>3 DEF EnterRefused, EnterJoin, EnterAliasMiss, EnterPublish, EnterFull, TypeInv, TablesOK
  <2> QED BY <2>3, <2>6, <2>7, <2>8, UseKept
<1>4. CASE EnterReuse(r, P)
  <2>1. /\ pc' = [pc EXCEPT ![r] = "submit"]
        /\ req' = [req EXCEPT ![r] = [NoLocals EXCEPT !.ses = reg[req[r].key]]]
        /\ reg[req[r].key] # None /\ req[r].key \in Keys
    BY <1>2, <1>4 DEF EnterReuse, TypeInv, RequestsOK, Keyed, Early
  <2>2. req'[r].ses = reg[req[r].key] /\ \A q \in Requests \ {r} : req'[q] = req[q]
    BY <2>1 DEF NoLocals, TypeInv, RequestsOK
  <2>3. pc[reg[req[r].key]] \in Past /\ reg[req[r].key] \in Requests
    BY <2>1 DEF HeldInv, RegisteredPast, TypeInv, TablesOK
  <2>4. "submit" \notin Unready /\ "submit" # "register"
    BY DEF Unready, Early, Waiting, Creating
  <2>5. reg[req[r].key] # r /\ pc[reg[req[r].key]] \notin Unready
    BY <1>2, <2>3, PastIsReady 
  <2>6. ses[reg[req[r].key]].key \in Keys
    BY <2>1 DEF UseInv, KeyInv
  <2>7. Walks
    BY <1>2, <2>1, <2>2, <2>4, <2>5, <2>6, WalkOne
  <2>8. \A q \in Requests : pc[q] \in Past => pc'[q] \notin Unready
    BY <2>7, PastIsReady DEF Walks
  <2>9. Changes
    BY <1>2, <1>4, <2>7, <2>8, ReuseLight, ChangeLight
  <2>10. \A k \in Keys : reg'[k] \in {reg[k], None}
    BY <1>2, <1>4, ReuseLight
  <2>11. outcome' = outcome
    BY <1>4 DEF EnterReuse
  <2> QED BY <2>7, <2>9, <2>10, <2>11, UseKept
<1> QED BY <1>3, <1>4
LEMMA WaitUse ==
  ASSUME TypeInv, TypeInv', HeldInv, UseInv, NEW r \in Requests,
         JoinSession(r) \/ WakeAgain(r) \/ WakeFailed(r) \/ WaitTimeout(r)
  PROVE  UseInv'
<1>1. pc[r] \in Waiting /\ pc[r] \in Unready /\ pc[r] \notin AfterGate /\ pc[r] # "register"
  BY DEF JoinSession, WakeAgain, WakeFailed, WaitTimeout, Waiting, Unready, Early, AfterGate
<1>2. "enter" \in Unready /\ "enter" \notin Using /\ "submit" \notin Unready
  BY DEF Unready, Early, Waiting, Creating, Using
<1>3. ASSUME pc' = [pc EXCEPT ![r] = "enter"], \A q \in Requests \ {r} : req'[q] = req[q]
      PROVE  Walks
  BY <1>1, <1>2, <1>3, WalkOne
<1>4. CASE WakeAgain(r) \/ WakeFailed(r) \/ WaitTimeout(r)
  <2>1. UNCHANGED <<reg, ses, tasks>> /\ (Again(r) \/ Ends(r))
    BY <1>4 DEF WakeAgain, WakeFailed, WaitTimeout
  <2>2. Walks
    BY <1>3, <2>1, WalkEnds DEF Again, TypeInv, RequestsOK
  <2>3. Changes
    BY <2>1, <2>2, ChangeLight
  <2>4. \A s \in Requests : outcome'[s] = "session" => outcome[s] = "session"
    BY <1>4 DEF WakeAgain, WakeFailed, WaitTimeout, Settle, TypeInv, TablesOK
  <2> QED BY <2>1, <2>2, <2>3, <2>4, UseKept
<1>5. CASE JoinSession(r)
  <2>1. req[r].wait \in Requests /\ outcome[req[r].wait] = "session" /\ outcome' = outcome
    BY <1>1, <1>5 DEF JoinSession, TypeInv, RequestsOK, Keyed
  <2>2. ses[req[r].wait].key \in Keys /\ pc[req[r].wait] \notin Unready /\ req[r].wait # r
    BY <1>1, <2>1 DEF UseInv, HandedInv
  <2>3. ASSUME pc' = [pc EXCEPT ![r] = "submit"], req' = [req EXCEPT ![r] = [NoLocals EXCEPT !.ses = req[r].wait]],
               UNCHANGED <<reg, ses, tasks>>
        PROVE  UseInv'
    <3>1. req'[r].ses = req[r].wait /\ \A q \in Requests \ {r} : req'[q] = req[q]
      BY <2>3 DEF NoLocals, TypeInv, RequestsOK
    <3>2. Walks
      BY <1>1, <1>2, <2>2, <2>3, <3>1, WalkOne
    <3>3. Changes
      BY <2>3, <3>2, ChangeLight
    <3> QED BY <2>1, <2>3, <3>2, <3>3, UseKept
  <2>4. ASSUME NEW keep, Detach({req[r].key}, keep, {}), pc' = [pc EXCEPT ![r] = "enter"],
               req' = [req EXCEPT ![r].wait = None, ![r].after = TRUE]
        PROVE  UseInv'
    <3>1. Walks
      BY <1>3, <2>4 DEF TypeInv, RequestsOK
    <3>2. {req[r].key} \in SUBSET Keys
      BY <1>1 DEF TypeInv, RequestsOK, Keyed, Early
    <3>3. \A q \in Requests : pc[q] \in Past => pc'[q] \notin Unready
      BY <3>1, PastIsReady DEF Walks
    <3>4. Changes
      BY <2>4, <3>1, <3>2, <3>3, DetachLight, ChangeLight
    <3>5. \A k \in Keys : reg'[k] \in {reg[k], None}
      BY <2>4, DetachShrinks
    <3> QED BY <2>1, <3>1, <3>4, <3>5, UseKept
  <2>5. ASSUME Again(r), UNCHANGED <<reg, ses, tasks>>
        PROVE  UseInv'
    <3>1. Walks
      BY <1>3, <2>5 DEF Again, TypeInv, RequestsOK
    <3>2. Changes
      BY <2>5, <3>1, ChangeLight
    <3> QED BY <2>1, <2>5, <3>1, <3>2, UseKept
  <2> QED BY <1>5, <2>3, <2>4, <2>5 DEF JoinSession
<1> QED BY <1>4, <1>5

(* The creating request fails: its session, if there is one, is closed.    *)
LEMMA CreationFailsParts ==
  ASSUME TypeInv, NEW r \in Requests, NEW how \in {"failed", "cancelled"}, CreationFails(r, how)
  PROVE  /\ Ends(r)
         /\ \A s \in Requests : outcome'[s] = "session" => outcome[s] = "session"
         /\ tasks' = IF ses'[r].lease THEN tasks \cup {Start(r, r, "close")} ELSE tasks
         /\ \A t \in tasks' : t \in tasks \/ t.ses = r
<1>1. \A t \in tasks' : t \in tasks \/ t.ses = r
  BY DEF CreationFails, Start
<1>2. \A s \in Requests : outcome'[s] = "session" => outcome[s] = "session"
  BY DEF CreationFails, Settle, TypeInv, TablesOK
<1> QED BY <1>1, <1>2 DEF CreationFails

LEMMA ConnectedParts ==
  ASSUME NEW k, NEW h
  PROVE  LET y == [Connected(k) EXCEPT !.handle = h]
         IN  /\ Connected(k).key = k /\ Connected(k).lease /\ Connected(k).pending = {}
             /\ Connected(k).queued = 0 /\ Connected(k).hidden = {} /\ ~Connected(k).retire
             /\ y.key = k /\ y.lease /\ y.pending = {} /\ y.queued = 0 /\ y.hidden = {} /\ ~y.retire
BY DEF Connected, Blank

LEMMA CreationUse ==
  ASSUME TypeInv, TypeInv', HeldInv, UseInv, NEW r \in Requests,
         \/ CreateFails(r) \/ Claim(r) \/ ClaimCancelled(r) \/ ClaimFails(r)
         \/ Register(r) \/ RegisterFails(r)
  PROVE  UseInv'
<1>1. pc[r] \in Creating /\ pc[r] \in Unready /\ pc[r] \notin AfterGate /\ req[r].key \in Keys
  BY DEF CreateFails, Claim, ClaimCancelled, ClaimFails, Register, RegisterFails,
         Creating, Unready, Early, AfterGate, TypeInv, RequestsOK, Keyed
<1>2. ASSUME NEW how \in {"failed", "cancelled"}, CreationFails(r, how), reg' = reg,
             \/ ses' = ses
             \/ \E b \in BOOLEAN : ses' = [ses EXCEPT ![r].leaked = b]
             \/ pc[r] = "create" /\ ses' = [ses EXCEPT ![r] = Connected(req[r].key)]
      PROVE  UseInv'
  <2>1. Ends(r) /\ Walks
    BY <1>2, CreationFailsParts, WalkEnds
  <2>2. pc'[r] \notin Unready
    BY <2>1 DEF Ends, TypeInv, RequestsOK, Unready, Early, Waiting, Creating
  <2>x. PICK x \in SessionSet : x = ses[r]
    BY DEF TypeInv, SessionsOK
  <2>3. /\ \A y \in Requests \ {r} : ses'[y] = ses[y]
        /\ \/ ses'[r] = x \/ \E b \in BOOLEAN : ses'[r] = [x EXCEPT !.leaked = b]
           \/ pc[r] = "create" /\ ses'[r] = Connected(req[r].key)
    BY <1>2, <2>x DEF TypeInv, SessionsOK
  <2>y. \A b \in BOOLEAN : LET y == [x EXCEPT !.leaked = b] IN y.key = x.key /\ y.pending = x.pending
    BY DEF SessionSet
  <2>4. /\ ses'[r].key = ses[r].key \/ pc[r] = "create"
        /\ \A q \in ses'[r].pending : q \in ses[r].pending
    BY <2>x, <2>3, <2>y, ConnectedParts
  <2>5. Changes
    BY <1>2, <2>1, <2>2, <2>3, <2>4, CreationFailsParts, ChangeOne
  <2> QED BY <1>2, <2>1, <2>5, CreationFailsParts, UseKept
<1>3. CASE CreateFails(r)
  BY <1>2, <1>3 DEF CreateFails
<1>4. CASE ClaimCancelled(r)
  BY <1>2, <1>4 DEF ClaimCancelled
<1>5. CASE ClaimFails(r)
  BY <1>2, <1>5 DEF ClaimFails
<1>6. CASE RegisterFails(r)
  BY <1>2, <1>6 DEF RegisterFails
<1>7. CASE Claim(r)
  <2>1. PICK h : ses' = [ses EXCEPT ![r] = [Connected(req[r].key) EXCEPT !.handle = h]]
    BY <1>7 DEF Claim
  <2>2. /\ pc' = [pc EXCEPT ![r] = "register"] /\ pc[r] = "create"
        /\ UNCHANGED <<reg, outcome, req, tasks>>
    BY <1>7 DEF Claim
  <2>3. /\ \A x \in Requests \ {r} : ses'[x] = ses[x]
        /\ ses'[r].key = req[r].key /\ ses'[r].pending = {} /\ ses'[r].queued = 0 /\ ses'[r].hidden = {}
    BY <2>1, ConnectedParts DEF TypeInv, SessionsOK
  <2>4. Walks
    BY <1>1, <2>2, <2>3, WalkOne DEF Using
  <2>5. Changes
    <3>1. \A x \in Requests : pc'[x] \in Unready => 
            ses[x].queued = 0 /\ ses[x].pending = {} /\ ses[x].hidden = {} 
      BY <2>4 DEF Walks, UseInv, FreshInv
    <3>2. \A x \in Requests : Closing(x)' => Closing(x)
      BY <2>2 DEF Closing
    <3> QED BY <2>2, <2>3, <3>1, <3>2 DEF Changes
  <2> QED BY <2>2, <2>4, <2>5, UseKept
<1>8. CASE Register(r)
  <2>1. /\ pc[r] = "register" /\ reg' = [reg EXCEPT ![req[r].key] = r] /\ tasks' = tasks
        /\ outcome' = IF outcome[r] = "pending" THEN [outcome EXCEPT ![r] = "session"] ELSE outcome
        /\ pc' = [pc EXCEPT ![r] = "submit"]
        /\ req' = [req EXCEPT ![r] = [NoLocals EXCEPT !.ses = r]]
        /\ ses' = IF reg[req[r].key] = None THEN ses ELSE [ses EXCEPT ![reg[req[r].key]].stray = TRUE]
    BY <1>8 DEF Register
  <2>2. req'[r].ses = r /\ \A q \in Requests \ {r} : req'[q] = req[q]
    BY <2>1 DEF NoLocals, TypeInv, RequestsOK
  <2>3. "submit" \notin Unready
    BY DEF Unready, Early, Waiting, Creating
  <2>4. Walks
    BY <1>1, <2>1, <2>2, <2>3, WalkOne
  <2>5. \A s \in Requests : /\ ses'[s].key = ses[s].key /\ ses'[s].queued = ses[s].queued
                            /\ ses'[s].pending = ses[s].pending /\ ses'[s].hidden = ses[s].hidden
    <3> TAKE s \in Requests
    <3>1. PICK x \in SessionSet : x = ses[s]
      BY DEF TypeInv, SessionsOK
    <3>2. ses'[s] = x \/ ses'[s] = [x EXCEPT !.stray = TRUE]
      BY <2>1, <3>1 DEF TypeInv, SessionsOK
    <3> QED BY <3>1, <3>2 DEF SessionSet
  <2>6. Changes
    BY <2>1, <2>4, <2>5, ChangeLight
  <2>7. \A k \in Keys : reg'[k] \in {reg[k], None} \/ (pc[reg'[k]] = "register" /\ req[reg'[k]].key = k)
    BY <2>1 DEF TypeInv, TablesOK
  <2>8. \A s \in Requests : outcome'[s] = "session" =>
           outcome[s] = "session" \/ (pc[s] = "register" /\ pc'[s] \notin Unready)
    BY <2>1, <2>3 DEF TypeInv, TablesOK, RequestsOK
  <2> QED BY <2>4, <2>6, <2>7, <2>8, UseKept
<1> QED BY <1>3, <1>4, <1>5, <1>6, <1>7, <1>8
-------------------------------------------------------------------------------
(* A session that may retire is set to x.                                  *)
LEMMA RetireParts ==
  ASSUME TypeInv, NEW s \in Requests, NEW x \in SessionSet, NEW by, RetireIfReady(s, x, by)
  PROVE  /\ \A y \in Requests \ {s} : ses'[y] = ses[y]
         /\ ses'[s].key = x.key /\ ses'[s].lease = x.lease /\ ses'[s].queued = x.queued
         /\ ses'[s].pending = x.pending /\ ses'[s].retire = x.retire /\ ses'[s].stray = x.stray
         /\ tasks' = IF Retired(x) THEN tasks \cup {Start(s, by, "close")} ELSE tasks
         /\ \A t \in tasks' : t \in tasks \/ t.ses = s
<1>1. ses'[s] = IF Retired(x) THEN [x EXCEPT !.hidden = {}] ELSE x
  BY DEF RetireIfReady, TypeInv, SessionsOK
<1>2. \A y \in Requests \ {s} : ses'[y] = ses[y]
  BY DEF RetireIfReady, TypeInv, SessionsOK
<1>3. tasks' = IF Retired(x) THEN tasks \cup {Start(s, by, "close")} ELSE tasks
  BY DEF RetireIfReady
<1>4. \A t \in tasks' : t \in tasks \/ t.ses = s
  BY <1>3 DEF Start
<1>5. LET y == [x EXCEPT !.hidden = {}] IN
        /\ y.key = x.key /\ y.lease = x.lease /\ y.queued = x.queued
        /\ y.pending = x.pending /\ y.retire = x.retire /\ y.stray = x.stray
  BY DEF SessionSet
<1> QED BY <1>1, <1>2, <1>3, <1>4, <1>5

LEMMA HideParts ==
  ASSUME NEW x \in SessionSet, NEW r
  PROVE  /\ Hide(x, r) \in SessionSet
         /\ Hide(x, r).key = x.key /\ Hide(x, r).lease = x.lease /\ Hide(x, r).stray = x.stray
         /\ Hide(x, r).pending = x.pending \ {r}
         /\ r \in x.pending => Hide(x, r).queued = Less(x.queued) /\ Hide(x, r).retire
         /\ r \notin x.pending => Hide(x, r) = x
<1>1. CASE r \in x.pending
  <2>1. Hide(x, r) = [x EXCEPT !.pending = @ \ {r}, !.hidden = @ \cup {r}, !.queued = Less(@), !.retire = TRUE]
    BY <1>1 DEF Hide
  <2>2. Less(x.queued) \in Nat /\ r \in Requests
    BY <1>1, LessTyped DEF SessionSet
  <2>3. Hide(x, r) \in SessionSet
    BY <2>2, HideTyped
  <2>4. /\ Hide(x, r).key = x.key /\ Hide(x, r).lease = x.lease /\ Hide(x, r).stray = x.stray
        /\ Hide(x, r).pending = x.pending \ {r}
        /\ Hide(x, r).queued = Less(x.queued) /\ Hide(x, r).retire = TRUE
    BY <2>1 DEF SessionSet
  <2> QED BY <1>1, <2>3, <2>4
<1>2. CASE r \notin x.pending
  BY <1>2 DEF Hide, SessionSet
<1> QED BY <1>1, <1>2

(* The session a request uses, after a reconnect that succeeds or fails.   *)
LEMMA ReconnectParts ==
  ASSUME TypeInv, NEW s \in Requests, NEW after, after = Reconnected(s) \/ after \in NotReconnected(s)
  PROVE  /\ \A y \in Requests \ {s} : after[y] = ses[y]
         /\ after[s] \in SessionSet
         /\ after[s].key = ses[s].key /\ after[s].queued = ses[s].queued
         /\ after[s].pending = ses[s].pending /\ after[s].retire = ses[s].retire
         /\ after[s].stray = (ses[s].stray \/ reg[ses[s].key] # s)
         /\ after \in [Requests -> SessionSet]
<1>1. PICK x \in SessionSet : x = ses[s]
  BY DEF TypeInv, SessionsOK
<1>2. PICK c \in BOOLEAN, l \in BOOLEAN, d \in BOOLEAN, e \in BOOLEAN :
        after = [ses EXCEPT ![s] = [x EXCEPT !.closed = c, !.lease = l, !.reader = d,
                                             !.stray = @ \/ reg[x.key] # s, !.leaked = e]]
  <2>1. CASE after = Reconnected(s)
    <3>1. after = [ses EXCEPT ![s] = [x EXCEPT !.closed = FALSE, !.lease = TRUE, !.reader = TRUE,
                                               !.stray = @ \/ reg[x.key] # s]]
      BY <1>1, <2>1 DEF Reconnected, TypeInv, SessionsOK
    <3>2. [x EXCEPT !.closed = FALSE, !.lease = TRUE, !.reader = TRUE, !.stray = @ \/ reg[x.key] # s]
            = [x EXCEPT !.closed = FALSE, !.lease = TRUE, !.reader = TRUE, !.stray = @ \/ reg[x.key] # s,
                        !.leaked = x.leaked]
      BY DEF SessionSet
    <3>3. x.leaked \in BOOLEAN
      BY DEF SessionSet
    <3> QED BY <3>1, <3>2, <3>3
  <2>2. CASE after \in NotReconnected(s)
    <3>1. PICK kept \in BOOLEAN, leaks \in BOOLEAN : after = Unconnected(s, kept, leaks)
      BY <2>2, NotReconnectedAs
    <3>2. PICK l \in BOOLEAN, e \in BOOLEAN : l = (x.lease /\ kept) /\ e = (x.leaked \/ leaks)
      BY DEF SessionSet
    <3>3. after = [ses EXCEPT ![s] = [x EXCEPT !.closed = TRUE, !.lease = l, !.reader = FALSE,
                                               !.stray = @ \/ reg[x.key] # s, !.leaked = e]]
      BY <1>1, <3>1, <3>2 DEF Unconnected, TypeInv, SessionsOK
    <3> QED BY <3>3
  <2> QED BY <2>1, <2>2
<1>3. after[s] = [x EXCEPT !.closed = c, !.lease = l, !.reader = d, !.stray = @ \/ reg[x.key] # s,
                           !.leaked = e]
  BY <1>2 DEF TypeInv, SessionsOK
<1>4. after[s] \in SessionSet
  BY <1>3 DEF SessionSet
<1>5. /\ after[s].key = x.key /\ after[s].queued = x.queued
      /\ after[s].pending = x.pending /\ after[s].retire = x.retire
      /\ after[s].stray = (x.stray \/ reg[x.key] # s)
  BY <1>3 DEF SessionSet
<1>6. after \in [Requests -> SessionSet] /\ \A y \in Requests \ {s} : after[y] = ses[y]
  BY <1>2, <1>3, <1>4 DEF TypeInv, SessionsOK
<1> QED BY <1>1, <1>4, <1>5, <1>6
-------------------------------------------------------------------------------
(* A request acts on the session it uses.                                  *)
Acts(r, w, s) ==
  /\ pc[r] \in Using /\ req[r].ses = s /\ s \in Requests
  /\ pc' = [pc EXCEPT ![r] = w] /\ w \in Past
  /\ pc[r] \in AfterGate => w \in AfterGate
  /\ req' = req \/ w = "done"
  /\ \A q \in Requests \ {r} : req'[q] = req[q]
  /\ UNCHANGED <<reg, outcome>>
  /\ \A y \in Requests \ {s} : ses'[y] = ses[y]
  /\ ses'[s].key = ses[s].key
  /\ \A q \in ses'[s].pending : q \in ses[s].pending \/ (q = r /\ w \in AfterGate)
  /\ tasks \subseteq tasks' /\ \A t \in tasks' : t \in tasks \/ t.ses = s

LEMMA ActsUse ==
  ASSUME TypeInv, TypeInv', HeldInv, UseInv, NEW r \in Requests, NEW w, NEW s, Acts(r, w, s)
  PROVE  UseInv'
<1>1. pc'[r] = w /\ w \notin Unready /\ w # "register"
  BY PastIsReady DEF Acts, TypeInv, RequestsOK, Past, Using
<1>2. w \in Using => pc[r] \in Using /\ req'[r].ses = req[r].ses
  BY DEF Acts, Using
<1>3. Walks
  BY <1>1, <1>2, WalkOne DEF Acts
<1>4. pc[s] \notin Unready /\ s \in Requests
  BY DEF Acts, UseInv, UsedInv
<1>5. pc'[s] \notin Unready
  BY <1>3, <1>4 DEF Walks
<1>6. \A q \in ses'[s].pending : q \in ses[s].pending \/ pc'[q] \in AfterGate
  BY <1>1 DEF Acts
<1>7. Changes
  BY <1>3, <1>4, <1>5, <1>6, ChangeOne DEF Acts
<1>8. UNCHANGED <<reg, outcome>>
  BY DEF Acts
<1> QED BY <1>3, <1>7, <1>8, UseKept

LEMMA EndsActs ==
  ASSUME TypeInv, NEW r \in Requests, Ends(r)
  PROVE  /\ pc' = [pc EXCEPT ![r] = "done"] /\ "done" \in Past /\ "done" \in AfterGate
         /\ \A q \in Requests \ {r} : req'[q] = req[q]
BY DEF Ends, Past, AfterGate, TypeInv, RequestsOK

LEMMA GoOnActs ==
  ASSUME TypeInv, NEW r \in Requests, NEW w \in Using, GoOn(r, w)
  PROVE  pc' = [pc EXCEPT ![r] = w] /\ w \in Past /\ req' = req
BY DEF GoOn, Past

LEMMA SubmitClosedActs ==
  ASSUME TypeInv, NEW r \in Requests, SubmitClosed(r)
  PROVE  /\ ses' = ses /\ tasks' = tasks
         /\ \E w \in {"done", "reconnect"} : Acts(r, w, req[r].ses)
<1>1. pc[r] = "submit" /\ pc[r] \in Using /\ pc[r] \notin AfterGate /\ "reconnect" \in Using
  BY DEF SubmitClosed, Using, AfterGate
<1>2. req[r].ses \in Requests
  BY <1>1 DEF TypeInv, RequestsOK, Keyed
<1>3. UNCHANGED <<reg, outcome, ses, tasks>> /\ (Ends(r) \/ GoOn(r, "reconnect"))
  BY DEF SubmitClosed
<1> QED BY <1>1, <1>2, <1>3, EndsActs, GoOnActs DEF Acts

LEMMA ReconnectActs ==
  ASSUME TypeInv, NEW r \in Requests, Reconnect(r)
  PROVE  /\ tasks' = tasks
         /\ ses' = Reconnected(req[r].ses) \/ ses' \in NotReconnected(req[r].ses)
         /\ \E w \in {"done", "queue"} : Acts(r, w, req[r].ses)
<1>1. pc[r] = "reconnect" /\ pc[r] \in Using /\ pc[r] \notin AfterGate /\ "queue" \in Using
  BY DEF Reconnect, Using, AfterGate
<1>2. req[r].ses \in Requests
  BY <1>1 DEF TypeInv, RequestsOK, Keyed
<1>3. /\ UNCHANGED <<reg, outcome, tasks>> /\ (Ends(r) \/ GoOn(r, "queue"))
      /\ ses' = Reconnected(req[r].ses) \/ ses' \in NotReconnected(req[r].ses)
  BY DEF Reconnect
<1> QED BY <1>1, <1>2, <1>3, EndsActs, GoOnActs, ReconnectParts DEF Acts

LEMMA QueueActs ==
  ASSUME TypeInv, NEW r \in Requests, Queue(r)
  PROVE  LET s == req[r].ses IN
         /\ pc[r] \in {"submit", "queue"}
         /\ \/ /\ ses[s].retire /\ RetireIfReady(s, ses[s], r)
               /\ Acts(r, "done", s)
            \/ /\ ses' = ses /\ tasks' = tasks
               /\ Acts(r, "done", s)
            \/ /\ ~ses[s].retire /\ tasks' = tasks
               /\ ses'[s] = [ses[s] EXCEPT !.queued = @ + 1]
               /\ Acts(r, "gate", s)
<1> DEFINE s == req[r].ses
<1>1. pc[r] \in {"submit", "queue"} /\ pc[r] \in Using /\ pc[r] \notin AfterGate /\ "gate" \in Using
  BY DEF Queue, Using, AfterGate
<1>2. s \in Requests /\ ses[s] \in SessionSet
  BY <1>1 DEF TypeInv, RequestsOK, Keyed, SessionsOK
<1>3. UNCHANGED <<reg, outcome>>
  BY DEF Queue
<1>4. ASSUME ses[s].retire, RetireIfReady(s, ses[s], r), Ends(r)
      PROVE  Acts(r, "done", s)
  <2>1. tasks \subseteq tasks'
    BY <1>4 DEF RetireIfReady
  <2> QED BY <1>1, <1>2, <1>3, <1>4, <2>1, EndsActs, RetireParts DEF Acts
<1>5. ASSUME ses' = ses, tasks' = tasks, Ends(r)
      PROVE  Acts(r, "done", s)
  BY <1>1, <1>2, <1>3, <1>5, EndsActs DEF Acts
<1>6. ASSUME ses' = [ses EXCEPT ![s].queued = @ + 1], tasks' = tasks, GoOn(r, "gate")
      PROVE  Acts(r, "gate", s) /\ ses'[s] = [ses[s] EXCEPT !.queued = @ + 1]
  <2>1. ses'[s] = [ses[s] EXCEPT !.queued = @ + 1] /\ \A y \in Requests \ {s} : ses'[y] = ses[y]
    BY <1>2, <1>6 DEF TypeInv, SessionsOK
  <2>2. ses'[s].key = ses[s].key /\ ses'[s].pending = ses[s].pending
    BY <1>2, <2>1 DEF SessionSet
  <2> QED BY <1>1, <1>2, <1>3, <1>6, <2>1, <2>2, GoOnActs DEF Acts
<1> QED BY <1>1, <1>4, <1>5, <1>6 DEF Queue

LEMMA EnqueueActs ==
  ASSUME TypeInv, NEW r \in Requests, Enqueue(r)
  PROVE  LET s == req[r].ses IN
         /\ pc[r] = "gate" /\ tasks' = tasks
         /\ ses'[s] = [ses[s] EXCEPT !.pending = @ \cup {r}]
         /\ \E w \in {"streaming", "resend"} : Acts(r, w, s)
<1> DEFINE s == req[r].ses
<1>1. /\ pc[r] = "gate" /\ pc[r] \in Using /\ pc[r] \notin AfterGate
      /\ "streaming" \in Using /\ "resend" \in Using
      /\ "streaming" \in AfterGate /\ "resend" \in AfterGate
  BY DEF Enqueue, Using, AfterGate
<1>2. s \in Requests /\ ses[s] \in SessionSet
  BY <1>1 DEF TypeInv, RequestsOK, Keyed, SessionsOK
<1>3. UNCHANGED <<reg, outcome, tasks>> /\ (GoOn(r, "streaming") \/ GoOn(r, "resend"))
  BY DEF Enqueue
<1>4. ses'[s] = [ses[s] EXCEPT !.pending = @ \cup {r}] /\ \A y \in Requests \ {s} : ses'[y] = ses[y]
  BY <1>2 DEF Enqueue, TypeInv, SessionsOK
<1>5. ses'[s].key = ses[s].key /\ ses'[s].pending = ses[s].pending \cup {r}
  BY <1>2, <1>4 DEF SessionSet
<1> QED BY <1>1, <1>2, <1>3, <1>4, <1>5, GoOnActs DEF Acts

LEMMA GateFailsActs ==
  ASSUME TypeInv, NEW r \in Requests, GateFails(r)
  PROVE  LET s == req[r].ses
             x == [ses[s] EXCEPT !.queued = Less(@)]
         IN  /\ pc[r] = "gate" /\ tasks' = tasks
             /\ ses'[s] = [x EXCEPT !.stray = @ \/ (Retired(x) /\ reg[x.key] # s)]
             /\ Acts(r, "done", s)
<1> DEFINE s == req[r].ses
           x == [ses[s] EXCEPT !.queued = Less(@)]
<1>1. pc[r] = "gate" /\ pc[r] \in Using 
  BY DEF GateFails, Using
<1>2. s \in Requests /\ ses[s] \in SessionSet
  BY <1>1 DEF TypeInv, RequestsOK, Keyed, SessionsOK
<1>3. UNCHANGED <<reg, outcome, tasks>> /\ Ends(r)
  BY DEF GateFails
<1>4. /\ ses'[s] = [x EXCEPT !.stray = @ \/ (Retired(x) /\ reg[x.key] # s)]
      /\ \A y \in Requests \ {s} : ses'[y] = ses[y]
  BY <1>2 DEF GateFails, TypeInv, SessionsOK
<1>5. ses'[s].key = ses[s].key /\ ses'[s].pending = ses[s].pending
  BY <1>2, <1>4 DEF SessionSet
<1> QED BY <1>1, <1>2, <1>3, <1>4, <1>5, EndsActs DEF Acts

LEMMA ResendActs ==
  ASSUME TypeInv, NEW r \in Requests, Resend(r)
  PROVE  LET s == req[r].ses IN
         /\ pc[r] = "resend" /\ tasks' = tasks
         /\ \/ /\ ses' = Reconnected(s)
               /\ \E w \in {"streaming", "done"} : Acts(r, w, s)
            \/ \E after \in NotReconnected(s) :
                 /\ ses'[s] = [after[s] EXCEPT !.pending = @ \ {r}, !.queued = Less(@)]
                 /\ Acts(r, "done", s)
<1> DEFINE s == req[r].ses
<1>1. /\ pc[r] = "resend" /\ pc[r] \in Using /\ "streaming" \in Using /\ "streaming" \in AfterGate
  BY DEF Resend, Using, AfterGate
<1>2. s \in Requests
  BY <1>1 DEF TypeInv, RequestsOK, Keyed
<1>3. UNCHANGED <<reg, outcome, tasks>>
  BY DEF Resend
<1>4. ASSUME ses' = Reconnected(s), GoOn(r, "streaming") \/ Ends(r)
      PROVE  \E w \in {"streaming", "done"} : Acts(r, w, s)
  BY <1>1, <1>2, <1>3, <1>4, ReconnectParts, EndsActs, GoOnActs DEF Acts
<1>5. ASSUME NEW after \in NotReconnected(s), ses' = [after EXCEPT ![s].pending = @ \ {r}, ![s].queued = Less(@)],
             Ends(r)
      PROVE  /\ ses'[s] = [after[s] EXCEPT !.pending = @ \ {r}, !.queued = Less(@)]
             /\ Acts(r, "done", s)
  <2>1. /\ after \in [Requests -> SessionSet] /\ after[s].key = ses[s].key
        /\ after[s].pending = ses[s].pending /\ after[s] \in SessionSet
        /\ \A y \in Requests \ {s} : after[y] = ses[y]
    BY <1>2, ReconnectParts
  <2>2. /\ ses'[s] = [after[s] EXCEPT !.pending = @ \ {r}, !.queued = Less(@)]
        /\ \A y \in Requests \ {s} : ses'[y] = ses[y]
    BY <1>2, <1>5, <2>1
  <2>3. ses'[s].key = ses[s].key /\ ses'[s].pending = ses[s].pending \ {r}
    BY <2>1, <2>2 DEF SessionSet
  <2> QED BY <1>1, <1>2, <1>3, <1>5, <2>2, <2>3, EndsActs DEF Acts
<1> QED BY <1>1, <1>3, <1>4, <1>5 DEF Resend
LEMMA ClientLeavesActs ==
  ASSUME TypeInv, NEW r \in Requests, ClientLeaves(r)
  PROVE  LET s == req[r].ses IN
         /\ pc[r] = "streaming" /\ RetireIfReady(s, Hide(ses[s], r), r)
         /\ Acts(r, "done", s)
<1> DEFINE s == req[r].ses
<1>1. pc[r] = "streaming" /\ pc[r] \in Using
  BY DEF ClientLeaves, Using
<1>2. s \in Requests /\ ses[s] \in SessionSet
  BY <1>1 DEF TypeInv, RequestsOK, Keyed, SessionsOK
<1>3. UNCHANGED <<reg, outcome>> /\ Ends(r) /\ RetireIfReady(s, Hide(ses[s], r), r)
  BY DEF ClientLeaves
<1>4. tasks \subseteq tasks'
  BY <1>3 DEF RetireIfReady
<1>5. ses'[s].key = ses[s].key /\ ses'[s].pending = ses[s].pending \ {r}
  BY <1>2, <1>3, HideParts, RetireParts
<1>6. (\A y \in Requests \ {s} : ses'[y] = ses[y]) /\ \A t \in tasks' : t \in tasks \/ t.ses = s
  BY <1>2, <1>3, HideParts, RetireParts
<1> QED BY <1>1, <1>2, <1>3, <1>4, <1>5, <1>6, EndsActs DEF Acts

LEMMA FirstEventTimeoutActs ==
  ASSUME TypeInv, NEW r \in Requests, FirstEventTimeout(r)
  PROVE  LET s == req[r].ses IN
         /\ pc[r] = "streaming" /\ Start(s, r, "retire") \in tasks'
         /\ Acts(r, "done", s)
<1> DEFINE s == req[r].ses
           x == Hide(ses[s], r)
<1>1. pc[r] = "streaming" /\ pc[r] \in Using
  BY DEF FirstEventTimeout, Using
<1>2. s \in Requests /\ ses[s] \in SessionSet
  BY <1>1 DEF TypeInv, RequestsOK, Keyed, SessionsOK
<1>3. UNCHANGED <<reg, outcome>> /\ Ends(r)
  BY DEF FirstEventTimeout
<1>4. tasks \subseteq tasks' /\ Start(s, r, "retire") \in tasks' /\ \A t \in tasks' : t \in tasks \/ t.ses = s
  BY DEF FirstEventTimeout, Start
<1>5. /\ ses'[s] = IF Retired(x) THEN [x EXCEPT !.hidden = {}] ELSE x
      /\ \A y \in Requests \ {s} : ses'[y] = ses[y]
  BY <1>2 DEF FirstEventTimeout, TypeInv, SessionsOK
<1>6. x \in SessionSet /\ x.key = ses[s].key /\ x.pending = ses[s].pending \ {r}
  BY <1>2, HideParts
<1> HIDE DEF x
<1>7. ses'[s].key = x.key /\ ses'[s].pending = x.pending
  BY <1>5, <1>6 DEF SessionSet
<1> QED BY <1>1, <1>2, <1>3, <1>4, <1>5, <1>6, <1>7, EndsActs DEF Acts

LEMMA AbandonedActs ==
  ASSUME TypeInv, NEW r \in Requests, AbandonedAfterSubmit(r)
  PROVE  /\ ses' = ses /\ tasks' = tasks
         /\ Acts(r, "done", req[r].ses)
<1>1. pc[r] = "streaming" /\ pc[r] \in Using
  BY DEF AbandonedAfterSubmit, Using
<1>2. req[r].ses \in Requests
  BY <1>1 DEF TypeInv, RequestsOK, Keyed
<1> QED BY <1>1, <1>2, EndsActs DEF AbandonedAfterSubmit, Acts

LEMMA RequestUse ==
  ASSUME TypeInv, TypeInv', HeldInv, UseInv, NEW r \in Requests, Arrive(r) \/ RequestStep(r)
  PROVE  UseInv'
<1>1. CASE Arrive(r)
  <2>1. pc' = [pc EXCEPT ![r] = "enter"] /\ pc[r] = "idle" /\ UNCHANGED <<reg, outcome, ses, tasks>>
    BY <1>1 DEF Arrive
  <2>2. \A q \in Requests \ {r} : req'[q] = req[q]
    BY <1>1 DEF Arrive, TypeInv, RequestsOK
  <2>3. "idle" \in Unready /\ "idle" \notin AfterGate /\ "enter" \notin Using
    BY DEF Unready, AfterGate, Using
  <2>4. Walks
    BY <2>1, <2>2, <2>3, WalkOne
  <2>5. Changes
    BY <2>1, <2>4, ChangeLight
  <2> QED BY <2>1, <2>4, <2>5, UseKept
<1>2. CASE Cancelled(r)
  <2>1. Ends(r) /\ UNCHANGED <<reg, outcome, ses, tasks>>
    BY <1>2 DEF Cancelled
  <2>2. Walks
    BY <2>1, WalkEnds
  <2>3. Changes
    BY <2>1, <2>2, ChangeLight
  <2> QED BY <2>1, <2>2, <2>3, UseKept
<1>3. CASE SubmitClosed(r) \/ Reconnect(r) \/ Queue(r) \/ Enqueue(r) \/ GateFails(r) \/ Resend(r)
           \/ ClientLeaves(r) \/ FirstEventTimeout(r) \/ AbandonedAfterSubmit(r)
  <2>1. \E w : Acts(r, w, req[r].ses)
    BY <1>3, SubmitClosedActs, ReconnectActs, QueueActs, EnqueueActs, GateFailsActs, ResendActs,
       ClientLeavesActs, FirstEventTimeoutActs, AbandonedActs
  <2> QED BY <2>1, ActsUse
<1> QED BY <1>1, <1>2, <1>3, EnterUse, WaitUse, CreationUse DEF RequestStep

(* The clean-up a step leaves in place of t.                               *)
LEMMA CloseReleasesTask ==
  ASSUME NEW t \in TaskSet, CloseReleases(t)
  PROVE  \E u : tasks' = (tasks \ {t}) \cup {u} /\ u.ses = t.ses /\ u.kind = t.kind /\ u.at = "end"
<1>1. PICK w : \/ tasks' = (tasks \ {t}) \cup {[t EXCEPT !.at = "end", !.write = w]}
               \/ tasks' = (tasks \ {t}) \cup {[t EXCEPT !.at = "end"]}
  BY DEF CloseReleases
<1>2. PICK u : /\ tasks' = (tasks \ {t}) \cup {u}
               /\ u = [t EXCEPT !.at = "end", !.write = w] \/ u = [t EXCEPT !.at = "end"]
  BY <1>1
<1>3. CASE u = [t EXCEPT !.at = "end", !.write = w]
  BY <1>2, <1>3 DEF TaskSet
<1>4. CASE u = [t EXCEPT !.at = "end"]
  BY <1>2, <1>4 DEF TaskSet
<1> QED BY <1>2, <1>3, <1>4

LEMMA CloseWritesTask ==
  ASSUME NEW t \in TaskSet, CloseWrites(t)
  PROVE  \E u : tasks' = (tasks \ {t}) \cup {u} /\ u.ses = t.ses /\ u.kind = t.kind /\ u.at = t.at
<1>1. PICK u : u = [t EXCEPT !.write = None]
  OBVIOUS
<1>2. tasks' = (tasks \ {t}) \cup {u}
  BY <1>1 DEF CloseWrites
<1>3. u.ses = t.ses /\ u.kind = t.kind /\ u.at = t.at
  BY <1>1 DEF TaskSet
<1> QED BY <1>2, <1>3

LEMMA OtherUse ==
  ASSUME TypeInv, TypeInv', HeldInv, UseInv,
         \/ \E s \in Requests : UpstreamLost(s) \/ Cleanup(s) \/ \E r \in Requests : Terminal(s, r)
         \/ Shutdown
         \/ \E k \in Keys : Elsewhere(k)
  PROVE  UseInv'
<1>1. CASE UNCHANGED <<reg, outcome, pc, req, ses, tasks>>
  <2>1. Walks
    BY <1>1, WalkEndAll
  <2>2. Changes
    BY <1>1, <2>1, ChangeLight
  <2> QED BY <1>1, <2>1, <2>2, UseKept
<1>2. ASSUME NEW s \in Requests, UpstreamLost(s)
      PROVE  UseInv'
  <2>1. EndAll(ses[s].pending) /\ UNCHANGED <<reg, outcome>>
    BY <1>2 DEF UpstreamLost
  <2>2. Walks
    BY <2>1, WalkEndAll
  <2>3. PICK x \in SessionSet : x = ses[s]
    BY DEF TypeInv, SessionsOK
  <2>4. /\ ses'[s] = [x EXCEPT !.closed = TRUE, !.queued = 0, !.pending = {}, !.hidden = {}, !.reader = FALSE]
        /\ \A y \in Requests \ {s} : ses'[y] = ses[y]
    BY <1>2, <2>3 DEF UpstreamLost, TypeInv, SessionsOK
  <2>5. ses'[s].key = ses[s].key /\ ses'[s].queued = 0 /\ ses'[s].pending = {} /\ ses'[s].hidden = {}
    BY <2>3, <2>4 DEF SessionSet
  <2>6. \A t \in tasks' : t \in tasks \/ t.kind # "close"
    <3>1. tasks' = tasks \cup {Start(s, None, "retire")}
      BY <1>2 DEF UpstreamLost
    <3>2. Start(s, None, "retire").kind = "retire"
      BY DEF Start
    <3> QED BY <3>1, <3>2
  <2>7. \A y \in Requests : Closing(y)' => Closing(y)
    BY <2>6 DEF Closing
  <2>8. \A y \in Requests : pc'[y] \in Unready =>
          ses[y].queued = 0 /\ ses[y].pending = {} /\ ses[y].hidden = {} 
    BY <2>2 DEF Walks, UseInv, FreshInv
  <2>9. Changes
    BY <2>4, <2>5, <2>7, <2>8 DEF Changes
  <2> QED BY <2>1, <2>2, <2>9, UseKept
<1>3. ASSUME NEW s \in Requests, NEW r \in Requests, Terminal(s, r)
      PROVE  UseInv'
  <2>1. EndAll({r}) /\ UNCHANGED <<reg, outcome>>
    BY <1>3 DEF Terminal
  <2>2. Walks
    BY <2>1, WalkEndAll
  <2>3. PICK x \in SessionSet : x = ses[s]
    BY DEF TypeInv, SessionsOK
  <2>4. pc[s] \notin Unready
    BY <1>3 DEF Terminal, UseInv, FreshInv
  <2>5. pc'[s] \notin Unready
    BY <2>2, <2>4 DEF Walks
  <2>6. PICK y \in SessionSet : /\ y.key = x.key /\ y.pending = x.pending \ {r}
                                /\ RetireIfReady(s, y, None)
    <3> DEFINE n == IF r \in x.pending THEN Less(x.queued) ELSE x.queued
               y == [x EXCEPT !.pending = @ \ {r}, !.hidden = @ \ {r}, !.queued = n]
    <3>1. RetireIfReady(s, y, None)
      BY <1>3, <2>3 DEF Terminal
    <3>2. n \in Nat
      BY LessTyped DEF SessionSet
    <3> HIDE DEF n
    <3>3. y \in SessionSet /\ y.key = x.key /\ y.pending = x.pending \ {r}
      BY <3>2 DEF SessionSet
    <3> QED BY <3>1, <3>3
  <2>7. /\ ses'[s].key = ses[s].key /\ ses'[s].pending \subseteq ses[s].pending
        /\ \A q \in Requests \ {s} : ses'[q] = ses[q]
        /\ \A t \in tasks' : t \in tasks \/ t.ses = s
    BY <2>3, <2>6, RetireParts
  <2>8. Changes
    BY <2>2, <2>5, <2>7, ChangeOne
  <2> QED BY <2>1, <2>2, <2>8, UseKept
<1>4. ASSUME NEW s \in Requests, Cleanup(s)
      PROVE  UseInv'
  <2>1. PICK t \in tasks : /\ t.ses = s
                           /\ (CloseReleases(t) \/ CloseWrites(t) \/ CloseEnds(t) \/ RetireUnregisters(t) \/ RetireReleases(t)
                            \/ RetireWrites(t))
    BY <1>4 DEF Cleanup
  <2>2. PICK x \in SessionSet : x = ses[s]
    BY DEF TypeInv, SessionsOK
  <2>3. (UNCHANGED <<pc, req>> \/ EndAll(ses[s].pending)) /\ outcome' = outcome
    BY <2>1 DEF CloseReleases, CloseWrites, CloseEnds, RetireUnregisters, RetireReleases, RetireWrites
  <2>4. Walks
    BY <2>3, WalkEndAll
  <2>5. \A k \in Keys : reg'[k] \in {reg[k], None}
    BY <2>1 DEF CloseReleases, CloseWrites, CloseEnds, RetireUnregisters, RetireReleases, RetireWrites, TypeInv, TablesOK
  <2>6. t \in TaskSet
    BY DEF TypeInv, SessionsOK
  <2>7. \A u \in tasks' : u \in tasks \/ (u.ses = t.ses /\ u.kind = t.kind)
    <3>1. PICK w : \/ tasks' \subseteq tasks
                   \/ tasks' = (tasks \ {t}) \cup {[t EXCEPT !.at = "end", !.write = w]}
                   \/ tasks' = (tasks \ {t}) \cup {[t EXCEPT !.at = "end"]}
                   \/ tasks' = (tasks \ {t}) \cup {[t EXCEPT !.write = w]}
      BY <2>1 DEF CloseReleases, CloseWrites, CloseEnds, RetireUnregisters, RetireReleases, RetireWrites
    <3>2. PICK u : /\ tasks' \subseteq tasks \cup {u}
                   /\ \/ u = t \/ u = [t EXCEPT !.at = "end", !.write = w]
                      \/ u = [t EXCEPT !.at = "end"] \/ u = [t EXCEPT !.write = w]
      BY <3>1
    <3>3. u.ses = t.ses /\ u.kind = t.kind
      <4>1. CASE u = [t EXCEPT !.at = "end"]
        BY <2>6, <4>1 DEF TaskSet
      <4>2. CASE u = [t EXCEPT !.at = "end", !.write = w]
        BY <2>6, <4>2 DEF TaskSet
      <4>3. CASE u = [t EXCEPT !.write = w]
        BY <2>6, <4>3 DEF TaskSet
      <4> QED BY <3>2, <4>1, <4>2, <4>3
    <3> QED BY <3>2, <3>3
  <2>8. \A y \in Requests : Closing(y)' => Closing(y)
    BY <2>7 DEF Closing
  <2>9. /\ \A y \in Requests \ {s} : ses'[y] = ses[y]
        /\ ses'[s].key = x.key
        /\ \/ ses'[s].queued = x.queued /\ ses'[s].pending = x.pending /\ ses'[s].hidden = x.hidden
           \/ ses'[s].queued = 0 /\ ses'[s].pending = {} /\ ses'[s].hidden = {}
    <3>1. CASE CloseReleases(t)
      <4>1. ses' = [ses EXCEPT ![s] = [x EXCEPT !.closed = TRUE, !.lease = FALSE]]
        BY <2>1, <2>2, <3>1 DEF CloseReleases, TypeInv, SessionsOK
      <4> QED BY <2>2, <4>1 DEF SessionSet, TypeInv, SessionsOK
    <3>2. CASE CloseEnds(t)
      <4>1. ses' = [ses EXCEPT ![s] = [x EXCEPT !.closed = @ \/ x.reader, !.reader = FALSE, !.queued = 0,
                                                !.pending = {}, !.hidden = {}]]
        BY <2>1, <2>2, <3>2 DEF CloseEnds, TypeInv, SessionsOK
      <4> QED BY <2>2, <4>1 DEF SessionSet, TypeInv, SessionsOK
    <3>3. CASE RetireUnregisters(t)
      <4>1. ses' = [ses EXCEPT ![s] = [x EXCEPT !.closed = TRUE]]
        BY <2>1, <2>2, <3>3 DEF RetireUnregisters, TypeInv, SessionsOK
      <4> QED BY <2>2, <4>1 DEF SessionSet, TypeInv, SessionsOK
    <3>4. CASE RetireReleases(t)
      <4>1. \/ ses' = [ses EXCEPT ![s] = [x EXCEPT !.handle = None]]
            \/ ses' = [ses EXCEPT ![s] = [x EXCEPT !.lease = FALSE, !.handle = None]]
            \/ ses' = [ses EXCEPT ![s] = [x EXCEPT !.lease = FALSE]]
        BY <2>1, <2>2, <3>4 DEF RetireReleases, TypeInv, SessionsOK
      <4>2. /\ \A y \in Requests \ {s} : ses'[y] = ses[y]
            /\ \/ ses'[s] = [x EXCEPT !.handle = None]
               \/ ses'[s] = [x EXCEPT !.lease = FALSE, !.handle = None]
               \/ ses'[s] = [x EXCEPT !.lease = FALSE]
        BY <4>1 DEF TypeInv, SessionsOK
      <4>3. CASE ses'[s] = [x EXCEPT !.handle = None]
        BY <4>2, <4>3 DEF SessionSet
      <4>4. CASE ses'[s] = [x EXCEPT !.lease = FALSE, !.handle = None]
        BY <4>2, <4>4 DEF SessionSet
      <4>5. CASE ses'[s] = [x EXCEPT !.lease = FALSE]
        BY <4>2, <4>5 DEF SessionSet
      <4> QED BY <4>2, <4>3, <4>4, <4>5
    <3>5. CASE CloseWrites(t)
      BY <2>2, <3>5 DEF CloseWrites
    <3>6. CASE RetireWrites(t)
      <4>1. \/ ses' = [ses EXCEPT ![s] = [x EXCEPT !.lease = FALSE]]
            \/ ses' = [ses EXCEPT ![s] = [x EXCEPT !.lease = FALSE, !.handle = t.write.handle]]
        BY <2>1, <2>2, <3>6 DEF RetireWrites, TypeInv, SessionsOK
      <4>2. PICK h : h = t.write.handle
        OBVIOUS
      <4>3. /\ \A y \in Requests \ {s} : ses'[y] = ses[y]
            /\ \/ ses'[s] = [x EXCEPT !.lease = FALSE]
               \/ ses'[s] = [x EXCEPT !.lease = FALSE, !.handle = h]
        BY <4>1, <4>2 DEF TypeInv, SessionsOK
      <4>4. CASE ses'[s] = [x EXCEPT !.lease = FALSE, !.handle = h]
        BY <4>3, <4>4 DEF SessionSet
      <4>5. CASE ses'[s] = [x EXCEPT !.lease = FALSE]
        BY <4>3, <4>5 DEF SessionSet
      <4> QED BY <4>3, <4>4, <4>5
    <3> QED BY <2>1, <3>1, <3>2, <3>3, <3>4, <3>5, <3>6
  <2>10. \A y \in Requests : pc'[y] \in Unready =>
           ses[y].queued = 0 /\ ses[y].pending = {} /\ ses[y].hidden = {} 
    BY <2>4 DEF Walks, UseInv, FreshInv
  <2>11. Changes
    BY <2>2, <2>8, <2>9, <2>10 DEF Changes
  <2> QED BY <2>3, <2>4, <2>5, <2>11, UseKept
<1>5. CASE MarkDraining
  BY <1>1, <1>5 DEF MarkDraining
<1>6. CASE CloseAll
  <2>1. /\ UNCHANGED <<pc, req, ses>> /\ \A k \in Keys : reg'[k] = None
        /\ \A s \in Requests : outcome'[s] = "session" => outcome[s] = "session"
    BY <1>6 DEF CloseAll
  <2>2. Walks
    BY <2>1, WalkEndAll
  <2>3. ASSUME NEW t \in tasks', t \notin tasks
        PROVE  pc'[t.ses] \notin Unready
    <3>1. PICK k \in Registered : t = Start(reg[k], None, "close")
      BY <1>6, <2>3 DEF CloseAll
    <3>2. t.ses = reg[k] /\ pc[reg[k]] \in Past
      BY <3>1 DEF Start, Registered, HeldInv, RegisteredPast
    <3> QED BY <2>1, <3>2, PastIsReady
  <2>4. Changes
    BY <2>1, <2>2, <2>3, ChangeLight
  <2> QED BY <2>1, <2>2, <2>4, UseKept
<1>7. ASSUME NEW k \in Keys, Elsewhere(k)
      PROVE  UseInv'
  BY <1>1, <1>7 DEF Elsewhere, RivalClaims, RivalLooks, RivalReleases, RivalDrains, LeaseExpires, Purge,
              OnlyRow, OnlyTable
<1> QED BY <1>2, <1>3, <1>4, <1>5, <1>6, <1>7 DEF Shutdown

LEMMA UseAlways == Spec => []UseInv
<1>1. Init => UseInv
  <2> SUFFICES ASSUME Init PROVE UseInv
    OBVIOUS
  <2>1. KeyInv /\ HandedInv /\ UsedInv
    BY DEF Init, KeyInv, HandedInv, UsedInv, Using
  <2>2. \A s \in Requests : ses[s].queued = 0 /\ ses[s].pending = {} /\ ses[s].hidden = {}
    BY DEF Init, Blank
  <2>3. \A s \in Requests : ~Closing(s)
    BY DEF Init, Closing
  <2> QED BY <2>1, <2>2, <2>3 DEF UseInv, PendingInv, FreshInv
<1>2. TypeInv /\ TypeInv' /\ HeldInv /\ UseInv /\ [Next]_vars => UseInv'
  <2> SUFFICES ASSUME TypeInv, TypeInv', HeldInv, UseInv, [Next]_vars PROVE UseInv'
    OBVIOUS
  <2>1. CASE UNCHANGED vars
    <3>1. Walks
      BY <2>1, WalkEndAll DEF vars
    <3>2. Changes
      BY <2>1, <3>1, ChangeLight DEF vars
    <3> QED BY <2>1, <3>1, <3>2, UseKept DEF vars
  <2> QED BY <2>1, RequestUse, OtherUse DEF Next
<1> QED BY <1>1, <1>2, TypesAlways, HeldAlways, PTL DEF Spec
-------------------------------------------------------------------------------
(* Second, the leases.  A session in the registry counts at least as many  *)
(* queued requests as it has entries, and is being closed only when it     *)
(* retires and has none: else the sweep could leave a session to requests  *)
(* that a close under way takes away from it.                              *)

Listed(s) == \E k \in Keys : reg[k] = s
Gate(s) == {r \in Requests : pc[r] = "gate" /\ req[r].ses = s}
Resending(s) == {r \in Requests : pc[r] = "resend" /\ req[r].ses = s}
Entries(s) == Gate(s) \cup ses[s].pending
CloseEnding(s) == \E t \in tasks : t.ses = s /\ t.kind = "close" /\ t.at = "end"
RetireDue(s) == \E t \in tasks : t.ses = s /\ t.kind = "retire" /\ t.at = "start"
Minded(s) == \E t \in tasks : t.ses = s /\ (t.kind = "retire" \/ t.at = "start")

Tally(E, n) == IsFiniteSet(E) /\ Cardinality(E) <= n

Tended(s) ==
  Listed(s) /\ ~RetireDue(s) =>
    /\ Tally(Entries(s), ses[s].queued)
    /\ Resending(s) \subseteq ses[s].pending
    /\ Closing(s) => ses[s].retire /\ ses[s].queued = 0

Tracked(s) ==
  ses[s].lease =>
    \/ Listed(s)
    \/ pc[s] \in Creating
    \/ Minded(s)
    \/ ses[s].stray
    \/ ses[s].retire /\ Visible(s) /\ ~CloseEnding(s)

LeaseInv == \A s \in Requests : Tended(s) /\ Tracked(s)

LEMMA TallyLess ==
  ASSUME NEW E, NEW n \in Nat, NEW r \in E, Tally(E, n)
  PROVE  Tally(E \ {r}, Less(n)) /\ n # 0
<1>1. IsFiniteSet(E \ {r}) /\ Cardinality(E \ {r}) = Cardinality(E) - 1 /\ Cardinality(E) \in Nat
  BY FS_RemoveElement, FS_CardinalityType DEF Tally
<1>2. Cardinality(E \ {r}) \in Nat
  BY <1>1, FS_CardinalityType
<1> QED BY <1>1, <1>2 DEF Tally, Less

LEMMA TallyMore ==
  ASSUME NEW E, NEW n \in Nat, NEW r, Tally(E, n)
  PROVE  Tally(E \cup {r}, n + 1)
<1>1. IsFiniteSet(E) /\ Cardinality(E) \in Nat
  BY FS_CardinalityType DEF Tally
<1>2. /\ IsFiniteSet(E \cup {r})
      /\ Cardinality(E \cup {r}) = Cardinality(E) \/ Cardinality(E \cup {r}) = Cardinality(E) + 1
  BY <1>1, FS_AddElement
<1> QED BY <1>1, <1>2 DEF Tally

LEMMA TallyZero ==
  ASSUME NEW E, Tally(E, 0)
  PROVE  E = {}
<1>1. Cardinality(E) \in Nat
  BY FS_CardinalityType DEF Tally
<1> QED BY <1>1, FS_EmptySet DEF Tally

LEMMA TallyEmpty == Tally({}, 0)
BY FS_EmptySet DEF Tally

(* The clean-ups of a session stay.                                        *)
SameTasks(s) == \A t \in tasks \cup tasks' : t.ses = s => (t \in tasks <=> t \in tasks')

LEMMA TasksSame ==
  ASSUME NEW s, SameTasks(s)
  PROVE  /\ Closing(s)' <=> Closing(s)
         /\ CloseEnding(s)' <=> CloseEnding(s)
         /\ RetireDue(s)' <=> RetireDue(s)
         /\ Minded(s)' <=> Minded(s)
BY DEF SameTasks, Closing, CloseEnding, RetireDue, Minded

(* The requests of a session stay where they are, as far as it matters.    *)
SameUsers(s) ==
  /\ Gate(s)' = Gate(s)
  /\ Resending(s)' \subseteq Resending(s)
  /\ pc[s] \in Creating => pc'[s] \in Creating

SameSession(s) ==
  /\ ses'[s].lease = ses[s].lease /\ ses'[s].queued = ses[s].queued
  /\ ses'[s].pending = ses[s].pending /\ ses'[s].retire = ses[s].retire
  /\ ses'[s].stray = ses[s].stray

LEMMA Undisturbed ==
  ASSUME NEW s \in Requests, Tended(s), Tracked(s), SameTasks(s), SameUsers(s), SameSession(s),
         Listed(s)' <=> Listed(s)
  PROVE  Tended(s)' /\ Tracked(s)'
<1>1. Entries(s)' = Entries(s)
  BY DEF Entries, SameUsers, SameSession
<1>2. Tended(s)'
  BY <1>1, TasksSame DEF Tended, SameUsers, SameSession
<1>3. Visible(s)' <=> Visible(s)
  BY DEF Visible, SameSession
<1>4. Tracked(s)'
  BY <1>3, TasksSame DEF Tracked, SameUsers, SameSession
<1> QED BY <1>2, <1>4

(* A session outside the registry with a clean-up that gives its lease     *)
(* back, or marked.                                                        *)
LEMMA LeftBehind ==
  ASSUME NEW s, ~Listed(s)', Minded(s)' \/ ses'[s].stray \/ ~ses'[s].lease
  PROVE  Tended(s)' /\ Tracked(s)'
BY DEF Tended, Tracked

LEMMA StartMinds ==
  ASSUME NEW s, NEW by, NEW kind \in {"close", "retire"}, Start(s, by, kind) \in tasks'
  PROVE  Minded(s)' /\ (kind = "retire" => RetireDue(s)')
BY DEF Start, Minded, RetireDue

LEMMA SameList ==
  ASSUME reg' = reg, NEW s
  PROVE  Listed(s)' <=> Listed(s)
BY DEF Listed
-------------------------------------------------------------------------------
(* A request acts on its session s: where the requests of s are after it,  *)
(* and the other sessions do not notice.                                   *)
LEMMA ActsUsers ==
  ASSUME TypeInv, UseInv, NEW r \in Requests, NEW w, NEW s, Acts(r, w, s)
  PROVE  /\ Gate(s)' = (Gate(s) \ {r}) \cup (IF w = "gate" THEN {r} ELSE {})
         /\ Resending(s)' = (Resending(s) \ {r}) \cup (IF w = "resend" THEN {r} ELSE {})
         /\ pc[s] \notin Creating
<1>1. pc'[r] = w /\ \A q \in Requests \ {r} : pc'[q] = pc[q] /\ req'[q] = req[q]
  BY DEF Acts, TypeInv, RequestsOK
<1>2. w \in {"gate", "resend"} => req'[r].ses = s
  BY DEF Acts
<1>3. pc[s] \notin Creating
  BY DEF Acts, UseInv, UsedInv, Unready, Early
<1> QED BY <1>1, <1>2, <1>3 DEF Gate, Resending

LEMMA ActsOthers ==
  ASSUME TypeInv, LeaseInv, NEW r \in Requests, NEW w, NEW s, Acts(r, w, s),
         Tended(s)' /\ Tracked(s)'
  PROVE  LeaseInv'
<1> SUFFICES ASSUME NEW y \in Requests, y # s PROVE Tended(y)' /\ Tracked(y)'
  BY DEF LeaseInv
<1>1. pc'[r] = w /\ \A q \in Requests \ {r} : pc'[q] = pc[q] /\ req'[q] = req[q]
  BY DEF Acts, TypeInv, RequestsOK
<1>2. req[r].ses # y /\ (w \in {"gate", "resend"} => req'[r].ses # y)
  BY DEF Acts
<1>3. pc[r] \notin Creating
  BY DEF Acts, Using, Creating
<1>4. SameUsers(y)
  BY <1>1, <1>2, <1>3 DEF SameUsers, Gate, Resending
<1>5. SameTasks(y)
  BY DEF SameTasks, Acts
<1>6. SameSession(y)
  BY DEF SameSession, Acts
<1>7. reg' = reg
  BY DEF Acts
<1> QED BY <1>4, <1>5, <1>6, <1>7, SameList, Undisturbed DEF LeaseInv

(* The session is left as it is.                                           *)
LEMMA ActsQuiet ==
  ASSUME TypeInv, UseInv, LeaseInv, NEW r \in Requests, NEW w, NEW s, Acts(r, w, s),
         ses' = ses, tasks' = tasks, pc[r] # "gate", w \notin {"gate", "resend"}
  PROVE  LeaseInv'
<1>1. SameUsers(s)
  <2>1. r \notin Gate(s)
    BY DEF Gate
  <2> QED BY <2>1, ActsUsers DEF SameUsers
<1>2. SameTasks(s) /\ SameSession(s) /\ reg' = reg /\ s \in Requests
  BY DEF SameTasks, SameSession, Acts
<1>3. Tended(s)' /\ Tracked(s)'
  BY <1>1, <1>2, SameList, Undisturbed DEF LeaseInv
<1> QED BY <1>3, ActsOthers

(* The session is reconnected, or that fails: it is listed, or marked.     *)
LEMMA ActsReconnect ==
  ASSUME TypeInv, UseInv, LeaseInv, NEW r \in Requests, NEW w, NEW s, Acts(r, w, s),
         ses' = Reconnected(s) \/ ses' \in NotReconnected(s),
         tasks' = tasks, pc[r] # "gate", w \notin {"gate", "resend"}
  PROVE  LeaseInv'
<1>1. s \in Requests /\ reg' = reg /\ ses[s].key \in Keys
  BY DEF Acts, UseInv, UsedInv
<1>2. /\ ses'[s].queued = ses[s].queued /\ ses'[s].pending = ses[s].pending
      /\ ses'[s].retire = ses[s].retire
      /\ ses'[s].stray = (ses[s].stray \/ reg[ses[s].key] # s)
  BY <1>1, ReconnectParts
<1>3. r \notin Gate(s)
  BY DEF Gate
<1>4. Gate(s)' = Gate(s) /\ Resending(s)' \subseteq Resending(s)
  BY <1>3, ActsUsers
<1>5. Entries(s)' = Entries(s)
  BY <1>2, <1>4 DEF Entries
<1>6. SameTasks(s)
  BY DEF SameTasks
<1>7. Tended(s)'
  BY <1>1, <1>2, <1>4, <1>5, <1>6, TasksSame, SameList DEF Tended, LeaseInv
<1>8. Tracked(s)'
  BY <1>1, <1>2 DEF Tracked, Listed
<1> QED BY <1>7, <1>8, ActsOthers

LEMMA ReconnectTracked ==
  ASSUME TypeInv, UseInv, LeaseInv, NEW r \in Requests,
         SubmitClosed(r) \/ Reconnect(r) \/ AbandonedAfterSubmit(r)
  PROVE  LeaseInv'
<1>1. pc[r] # "gate"
  BY DEF SubmitClosed, Reconnect, AbandonedAfterSubmit
<1>2. CASE SubmitClosed(r)
  BY <1>1, <1>2, SubmitClosedActs, ActsQuiet
<1>3. CASE AbandonedAfterSubmit(r)
  BY <1>1, <1>3, AbandonedActs, ActsQuiet
<1>4. CASE Reconnect(r)
  BY <1>1, <1>4, ReconnectActs, ActsReconnect
<1> QED BY <1>2, <1>3, <1>4

LEMMA ResendTracked ==
  ASSUME TypeInv, UseInv, LeaseInv, NEW r \in Requests, Resend(r)
  PROVE  LeaseInv'
<1>1. pc[r] = "resend" /\ tasks' = tasks
  BY ResendActs
<1> PICK s : s = req[r].ses
  OBVIOUS
<1>2. CASE ses' = Reconnected(s) /\ \E w \in {"streaming", "done"} : Acts(r, w, s)
  BY <1>1, <1>2, ActsReconnect
<1>3. ASSUME NEW after \in NotReconnected(s), Acts(r, "done", s),
             ses'[s] = [after[s] EXCEPT !.pending = @ \ {r}, !.queued = Less(@)]
      PROVE  LeaseInv'
  <2>1. s \in Requests /\ reg' = reg /\ ses[s].key \in Keys /\ ses[s].queued \in Nat
    BY <1>3 DEF Acts, UseInv, UsedInv, TypeInv, SessionsOK, SessionSet
  <2>2. /\ after[s].queued = ses[s].queued /\ after[s].pending = ses[s].pending
        /\ after[s].retire = ses[s].retire /\ after[s] \in SessionSet
        /\ after[s].stray = (ses[s].stray \/ reg[ses[s].key] # s)
    BY <2>1, ReconnectParts
  <2>3. /\ ses'[s].queued = Less(ses[s].queued) /\ ses'[s].pending = ses[s].pending \ {r}
        /\ ses'[s].retire = ses[s].retire
        /\ ses'[s].stray = (ses[s].stray \/ reg[ses[s].key] # s)
    BY <1>3, <2>2 DEF SessionSet
  <2>4. r \notin Gate(s) /\ r \in Resending(s)
    BY <1>1 DEF Gate, Resending
  <2>5. Gate(s)' = Gate(s) /\ Resending(s)' = Resending(s) \ {r}
    BY <1>3, <2>4, ActsUsers
  <2>6. SameTasks(s)
    BY <1>1 DEF SameTasks
  <2>7. Tended(s)'
    <3> SUFFICES ASSUME Listed(s), ~RetireDue(s)
                 PROVE  /\ Tally(Entries(s)', Less(ses[s].queued))
                        /\ Resending(s)' \subseteq ses'[s].pending
                        /\ Closing(s) => ses[s].retire /\ Less(ses[s].queued) = 0
      BY <2>1, <2>3, <2>6, TasksSame, SameList DEF Tended
    <3>1. /\ Tally(Entries(s), ses[s].queued) /\ Resending(s) \subseteq ses[s].pending
          /\ Closing(s) => ses[s].retire /\ ses[s].queued = 0
      BY <2>1 DEF LeaseInv, Tended
    <3>2. Entries(s)' = Entries(s) \ {r} /\ r \in Entries(s)
      BY <2>3, <2>4, <2>5, <3>1 DEF Entries
    <3>3. Tally(Entries(s)', Less(ses[s].queued))
      BY <2>1, <3>1, <3>2, TallyLess
    <3>4. Resending(s)' \subseteq ses'[s].pending
      BY <2>3, <2>5, <3>1
    <3> QED BY <3>1, <3>3, <3>4 DEF Less
  <2>8. Tracked(s)'
    BY <2>1, <2>3 DEF Tracked, Listed
  <2> QED BY <1>3, <2>7, <2>8, ActsOthers
<1> QED BY <1>2, <1>3, ResendActs
(* A session that serves one request less, or is found retiring: it is     *)
(* closed when it retires and has no entries left.                         *)
LEMMA RetireSound ==
  ASSUME TypeInv, LeaseInv, NEW s \in Requests, NEW x \in SessionSet, NEW by, RetireIfReady(s, x, by),
         reg' = reg, pc[s] \notin Creating,
         x.lease = ses[s].lease, x.stray = ses[s].stray, ses[s].retire => x.retire,
         Listed(s) /\ ~RetireDue(s) =>
           /\ Tally(Gate(s)' \cup x.pending, x.queued)
           /\ Resending(s)' \subseteq x.pending
           /\ Closing(s) => x.retire /\ x.queued = 0
  PROVE  Tended(s)' /\ Tracked(s)'
<1>1. /\ ses'[s].lease = x.lease /\ ses'[s].queued = x.queued /\ ses'[s].pending = x.pending
      /\ ses'[s].retire = x.retire /\ ses'[s].stray = x.stray
      /\ tasks' = IF Retired(x) THEN tasks \cup {Start(s, by, "close")} ELSE tasks
  BY RetireParts
<1>2. Start(s, by, "close").kind = "close" /\ Start(s, by, "close").at = "start"
  BY DEF Start
<1>3. Entries(s)' = Gate(s)' \cup x.pending
  BY <1>1 DEF Entries
<1>4. RetireDue(s)' <=> RetireDue(s)
  BY <1>1, <1>2 DEF RetireDue
<1>5. Closing(s)' => Closing(s) \/ (x.retire /\ x.queued = 0)
  BY <1>1 DEF Closing, Retired
<1>6. Tended(s)'
  BY <1>1, <1>3, <1>4, <1>5, SameList DEF Tended
<1>7. CASE Retired(x)
  <2>1. Minded(s)'
    BY <1>1, <1>7, StartMinds
  <2> QED BY <1>6, <2>1 DEF Tracked
<1>8. CASE ~Retired(x)
  <2>1. SameTasks(s)
    BY <1>1, <1>8 DEF SameTasks
  <2>2. x.retire => Visible(s)'
    BY <1>1, <1>8 DEF Visible, Retired, SessionSet
  <2>3. Tracked(s)
    BY DEF LeaseInv
  <2>4. Tracked(s)'
    BY <1>1, <2>1, <2>2, <2>3, TasksSame, SameList DEF Tracked
  <2> QED BY <1>6, <2>4
<1> QED BY <1>7, <1>8

LEMMA QueueTracked ==
  ASSUME TypeInv, UseInv, LeaseInv, NEW r \in Requests, Queue(r)
  PROVE  LeaseInv'
<1> PICK s : s = req[r].ses
  OBVIOUS
<1>1. pc[r] \in {"submit", "queue"} /\ r \notin Gate(s)
  BY QueueActs DEF Gate
<1>2. ASSUME ses[s].retire, RetireIfReady(s, ses[s], r), Acts(r, "done", s)
      PROVE  LeaseInv'
  <2>1. s \in Requests /\ ses[s] \in SessionSet /\ reg' = reg
    BY <1>2 DEF Acts, TypeInv, SessionsOK
  <2>2. Gate(s)' = Gate(s) /\ Resending(s)' \subseteq Resending(s) /\ pc[s] \notin Creating
    BY <1>1, <1>2, ActsUsers
  <2>3. Listed(s) /\ ~RetireDue(s) =>
           /\ Tally(Gate(s)' \cup ses[s].pending, ses[s].queued)
           /\ Resending(s)' \subseteq ses[s].pending
           /\ Closing(s) => ses[s].retire /\ ses[s].queued = 0
    BY <2>1, <2>2 DEF LeaseInv, Tended, Entries
  <2>4. Tended(s)' /\ Tracked(s)'
    BY <1>2, <2>1, <2>2, <2>3, RetireSound
  <2> QED BY <1>2, <2>4, ActsOthers
<1>3. ASSUME ses' = ses, tasks' = tasks, Acts(r, "done", s)
      PROVE  LeaseInv'
  BY <1>1, <1>3, ActsQuiet
<1>4. ASSUME ~ses[s].retire, tasks' = tasks, ses'[s] = [ses[s] EXCEPT !.queued = @ + 1], Acts(r, "gate", s)
      PROVE  LeaseInv'
  <2>1. s \in Requests /\ ses[s] \in SessionSet /\ reg' = reg /\ ses[s].queued \in Nat
    BY <1>4 DEF Acts, TypeInv, SessionsOK, SessionSet
  <2>2. Gate(s)' = Gate(s) \cup {r} /\ Resending(s)' \subseteq Resending(s) /\ pc[s] \notin Creating
    BY <1>1, <1>4, ActsUsers
  <2>3. /\ ses'[s].lease = ses[s].lease /\ ses'[s].queued = ses[s].queued + 1
        /\ ses'[s].pending = ses[s].pending /\ ses'[s].retire = ses[s].retire
        /\ ses'[s].stray = ses[s].stray
    BY <1>4, <2>1 DEF SessionSet
  <2>4. SameTasks(s)
    BY <1>4 DEF SameTasks
  <2>5. Entries(s)' = Entries(s) \cup {r}
    BY <2>2, <2>3 DEF Entries
  <2>6. Tally(Entries(s), ses[s].queued) => Tally(Entries(s)', ses'[s].queued)
    BY <2>1, <2>3, <2>5, TallyMore
  <2>7. Tended(s)'
    BY <1>4, <2>1, <2>2, <2>3, <2>4, <2>6, TasksSame, SameList DEF Tended, LeaseInv
  <2>8. Tracked(s)'
    BY <1>4, <2>1, <2>2, <2>3, <2>4, TasksSame, SameList DEF Tracked, LeaseInv
  <2> QED BY <1>4, <2>7, <2>8, ActsOthers
<1> QED BY <1>2, <1>3, <1>4, QueueActs

LEMMA EnqueueTracked ==
  ASSUME TypeInv, UseInv, LeaseInv, NEW r \in Requests, Enqueue(r)
  PROVE  LeaseInv'
<1> PICK s : s = req[r].ses
  OBVIOUS
<1>1. PICK w \in {"streaming", "resend"} : Acts(r, w, s)
  BY EnqueueActs
<1>2. tasks' = tasks /\ r \in Gate(s)
  BY EnqueueActs DEF Gate
<1>3. s \in Requests /\ ses[s] \in SessionSet /\ reg' = reg
  BY <1>1 DEF Acts, TypeInv, SessionsOK
<1>4. /\ ses'[s].lease = ses[s].lease /\ ses'[s].queued = ses[s].queued
      /\ ses'[s].pending = ses[s].pending \cup {r} /\ ses'[s].retire = ses[s].retire
      /\ ses'[s].stray = ses[s].stray
  <2>1. ses'[s] = [ses[s] EXCEPT !.pending = @ \cup {r}]
    BY EnqueueActs
  <2> QED BY <1>3, <2>1 DEF SessionSet
<1>5. /\ Gate(s)' = Gate(s) \ {r} /\ Resending(s)' \subseteq Resending(s) \cup {r}
      /\ pc[s] \notin Creating
  BY <1>1, ActsUsers
<1>6. Entries(s)' = Entries(s)
  BY <1>2, <1>4, <1>5 DEF Entries
<1>7. SameTasks(s)
  BY <1>2 DEF SameTasks
<1>8. Tended(s)'
  BY <1>3, <1>4, <1>5, <1>6, <1>7, TasksSame, SameList DEF Tended, LeaseInv
<1>9. Visible(s)'
  BY <1>4 DEF Visible
<1>10. Tracked(s)'
  BY <1>3, <1>4, <1>5, <1>7, <1>9, TasksSame, SameList DEF Tracked, LeaseInv
<1> QED BY <1>1, <1>8, <1>10, ActsOthers

LEMMA GateFailsTracked ==
  ASSUME TypeInv, UseInv, LeaseInv, NEW r \in Requests, GateFails(r)
  PROVE  LeaseInv'
<1> PICK s : s = req[r].ses
  OBVIOUS
<1> DEFINE x == [ses[s] EXCEPT !.queued = Less(@)]
<1>1. /\ Acts(r, "done", s) /\ tasks' = tasks /\ pc[r] = "gate"
      /\ ses'[s] = [x EXCEPT !.stray = @ \/ (Retired(x) /\ reg[x.key] # s)]
  BY GateFailsActs
<1>2. /\ s \in Requests /\ ses[s] \in SessionSet /\ reg' = reg /\ ses[s].key \in Keys
      /\ ses[s].queued \in Nat /\ Less(ses[s].queued) \in Nat
  BY <1>1, LessTyped DEF Acts, TypeInv, SessionsOK, UseInv, UsedInv, SessionSet
<1>3. /\ x \in SessionSet /\ x.key = ses[s].key /\ x.lease = ses[s].lease /\ x.queued = Less(ses[s].queued)
      /\ x.pending = ses[s].pending /\ x.retire = ses[s].retire /\ x.stray = ses[s].stray
  BY <1>2 DEF SessionSet
<1> HIDE DEF x
<1>4. /\ ses'[s].lease = x.lease /\ ses'[s].queued = x.queued
      /\ ses'[s].pending = x.pending /\ ses'[s].retire = x.retire
      /\ ses'[s].stray = (x.stray \/ (Retired(x) /\ reg[x.key] # s))
  BY <1>1, <1>3 DEF SessionSet
<1>5. r \in Gate(s) /\ r \notin ses[s].pending
  BY <1>1, <1>2 DEF Gate, UseInv, PendingInv, AfterGate
<1>6. Gate(s)' = Gate(s) \ {r} /\ Resending(s)' \subseteq Resending(s) /\ pc[s] \notin Creating
  BY <1>1, ActsUsers
<1>7. Entries(s)' = Entries(s) \ {r} /\ r \in Entries(s)
  BY <1>3, <1>4, <1>5, <1>6 DEF Entries
<1>8. SameTasks(s)
  BY <1>1 DEF SameTasks
<1>9. Tally(Entries(s), ses[s].queued) => Tally(Entries(s)', ses'[s].queued)
  BY <1>2, <1>3, <1>4, <1>7, TallyLess
<1>10. ses[s].queued = 0 => ses'[s].queued = 0
  BY <1>3, <1>4 DEF Less
<1>11. Tended(s)'
  BY <1>2, <1>3, <1>4, <1>6, <1>8, <1>9, <1>10, TasksSame, SameList DEF Tended, LeaseInv
<1>12. x.retire => Visible(s)' \/ Listed(s)' \/ ses'[s].stray
  <2>1. CASE Retired(x)
    BY <1>2, <1>3, <1>4, <2>1 DEF Listed
  <2>2. CASE ~Retired(x)
    BY <1>2, <1>3, <1>4, <2>2 DEF Retired, Visible
  <2> QED BY <2>1, <2>2
<1>13. Tracked(s)'
  BY <1>2, <1>3, <1>4, <1>6, <1>8, <1>12, TasksSame, SameList DEF Tracked, LeaseInv
<1> QED BY <1>1, <1>11, <1>13, ActsOthers

LEMMA LeaveTracked ==
  ASSUME TypeInv, UseInv, LeaseInv, NEW r \in Requests, ClientLeaves(r) \/ FirstEventTimeout(r)
  PROVE  LeaseInv'
<1> PICK s : s = req[r].ses
  OBVIOUS
<1>1. Acts(r, "done", s) /\ pc[r] = "streaming"
  BY ClientLeavesActs, FirstEventTimeoutActs
<1>2. s \in Requests /\ ses[s] \in SessionSet /\ reg' = reg /\ ses[s].queued \in Nat
  BY <1>1 DEF Acts, TypeInv, SessionsOK, SessionSet
<1>3. CASE FirstEventTimeout(r)
  <2>1. Start(s, r, "retire") \in tasks'
    BY <1>3, FirstEventTimeoutActs
  <2>2. Tended(s)' /\ Tracked(s)'
    BY <2>1, StartMinds DEF Tended, Tracked
  <2> QED BY <1>1, <2>2, ActsOthers
<1>4. CASE ClientLeaves(r)
  <2> DEFINE x == Hide(ses[s], r)
  <2>1. RetireIfReady(s, x, r)
    BY <1>4, ClientLeavesActs
  <2>2. /\ x \in SessionSet /\ x.lease = ses[s].lease /\ x.stray = ses[s].stray
        /\ x.pending = ses[s].pending \ {r}
        /\ r \in ses[s].pending => x.queued = Less(ses[s].queued) /\ x.retire
        /\ r \notin ses[s].pending => x = ses[s]
    BY <1>2, HideParts
  <2> HIDE DEF x
  <2>3. r \notin Gate(s) /\ r \notin Resending(s)
    BY <1>1 DEF Gate, Resending
  <2>4. Gate(s)' = Gate(s) /\ Resending(s)' = Resending(s) /\ pc[s] \notin Creating
    BY <1>1, <2>3, ActsUsers
  <2>5. ASSUME Listed(s), ~RetireDue(s)
        PROVE  /\ Tally(Gate(s)' \cup x.pending, x.queued)
               /\ Resending(s)' \subseteq x.pending
               /\ Closing(s) => x.retire /\ x.queued = 0
    <3>1. /\ Tally(Entries(s), ses[s].queued) /\ Resending(s) \subseteq ses[s].pending
          /\ Closing(s) => ses[s].retire /\ ses[s].queued = 0
      BY <1>2, <2>5 DEF LeaseInv, Tended
    <3>2. CASE r \in ses[s].pending
      <4>1. Gate(s)' \cup x.pending = Entries(s) \ {r} /\ r \in Entries(s)
        BY <2>2, <2>3, <2>4, <3>2 DEF Entries
      <4>2. Tally(Entries(s) \ {r}, x.queued) /\ ses[s].queued # 0
        BY <1>2, <2>2, <3>1, <3>2, <4>1, TallyLess
      <4> QED BY <2>2, <2>3, <2>4, <3>1, <4>1, <4>2
    <3>3. CASE r \notin ses[s].pending
      BY <2>2, <2>4, <3>1, <3>3 DEF Entries
    <3> QED BY <3>2, <3>3
  <2>6. Tended(s)' /\ Tracked(s)'
    BY <1>2, <2>1, <2>2, <2>4, <2>5, RetireSound
  <2> QED BY <1>1, <2>6, ActsOthers
<1> QED BY <1>3, <1>4
-------------------------------------------------------------------------------
(* Requests that neither come to the gate or to a new send, nor leave the  *)
(* gate or a creation.                                                     *)
LEMMA QuietUsers ==
  ASSUME TypeInv, NEW r \in Requests, NEW w, pc' = [pc EXCEPT ![r] = w],
         \A q \in Requests \ {r} : req'[q] = req[q],
         pc[r] # "gate", w \notin {"gate", "resend"}
  PROVE  \A s \in Requests : s # r \/ pc[r] \notin Creating \/ w \in Creating => SameUsers(s)
<1>1. pc'[r] = w /\ \A q \in Requests \ {r} : pc'[q] = pc[q] /\ req'[q] = req[q]
  BY DEF TypeInv, RequestsOK
<1> QED BY <1>1 DEF SameUsers, Gate, Resending

LEMMA EndAllUsers ==
  ASSUME TypeInv, (\E R : EndAll(R)) \/ UNCHANGED <<pc, req>>
  PROVE  \A s \in Requests : SameUsers(s)
<1>1. \A q \in Requests : \/ pc'[q] = pc[q] /\ req'[q] = req[q]
                          \/ pc[q] = "streaming" /\ pc'[q] = "done"
  BY DEF EndAll, TypeInv, RequestsOK
<1> QED BY <1>1 DEF SameUsers, Gate, Resending, Creating

(* Only requests move.                                                     *)
LEMMA QuietTracked ==
  ASSUME LeaseInv, UNCHANGED <<reg, ses, tasks>>, \A s \in Requests : SameUsers(s)
  PROVE  LeaseInv'
<1> SUFFICES ASSUME NEW s \in Requests PROVE Tended(s)' /\ Tracked(s)'
  BY DEF LeaseInv
<1>1. SameTasks(s) /\ SameSession(s)
  BY DEF SameTasks, SameSession
<1> QED BY <1>1, SameList, Undisturbed DEF LeaseInv

(* Sessions leave the registry: closed, dropped and marked, or kept while  *)
(* somebody uses them.                                                     *)
LEMMA DetachTracked ==
  ASSUME TypeInv, UseInv, LeaseInv, NEW K \in SUBSET Keys, NEW keep \in SUBSET K, NEW drop, 
         Detach(K, keep, drop), 
         \A k \in keep : reg[k] # None /\ Visible(reg[k]),
         \A s \in Requests : SameUsers(s)
  PROVE  LeaseInv'
<1> SUFFICES ASSUME NEW s \in Requests PROVE Tended(s)' /\ Tracked(s)'
  BY DEF LeaseInv
<1> DEFINE shut == {reg[k] : k \in K \ keep} \ {None}
           lost == {reg[k] : k \in drop}
           kept == {reg[k] : k \in keep}
<1>1. PICK x \in SessionSet : x = ses[s]
  BY DEF TypeInv, SessionsOK
<1>2. /\ ses'[s] = IF s \in shut THEN [x EXCEPT !.closed = TRUE, !.stray = @ \/ s \in lost]
                   ELSE IF s \in kept THEN [x EXCEPT !.retire = TRUE] ELSE x
      /\ tasks' = tasks \cup {Start(y, None, "close") : y \in shut \ lost}
      /\ reg' = [k \in Keys |-> IF k \in K THEN None ELSE reg[k]]
  BY <1>1 DEF Detach
<1>3. \A k, j \in Keys : reg[k] = s /\ reg[j] = s => j = k
  BY NoneIsNoRequest DEF UseInv, KeyInv
<1>4. s # None
  BY NoneIsNoRequest
<1>5. CASE s \in shut
  <2>1. ~Listed(s)'
    BY <1>2, <1>3, <1>4, <1>5 DEF Listed
  <2>2. CASE s \in lost
    <3>1. ses'[s].stray
      BY <1>2, <1>5, <2>2 DEF SessionSet
    <3> QED BY <2>1, <3>1, LeftBehind
  <2>3. CASE s \notin lost
    <3>1. Start(s, None, "close") \in tasks'
      BY <1>2, <1>5, <2>3
    <3>2. Minded(s)'
      BY <3>1, StartMinds
    <3> QED BY <2>1, <3>2, LeftBehind
  <2> QED BY <2>2, <2>3
<1>6. CASE s \notin shut
  <2>1. SameTasks(s)
    <3>1. \A y : Start(y, None, "close").ses = y
      BY DEF Start
    <3> QED BY <1>2, <1>6, <3>1 DEF SameTasks
  <2>2. CASE s \in kept
    <3>1. PICK k \in keep : reg[k] = s
      BY <2>2
    <3>2. ~Listed(s)' /\ Listed(s) /\ Visible(s)
      BY <1>2, <1>3, <1>4, <3>1 DEF Listed
    <3>3. /\ ses'[s].retire /\ ses'[s].lease = ses[s].lease /\ ses'[s].queued = ses[s].queued
          /\ ses'[s].pending = ses[s].pending
      BY <1>1, <1>2, <1>6, <2>2 DEF SessionSet
    <3>4. Visible(s)'
      BY <3>2, <3>3 DEF Visible
    <3>5. CASE RetireDue(s)
      <4>1. Minded(s)
        BY <3>5 DEF RetireDue, Minded
      <4> QED BY <2>1, <3>2, <4>1, TasksSame, LeftBehind
    <3>6. CASE ~RetireDue(s)
      <4>1. ~Closing(s)
        <5> SUFFICES ASSUME Closing(s) PROVE FALSE
          OBVIOUS
        <5>1. ses[s].queued = 0 /\ Tally(Entries(s), ses[s].queued)
          BY <3>2, <3>6 DEF LeaseInv, Tended
        <5>2. Entries(s) = {}
          BY <5>1, TallyZero
        <5> QED BY <3>2, <5>1, <5>2 DEF Visible, Entries
      <4>2. ~CloseEnding(s)'
        BY <2>1, <4>1, TasksSame DEF Closing, CloseEnding
      <4> QED BY <3>2, <3>3, <3>4, <4>2 DEF Tended, Tracked
    <3> QED BY <3>5, <3>6
  <2>3. CASE s \notin kept
    <3>1. SameSession(s)
      BY <1>1, <1>2, <1>6, <2>3 DEF SameSession
    <3>2. \A k \in Keys : reg[k] = s => k \notin K
      BY <1>4, <1>6, <2>3
    <3>3. Listed(s)' <=> Listed(s)
      BY <1>2, <1>4, <3>2 DEF Listed
    <3> QED BY <2>1, <3>1, <3>3, Undisturbed DEF LeaseInv
  <2> QED BY <2>2, <2>3
<1> QED BY <1>5, <1>6
LEMMA EnterTracked ==
  ASSUME TypeInv, HeldInv, UseInv, LeaseInv, NEW r \in Requests, Enter(r)
  PROVE  LeaseInv'
<1>1. PICK P \in Sweeps : 
        \/ EnterReuse(r, P) \/ EnterRefused(r, P) \/ EnterJoin(r, P)
        \/ EnterAliasMiss(r, P) \/ EnterPublish(r, P) \/ EnterFull(r, P)
  BY DEF Enter
<1>2. pc[r] = "enter" /\ pc[r] \notin Creating
  BY DEF Enter, Creating
<1>3. CASE ~EnterReuse(r, P)
  <2>1. PICK w \in {"done", "forwarded", "create"} \cup Waiting : pc' = [pc EXCEPT ![r] = w]
    BY <1>1, <1>2, <1>3, EnterMoves
  <2>2. w \notin {"gate", "resend"}
    BY DEF Waiting
  <2>3. \A s \in Requests : SameUsers(s)
    BY <1>1, <1>2, <1>3, <2>1, <2>2, EnterMoves, QuietUsers
  <2>4. PICK K \in SUBSET Keys : \E keep \in SUBSET K : \E drop :
           /\ Detach(K, keep, drop)
           /\ \A k \in keep : reg[k] # None /\ Visible(reg[k])
    BY <1>1, <1>2, <1>3, EnterKeeps
  <2> QED BY <2>3, <2>4, DetachTracked
<1>4. CASE EnterReuse(r, P)
  <2>1. pc' = [pc EXCEPT ![r] = "submit"] /\ \A q \in Requests \ {r} : req'[q] = req[q]
    BY <1>4 DEF EnterReuse, TypeInv, RequestsOK
  <2>2. \A s \in Requests : SameUsers(s)
    <3>1. pc[r] # "gate" /\ "submit" \notin {"gate", "resend"}
      BY <1>2
    <3> QED BY <1>2, <2>1, <3>1, QuietUsers
  <2> SUFFICES ASSUME NEW s \in Requests PROVE Tended(s)' /\ Tracked(s)'
    BY DEF LeaseInv
  <2>3. SameSession(s)
    BY <1>2, <1>4, ReuseLight DEF SameSession
  <2>4. /\ \A k \in Keys : reg'[k] = IF k \in P THEN None ELSE reg[k]
        /\ tasks' = tasks \cup {Start(x, None, "close") : x \in {reg[k] : k \in P}}
    BY <1>2, <1>4, ReuseLight
  <2>5. P \subseteq Keys /\ s # None
    BY SweepsTyped, NoneIsNoRequest
  <2>6. CASE \E k \in P : reg[k] = s
    <3>1. ~Listed(s)'
      BY <2>4, <2>5, <2>6 DEF Listed, UseInv, KeyInv
    <3>2. Start(s, None, "close") \in tasks'
      BY <2>4, <2>6
    <3> QED BY <3>1, <3>2, StartMinds, LeftBehind
  <2>7. CASE ~\E k \in P : reg[k] = s
    <3>1. \A y : Start(y, None, "close").ses = y
      BY DEF Start
    <3>2. SameTasks(s)
      BY <2>4, <2>7, <3>1 DEF SameTasks
    <3>3. Listed(s)' <=> Listed(s)
      BY <2>4, <2>5, <2>7 DEF Listed
    <3> QED BY <2>2, <2>3, <3>2, <3>3, Undisturbed DEF LeaseInv
  <2> QED BY <2>6, <2>7
<1> QED BY <1>3, <1>4

LEMMA WaitTracked ==
  ASSUME TypeInv, HeldInv, UseInv, LeaseInv, NEW r \in Requests,
         JoinSession(r) \/ WakeAgain(r) \/ WakeFailed(r) \/ WaitTimeout(r)
  PROVE  LeaseInv'
<1>1. /\ pc[r] \in Waiting /\ pc[r] # "gate" /\ pc[r] \notin Creating
      /\ req[r].key \in Keys
  BY DEF JoinSession, WakeAgain, WakeFailed, WaitTimeout, Waiting, Creating, Early, TypeInv, RequestsOK, Keyed
<1>2. PICK w \in {"enter", "submit", "done"} : pc' = [pc EXCEPT ![r] = w]
  BY DEF JoinSession, WakeAgain, WakeFailed, WaitTimeout, Again, Ends
<1>3. \A q \in Requests \ {r} : req'[q] = req[q]
  BY DEF JoinSession, WakeAgain, WakeFailed, WaitTimeout, Again, Ends, TypeInv, RequestsOK
<1>4. \A s \in Requests : SameUsers(s)
  BY <1>1, <1>2, <1>3, QuietUsers
<1>5. CASE UNCHANGED <<reg, ses, tasks>>
  BY <1>4, <1>5, QuietTracked
<1>6. CASE ~UNCHANGED <<reg, ses, tasks>>
  <2>1. PICK keep \in {{}, {req[r].key}} :
          /\ Detach({req[r].key}, keep, {})
          /\ keep # {} => reg[req[r].key] = req[r].wait /\ Visible(req[r].wait)
    BY <1>6 DEF JoinSession, WakeAgain, WakeFailed, WaitTimeout
  <2>2. req[r].wait \in Requests
    BY <1>1 DEF TypeInv, RequestsOK, Keyed
  <2>3. \A k \in keep : reg[k] # None /\ Visible(reg[k])
    BY <2>1, <2>2, NoneIsNoRequest
  <2> QED BY <1>1, <1>4, <2>1, <2>3, DetachTracked
<1> QED BY <1>5, <1>6

LEMMA CreatorNotListed ==
  ASSUME HeldInv, NEW r \in Requests, pc[r] \in Creating
  PROVE  ~Listed(r)
<1>1. pc[r] \notin Past /\ r # None
  BY NoneIsNoRequest DEF Creating, Past, Using
<1> QED BY <1>1 DEF HeldInv, RegisteredPast, Listed

(* One creating request and its session.                                   *)
LEMMA CreatorOthers ==
  ASSUME TypeInv, LeaseInv, NEW r \in Requests, NEW w, pc' = [pc EXCEPT ![r] = w],
         \A q \in Requests \ {r} : req'[q] = req[q],
         pc[r] # "gate", w \notin {"gate", "resend"}, reg' = reg,
         \A x \in Requests \ {r} : ses'[x] = ses[x],
         tasks \subseteq tasks', \A t \in tasks' : t \in tasks \/ t.ses = r,
         Tended(r)' /\ Tracked(r)'
  PROVE  LeaseInv'
<1> SUFFICES ASSUME NEW s \in Requests, s # r PROVE Tended(s)' /\ Tracked(s)'
  BY DEF LeaseInv
<1>1. SameUsers(s)
  BY QuietUsers
<1>2. SameTasks(s) /\ SameSession(s)
  BY DEF SameTasks, SameSession
<1> QED BY <1>1, <1>2, SameList, Undisturbed DEF LeaseInv

LEMMA CreationTracked ==
  ASSUME TypeInv, HeldInv, UseInv, LeaseInv, NEW r \in Requests,
         CreateFails(r) \/ Claim(r) \/ ClaimCancelled(r) \/ ClaimFails(r) \/ RegisterFails(r)
  PROVE  LeaseInv'
<1>1. pc[r] \in Creating /\ pc[r] # "gate" /\ reg' = reg
  BY DEF CreateFails, Claim, ClaimCancelled, ClaimFails, RegisterFails, Creating
<1>2. ~Listed(r)'
  BY <1>1, CreatorNotListed, SameList
<1>3. \A x \in Requests \ {r} : ses'[x] = ses[x]
  BY DEF CreateFails, Claim, ClaimCancelled, ClaimFails, RegisterFails, TypeInv, SessionsOK
<1>4. CASE Claim(r)
  <2>1. pc' = [pc EXCEPT ![r] = "register"] /\ req' = req /\ tasks' = tasks
    BY <1>4 DEF Claim
  <2>2. pc'[r] \in Creating
    BY <2>1 DEF Creating, TypeInv, RequestsOK
  <2>3. Tended(r)' /\ Tracked(r)'
    BY <1>2, <2>2 DEF Tended, Tracked
  <2>4. /\ \A q \in Requests \ {r} : req'[q] = req[q]
        /\ tasks \subseteq tasks' /\ \A t \in tasks' : t \in tasks \/ t.ses = r
        /\ "register" \notin {"gate", "resend"}
    BY <2>1
  <2> QED BY <1>1, <1>3, <2>1, <2>3, <2>4, CreatorOthers
<1>5. CASE ~Claim(r)
  <2>1. PICK how \in {"failed", "cancelled"} : CreationFails(r, how)
    BY <1>5 DEF CreateFails, ClaimCancelled, ClaimFails, RegisterFails
  <2>2. /\ Ends(r) /\ \A t \in tasks' : t \in tasks \/ t.ses = r
        /\ tasks' = IF ses'[r].lease THEN tasks \cup {Start(r, r, "close")} ELSE tasks
    BY <2>1, CreationFailsParts
  <2>3. tasks \subseteq tasks'
    BY <2>2
  <2>4. pc' = [pc EXCEPT ![r] = "done"] /\ \A q \in Requests \ {r} : req'[q] = req[q]
    BY <2>2, EndsActs
  <2>5. ses'[r].lease => Minded(r)'
    BY <2>2, StartMinds
  <2>6. Tended(r)' /\ Tracked(r)'
    BY <1>2, <2>5, LeftBehind
  <2> QED BY <1>1, <1>3, <2>2, <2>3, <2>4, <2>6, CreatorOthers
<1> QED BY <1>4, <1>5

LEMMA RegisterTracked ==
  ASSUME TypeInv, HeldInv, UseInv, LeaseInv, NEW r \in Requests, Register(r)
  PROVE  LeaseInv'
<1> PICK k : k = req[r].key
  OBVIOUS
<1>1. /\ pc[r] = "register" /\ reg' = [reg EXCEPT ![k] = r] /\ tasks' = tasks
      /\ pc' = [pc EXCEPT ![r] = "submit"]
      /\ ses' = IF reg[k] = None THEN ses ELSE [ses EXCEPT ![reg[k]].stray = TRUE]
  BY DEF Register
<1>2. \A q \in Requests \ {r} : req'[q] = req[q]
  BY DEF Register, TypeInv, RequestsOK
<1>3. k \in Keys /\ pc[r] \in Unready /\ pc[r] \in Creating
  BY <1>1 DEF TypeInv, RequestsOK, Keyed, Early, Creating, Unready
<1>4. reg[k] # r
  BY <1>3, CreatorNotListed DEF Listed
<1>5. \A s \in Requests \ {r} : SameUsers(s)
  BY <1>1, <1>2, QuietUsers
<1>6. \A s \in Requests : SameTasks(s)
  BY <1>1 DEF SameTasks
<1>7. Tended(r)' /\ Tracked(r)'
  <2>1. ses'[r] = ses[r]
    BY <1>1, <1>4 DEF TypeInv, SessionsOK
  <2>2. ses[r].queued = 0 /\ ses[r].pending = {} /\ ~Closing(r)
    BY <1>3 DEF UseInv, FreshInv
  <2>3. \A q \in Requests : pc[q] \in Using => req[q].ses # r
    BY <1>3 DEF UseInv, UsedInv
  <2>4. pc'[r] = "submit" /\ \A q \in Requests \ {r} : pc'[q] = pc[q] /\ req'[q] = req[q]
    BY <1>1, <1>2 DEF TypeInv, RequestsOK
  <2>5. Gate(r)' = {} /\ Resending(r)' = {}
    BY <2>3, <2>4 DEF Gate, Resending, Using
  <2>6. Entries(r)' = {}
    BY <2>1, <2>2, <2>5 DEF Entries
  <2>7. ~Closing(r)'
    BY <1>6, <2>2, TasksSame
  <2>8. Tended(r)'
    BY <2>1, <2>2, <2>5, <2>6, <2>7, TallyEmpty DEF Tended
  <2>9. Listed(r)'
    BY <1>1, <1>3 DEF Listed, TypeInv, TablesOK
  <2> QED BY <2>8, <2>9 DEF Tracked
<1>8. ASSUME NEW s \in Requests, s # r
      PROVE  Tended(s)' /\ Tracked(s)'
  <2>1. CASE s = reg[k]
    <3>1. ~Listed(s)'
      BY <1>1, <1>3, <1>8, <2>1, NoneIsNoRequest DEF Listed, UseInv, KeyInv, TypeInv, TablesOK
    <3>2. ses'[s].stray
      <4>1. s # None /\ ses[s] \in SessionSet
        BY NoneIsNoRequest DEF TypeInv, SessionsOK
      <4>2. ses'[s] = [ses[s] EXCEPT !.stray = TRUE]
        BY <1>1, <2>1, <4>1 DEF TypeInv, SessionsOK
      <4> QED BY <4>1, <4>2 DEF SessionSet
    <3> QED BY <3>1, <3>2, LeftBehind
  <2>2. CASE s # reg[k]
    <3>1. SameSession(s)
      BY <1>1, <2>2 DEF SameSession, TypeInv, SessionsOK
    <3>2. Listed(s)' <=> Listed(s)
      BY <1>1, <1>3, <1>8, <2>2 DEF Listed, TypeInv, TablesOK
    <3> QED BY <1>5, <1>6, <1>8, <3>1, <3>2, Undisturbed DEF LeaseInv
  <2> QED BY <2>1, <2>2
<1> QED BY <1>7, <1>8 DEF LeaseInv
LEMMA RequestTracked ==
  ASSUME TypeInv, HeldInv, UseInv, LeaseInv, NEW r \in Requests, Arrive(r) \/ RequestStep(r)
  PROVE  LeaseInv'
<1>1. CASE Arrive(r)
  <2>1. /\ pc' = [pc EXCEPT ![r] = "enter"] /\ UNCHANGED <<reg, ses, tasks>>
        /\ pc[r] # "gate" /\ pc[r] \notin Creating /\ "enter" \notin {"gate", "resend"}
    BY <1>1 DEF Arrive, Creating
  <2>2. \A q \in Requests \ {r} : req'[q] = req[q]
    BY <1>1 DEF Arrive, TypeInv, RequestsOK
  <2>3. \A s \in Requests : SameUsers(s)
    BY <2>1, <2>2, QuietUsers
  <2> QED BY <2>1, <2>3, QuietTracked
<1>2. CASE Cancelled(r)
  <2>1. /\ Ends(r) /\ UNCHANGED <<reg, ses, tasks>>
        /\ pc[r] # "gate" /\ pc[r] \notin Creating /\ "done" \notin {"gate", "resend"}
    BY <1>2 DEF Cancelled, Creating, Waiting
  <2>2. pc' = [pc EXCEPT ![r] = "done"] /\ \A q \in Requests \ {r} : req'[q] = req[q]
    BY <2>1, EndsActs
  <2>3. \A s \in Requests : SameUsers(s)
    BY <2>1, <2>2, QuietUsers
  <2> QED BY <2>1, <2>3, QuietTracked
<1>3. CASE SubmitClosed(r) \/ Reconnect(r) \/ Queue(r) \/ Enqueue(r) \/ GateFails(r) \/ Resend(r)
           \/ ClientLeaves(r) \/ FirstEventTimeout(r) \/ AbandonedAfterSubmit(r)
  BY <1>3, ReconnectTracked, QueueTracked, EnqueueTracked, GateFailsTracked, ResendTracked, LeaveTracked
<1> QED BY <1>1, <1>2, <1>3, EnterTracked, WaitTracked, CreationTracked, RegisterTracked DEF RequestStep

(* One session and its clean-ups, with requests that end there.            *)
LEMMA SessionOthers ==
  ASSUME TypeInv, LeaseInv, NEW s \in Requests, (\E R : EndAll(R)) \/ UNCHANGED <<pc, req>>,
         \A y \in Requests \ {s} : ses'[y] = ses[y] /\ (Listed(y)' <=> Listed(y)),
         \A t \in tasks \cup tasks' : t.ses # s => (t \in tasks <=> t \in tasks'),
         Tended(s)' /\ Tracked(s)'
  PROVE  LeaseInv'
<1> SUFFICES ASSUME NEW y \in Requests, y # s PROVE Tended(y)' /\ Tracked(y)'
  BY DEF LeaseInv
<1>1. SameUsers(y)
  BY EndAllUsers
<1>2. SameTasks(y) /\ SameSession(y)
  BY DEF SameTasks, SameSession
<1> QED BY <1>1, <1>2, Undisturbed DEF LeaseInv

LEMMA UpstreamTracked ==
  ASSUME TypeInv, UseInv, LeaseInv, NEW s \in Requests,
         UpstreamLost(s) \/ \E r \in Requests : Terminal(s, r)
  PROVE  LeaseInv'
<1>1. CASE UpstreamLost(s)
  <2>1. /\ EndAll(ses[s].pending) /\ reg' = reg /\ tasks' = tasks \cup {Start(s, None, "retire")}
        /\ \A y \in Requests \ {s} : ses'[y] = ses[y]
    BY <1>1 DEF UpstreamLost, TypeInv, SessionsOK
  <2>2. Start(s, None, "retire").ses = s
    BY DEF Start
  <2>3. Minded(s)' /\ RetireDue(s)'
    BY <2>1, StartMinds
  <2>4. Tended(s)' /\ Tracked(s)'
    BY <2>3 DEF Tended, Tracked
  <2>5. \A t \in tasks \cup tasks' : t.ses # s => (t \in tasks <=> t \in tasks')
    BY <2>1, <2>2
  <2> QED BY <2>1, <2>4, <2>5, SameList, SessionOthers
<1>2. ASSUME NEW r \in Requests, Terminal(s, r)
      PROVE  LeaseInv'
  <2>1. EndAll({r}) /\ reg' = reg /\ ~Reconnecting(s) /\ r \in ses[s].pending \cup ses[s].hidden
    BY <1>2 DEF Terminal
  <2>2. PICK x \in SessionSet : x = ses[s]
    BY DEF TypeInv, SessionsOK
  <2>3. PICK y \in SessionSet : /\ y.lease = x.lease /\ y.stray = x.stray /\ y.retire = x.retire
                                /\ y.pending = x.pending \ {r}
                                /\ y.queued = IF r \in x.pending THEN Less(x.queued) ELSE x.queued
                                /\ RetireIfReady(s, y, None)
    <3> DEFINE n == IF r \in x.pending THEN Less(x.queued) ELSE x.queued
               y == [x EXCEPT !.pending = @ \ {r}, !.hidden = @ \ {r}, !.queued = n]
    <3>1. RetireIfReady(s, y, None)
      BY <1>2, <2>2 DEF Terminal
    <3>2. n \in Nat
      BY LessTyped DEF SessionSet
    <3> HIDE DEF n
    <3>3. /\ y \in SessionSet /\ y.lease = x.lease /\ y.stray = x.stray /\ y.retire = x.retire
          /\ y.pending = x.pending \ {r} /\ y.queued = n
      BY <3>2 DEF SessionSet
    <3> QED BY <3>1, <3>3 DEF n
  <2>4. pc[s] \notin Creating
    BY <2>1 DEF UseInv, FreshInv, Unready, Early
  <2>5. Gate(s)' = Gate(s) /\ Resending(s)' = {}
    <3>1. SameUsers(s)
      BY <2>1, EndAllUsers
    <3>2. Resending(s) = {}
      BY <2>1 DEF Resending, Reconnecting
    <3> QED BY <3>1, <3>2 DEF SameUsers
  <2>6. ASSUME Listed(s), ~RetireDue(s)
        PROVE  /\ Tally(Gate(s)' \cup y.pending, y.queued)
               /\ Closing(s) => y.retire /\ y.queued = 0
    <3>1. /\ Tally(Entries(s), ses[s].queued)
          /\ Closing(s) => ses[s].retire /\ ses[s].queued = 0
      BY <2>6 DEF LeaseInv, Tended
    <3>2. CASE r \in x.pending
      <4>1. r \notin Gate(s)
        BY <2>2, <3>2 DEF Gate, UseInv, PendingInv, AfterGate
      <4>2. Gate(s)' \cup y.pending = Entries(s) \ {r} /\ r \in Entries(s)
        BY <2>2, <2>3, <2>5, <3>2, <4>1 DEF Entries
      <4>3. ses[s].queued \in Nat
        BY <2>2 DEF SessionSet
      <4>4. Tally(Entries(s) \ {r}, Less(ses[s].queued)) /\ ses[s].queued # 0
        BY <3>1, <4>2, <4>3, TallyLess
      <4> QED BY <2>2, <2>3, <3>1, <3>2, <4>2, <4>4
    <3>3. CASE r \notin x.pending
      <4>1. Gate(s)' \cup y.pending = Entries(s)
        BY <2>2, <2>3, <2>5, <3>3 DEF Entries
      <4> QED BY <2>2, <2>3, <3>1, <3>3, <4>1
    <3> QED BY <3>2, <3>3
  <2>7. Tended(s)' /\ Tracked(s)'
    BY <2>1, <2>2, <2>3, <2>4, <2>5, <2>6, RetireSound
  <2>8. /\ \A q \in Requests \ {s} : ses'[q] = ses[q]
        /\ \A t \in tasks' : t \in tasks \/ t.ses = s
        /\ tasks \subseteq tasks'
    BY <2>3, RetireParts DEF RetireIfReady
  <2> QED BY <2>1, <2>7, <2>8, SameList, SessionOthers
<1> QED BY <1>1, <1>2

LEMMA CleanupTracked ==
  ASSUME TypeInv, UseInv, LeaseInv, NEW s \in Requests, Cleanup(s)
  PROVE  LeaseInv'
<1>1. PICK t \in tasks : /\ t.ses = s
                         /\ (CloseReleases(t) \/ CloseWrites(t) \/ CloseEnds(t) \/ RetireUnregisters(t) \/ RetireReleases(t)
                            \/ RetireWrites(t))
  BY DEF Cleanup
<1>2. PICK x \in SessionSet : x = ses[s]
  BY DEF TypeInv, SessionsOK
<1>3. t \in TaskSet
  BY DEF TypeInv, SessionsOK
<1>4. PICK u : u = [t EXCEPT !.at = "end"]
  OBVIOUS
<1>5. u.ses = s /\ u.kind = t.kind /\ u.at = "end"
  BY <1>1, <1>3, <1>4 DEF TaskSet
<1>6. CASE CloseReleases(t)
  <2>0. PICK v : tasks' = (tasks \ {t}) \cup {v} /\ v.ses = t.ses /\ v.kind = t.kind /\ v.at = "end"
    BY <1>3, <1>6, CloseReleasesTask
  <2>1. /\ t.kind = "close" /\ t.at = "start"
        /\ ses' = [ses EXCEPT ![s] = [x EXCEPT !.closed = TRUE, !.lease = FALSE]]
        /\ UNCHANGED <<reg, pc, req>>
    BY <1>1, <1>2, <1>6 DEF CloseReleases, TypeInv, SessionsOK
  <2>2. /\ ses'[s].queued = ses[s].queued /\ ses'[s].pending = ses[s].pending
        /\ ses'[s].retire = ses[s].retire /\ ~ses'[s].lease
        /\ \A y \in Requests \ {s} : ses'[y] = ses[y]
    BY <1>2, <2>1 DEF SessionSet, TypeInv, SessionsOK
  <2>3. (RetireDue(s)' <=> RetireDue(s)) /\ (Closing(s)' <=> Closing(s))
    BY <1>1, <2>0, <2>1 DEF RetireDue, Closing
  <2>4. Gate(s)' = Gate(s) /\ Resending(s)' = Resending(s)
    BY <2>1 DEF Gate, Resending
  <2>5. Entries(s)' = Entries(s)
    BY <2>2, <2>4 DEF Entries
  <2>6. Tended(s)'
    BY <2>1, <2>2, <2>3, <2>4, <2>5, SameList DEF Tended, LeaseInv
  <2>7. Tracked(s)'
    BY <2>2 DEF Tracked
  <2>8. \A y \in tasks \cup tasks' : y.ses # s => (y \in tasks <=> y \in tasks')
    BY <1>1, <2>0
  <2> QED BY <2>1, <2>2, <2>6, <2>7, <2>8, SameList, SessionOthers
<1>7. CASE CloseEnds(t)
  <2>1. /\ t.kind = "close" /\ t.at = "end" /\ tasks' = tasks \ {t} /\ reg' = reg /\ EndAll(ses[s].pending)
        /\ ses' = [ses EXCEPT ![s] = [x EXCEPT !.closed = @ \/ x.reader, !.reader = FALSE, !.queued = 0,
                                               !.pending = {}, !.hidden = {}]]
    BY <1>1, <1>2, <1>7 DEF CloseEnds, TypeInv, SessionsOK
  <2>2. /\ ses'[s].queued = 0 /\ ses'[s].pending = {} /\ ses'[s].lease = ses[s].lease
        /\ ses'[s].retire = ses[s].retire /\ ses'[s].stray = ses[s].stray
        /\ \A y \in Requests \ {s} : ses'[y] = ses[y]
    BY <1>2, <2>1 DEF SessionSet, TypeInv, SessionsOK
  <2>3. /\ RetireDue(s)' <=> RetireDue(s)
        /\ Minded(s)' <=> Minded(s)
        /\ Closing(s) /\ CloseEnding(s)
    BY <1>1, <2>1 DEF RetireDue, Minded, Closing, CloseEnding
  <2>4. SameUsers(s)
    BY <2>1, EndAllUsers
  <2>5. Tended(s)'
    <3> SUFFICES ASSUME Listed(s), ~RetireDue(s)
                 PROVE  Tally(Entries(s)', 0) /\ Resending(s)' \subseteq {} /\ ses[s].retire
      BY <2>1, <2>2, <2>3, SameList DEF Tended
    <3>1. /\ Tally(Entries(s), ses[s].queued) /\ Resending(s) \subseteq ses[s].pending
          /\ ses[s].retire /\ ses[s].queued = 0
      BY <2>3 DEF LeaseInv, Tended
    <3>2. Entries(s) = {}
      BY <3>1, TallyZero
    <3>3. Entries(s)' = {} /\ Resending(s)' = {}
      BY <2>2, <2>4, <3>1, <3>2 DEF Entries, SameUsers
    <3> QED BY <3>1, <3>3, TallyEmpty
  <2>6. Tracked(s)'
    BY <2>1, <2>2, <2>3, <2>4, SameList DEF Tracked, LeaseInv, SameUsers
  <2>7. \A v \in tasks \cup tasks' : v.ses # s => (v \in tasks <=> v \in tasks')
    BY <1>1, <2>1
  <2> QED BY <2>1, <2>2, <2>5, <2>6, <2>7, SameList, SessionOthers
<1>8. CASE RetireUnregisters(t)
  <2>1. /\ t.kind = "retire" /\ tasks' = (tasks \ {t}) \cup {u} /\ UNCHANGED <<pc, req>>
        /\ ses' = [ses EXCEPT ![s].closed = TRUE]
        /\ reg' = IF reg[ses[s].key] = s THEN [reg EXCEPT ![ses[s].key] = None] ELSE reg
    BY <1>1, <1>4, <1>8 DEF RetireUnregisters
  <2>2. \A y \in Requests \ {s} : ses'[y] = ses[y]
    BY <2>1 DEF TypeInv, SessionsOK
  <2>3. \A k \in Keys : reg[k] = s => k = ses[s].key
    BY NoneIsNoRequest DEF UseInv, KeyInv
  <2>4. ~Listed(s)'
    BY <2>1, <2>3, NoneIsNoRequest DEF Listed, TypeInv, TablesOK
  <2>5. \A y \in Requests \ {s} : Listed(y)' <=> Listed(y)
    BY <2>1, NoneIsNoRequest DEF Listed, TypeInv, TablesOK
  <2>6. Minded(s)'
    BY <1>5, <2>1 DEF Minded
  <2>7. \A v \in tasks \cup tasks' : v.ses # s => (v \in tasks <=> v \in tasks')
    BY <1>1, <1>5, <2>1
  <2>8. Tended(s)' /\ Tracked(s)'
    BY <2>4, <2>6, LeftBehind
  <2> QED BY <2>1, <2>2, <2>5, <2>7, <2>8, SessionOthers
<1>9. ASSUME t.kind = "retire", t.at = "end", tasks' = tasks \ {t}, UNCHANGED <<reg, pc, req>>,
             NEW h, \/ ses' = [ses EXCEPT ![s] = [x EXCEPT !.lease = FALSE, !.handle = h]]
                    \/ ses' = [ses EXCEPT ![s] = [x EXCEPT !.lease = FALSE]]
      PROVE  LeaseInv'
  <2>2. /\ ses'[s].queued = ses[s].queued /\ ses'[s].pending = ses[s].pending
        /\ ses'[s].retire = ses[s].retire /\ ~ses'[s].lease
        /\ \A y \in Requests \ {s} : ses'[y] = ses[y]
    <3>1. /\ \A y \in Requests \ {s} : ses'[y] = ses[y]
          /\ \/ ses'[s] = [x EXCEPT !.lease = FALSE, !.handle = h]
             \/ ses'[s] = [x EXCEPT !.lease = FALSE]
      BY <1>9 DEF TypeInv, SessionsOK
    <3>2. CASE ses'[s] = [x EXCEPT !.lease = FALSE, !.handle = h]
      BY <1>2, <3>1, <3>2 DEF SessionSet
    <3>3. CASE ses'[s] = [x EXCEPT !.lease = FALSE]
      BY <1>2, <3>1, <3>3 DEF SessionSet
    <3> QED BY <3>1, <3>2, <3>3
  <2>3. (RetireDue(s)' <=> RetireDue(s)) /\ (Closing(s)' <=> Closing(s))
    BY <1>1, <1>9 DEF RetireDue, Closing
  <2>4. Gate(s)' = Gate(s) /\ Resending(s)' = Resending(s)
    BY <1>9 DEF Gate, Resending
  <2>5. Entries(s)' = Entries(s)
    BY <2>2, <2>4 DEF Entries
  <2>6. Tended(s)'
    BY <1>9, <2>2, <2>3, <2>4, <2>5, SameList DEF Tended, LeaseInv
  <2>7. Tracked(s)'
    BY <2>2 DEF Tracked
  <2>8. \A v \in tasks \cup tasks' : v.ses # s => (v \in tasks <=> v \in tasks')
    BY <1>1, <1>9
  <2> QED BY <1>9, <2>2, <2>6, <2>7, <2>8, SameList, SessionOthers
<1>10. ASSUME NEW v, tasks' = (tasks \ {t}) \cup {v}, v.ses = t.ses, v.kind = t.kind, v.at = t.at,
              UNCHANGED <<reg, pc, req>>, SameSession(s), \A y \in Requests \ {s} : ses'[y] = ses[y]
       PROVE  LeaseInv'
  <2>1. /\ Closing(s)' <=> Closing(s)
        /\ CloseEnding(s)' <=> CloseEnding(s)
        /\ RetireDue(s)' <=> RetireDue(s)
        /\ Minded(s)' <=> Minded(s)
    BY <1>1, <1>10 DEF Closing, CloseEnding, RetireDue, Minded
  <2>2. Gate(s)' = Gate(s) /\ Resending(s)' = Resending(s)
    BY <1>10 DEF Gate, Resending
  <2>3. (Entries(s)' = Entries(s)) /\ (Visible(s)' <=> Visible(s)) /\ (Listed(s)' <=> Listed(s))
    BY <1>10, <2>2, SameList DEF Entries, Visible, SameSession
  <2>4. Tended(s)'
    BY <1>10, <2>1, <2>2, <2>3 DEF Tended, LeaseInv, SameSession
  <2>5. Tracked(s)'
    BY <1>10, <2>1, <2>3 DEF Tracked, LeaseInv, SameSession
  <2>6. \A y \in tasks \cup tasks' : y.ses # s => (y \in tasks <=> y \in tasks')
    BY <1>1, <1>10
  <2> QED BY <1>10, <2>4, <2>5, <2>6, SameList, SessionOthers
<1>11. CASE RetireReleases(t)
  <2>1. t.kind = "retire" /\ t.at = "end" /\ UNCHANGED <<reg, pc, req>>
    BY <1>11 DEF RetireReleases
  <2>2. CASE /\ tasks' = tasks \ {t}
             /\ \/ ses' = [ses EXCEPT ![s].lease = FALSE, ![s].handle = None]
                \/ ses' = [ses EXCEPT ![s].lease = FALSE]
    <3>1. \/ ses' = [ses EXCEPT ![s] = [x EXCEPT !.lease = FALSE, !.handle = None]]
          \/ ses' = [ses EXCEPT ![s] = [x EXCEPT !.lease = FALSE]]
      BY <1>2, <2>2 DEF TypeInv, SessionsOK
    <3> QED BY <1>9, <2>1, <2>2, <3>1
  <2>3. ASSUME NEW w, tasks' = (tasks \ {t}) \cup {[t EXCEPT !.write = w]},
               ses' = [ses EXCEPT ![s].handle = None]
        PROVE  LeaseInv'
    <3>1. PICK v : v = [t EXCEPT !.write = w]
      OBVIOUS
    <3>2. v.ses = t.ses /\ v.kind = t.kind /\ v.at = t.at
      BY <1>3, <3>1 DEF TaskSet
    <3>3. ses' = [ses EXCEPT ![s] = [x EXCEPT !.handle = None]]
      BY <1>2, <2>3 DEF TypeInv, SessionsOK
    <3>4. SameSession(s) /\ \A y \in Requests \ {s} : ses'[y] = ses[y]
      BY <1>2, <3>3 DEF SameSession, SessionSet, TypeInv, SessionsOK
    <3> QED BY <1>10, <2>1, <2>3, <3>1, <3>2, <3>4
  <2> QED BY <1>1, <1>11, <2>2, <2>3 DEF RetireReleases
<1>12. CASE CloseWrites(t)
  <2>1. PICK v : tasks' = (tasks \ {t}) \cup {v} /\ v.ses = t.ses /\ v.kind = t.kind /\ v.at = t.at
    BY <1>3, <1>12, CloseWritesTask
  <2>2. UNCHANGED <<reg, pc, req>> /\ SameSession(s) /\ \A y \in Requests \ {s} : ses'[y] = ses[y]
    BY <1>12 DEF CloseWrites, SameSession
  <2> QED BY <1>10, <2>1, <2>2
<1>13. CASE RetireWrites(t)
  <2>1. /\ t.kind = "retire" /\ t.at = "end" /\ tasks' = tasks \ {t} /\ UNCHANGED <<reg, pc, req>>
        /\ \/ ses' = [ses EXCEPT ![s] = [x EXCEPT !.lease = FALSE, !.handle = t.write.handle]]
           \/ ses' = [ses EXCEPT ![s] = [x EXCEPT !.lease = FALSE]]
    BY <1>1, <1>2, <1>13 DEF RetireWrites, TypeInv, SessionsOK
  <2> QED BY <1>9, <2>1
<1> QED BY <1>1, <1>6, <1>7, <1>8, <1>11, <1>12, <1>13

LEMMA OtherTracked ==
  ASSUME TypeInv, HeldInv, UseInv, LeaseInv, Shutdown \/ \E k \in Keys : Elsewhere(k)
  PROVE  LeaseInv'
<1>1. CASE UNCHANGED <<reg, pc, req, ses, tasks>>
  BY <1>1, EndAllUsers, QuietTracked
<1>2. CASE MarkDraining
  BY <1>1, <1>2 DEF MarkDraining
<1>3. CASE CloseAll
  <2> SUFFICES ASSUME NEW s \in Requests PROVE Tended(s)' /\ Tracked(s)'
    BY DEF LeaseInv
  <2>1. /\ UNCHANGED <<pc, req, ses>> /\ reg' = [k \in Keys |-> None]
        /\ tasks' = tasks \cup {Start(reg[k], None, "close") : k \in Registered}
    BY <1>3 DEF CloseAll
  <2>2. ~Listed(s)' /\ s # None
    BY <2>1, NoneIsNoRequest DEF Listed
  <2>3. CASE Listed(s)
    <3>1. Start(s, None, "close") \in tasks'
      BY <2>1, <2>2, <2>3 DEF Listed, Registered
    <3> QED BY <2>2, <3>1, StartMinds, LeftBehind
  <2>4. CASE ~Listed(s)
    <3>1. \A y : Start(y, None, "close").ses = y
      BY DEF Start
    <3>2. SameTasks(s)
      BY <2>1, <2>4, <3>1 DEF SameTasks, Listed, Registered
    <3>3. SameUsers(s) /\ SameSession(s)
      BY <2>1, EndAllUsers DEF SameSession
    <3> QED BY <2>2, <2>4, <3>2, <3>3, Undisturbed DEF LeaseInv
  <2> QED BY <2>3, <2>4
<1>4. ASSUME NEW k \in Keys, Elsewhere(k)
      PROVE  LeaseInv'
  BY <1>1, <1>4 DEF Elsewhere, RivalClaims, RivalLooks, RivalReleases, RivalDrains, LeaseExpires, Purge,
              OnlyRow, OnlyTable
<1> QED BY <1>2, <1>3, <1>4 DEF Shutdown

(* The account lease of every session is in good hands, for any number of  *)
(* requests, sessions and mishaps: the session is registered or being      *)
(* created, or a clean-up gives the lease back now or when the last        *)
(* request on the session ends, but for the exceptions marked stray        *)
(* (_close_http_bridge_session, _retire_http_bridge_after_drain_if_ready). *)
THEOREM LeasesAlwaysTracked == Spec => []LeaseTracked
<1>1. Init => LeaseInv
  <2> SUFFICES ASSUME Init, NEW s \in Requests PROVE Tended(s) /\ Tracked(s)
    BY DEF LeaseInv
  <2>1. ~Listed(s)
    BY NoneIsNoRequest DEF Init, Listed
  <2>2. ~ses[s].lease
    BY DEF Init, Blank
  <2> QED BY <2>1, <2>2 DEF Tended, Tracked
<1>2. TypeInv /\ HeldInv /\ UseInv /\ LeaseInv /\ [Next]_vars => LeaseInv'
  <2> SUFFICES ASSUME TypeInv, HeldInv, UseInv, LeaseInv, [Next]_vars PROVE LeaseInv'
    OBVIOUS
  <2>1. CASE UNCHANGED vars
    BY <2>1, EndAllUsers, QuietTracked DEF vars
  <2> QED BY <2>1, RequestTracked, UpstreamTracked, CleanupTracked, OtherTracked DEF Next
<1>3. UseInv /\ LeaseInv => LeaseTracked
  <2> SUFFICES ASSUME UseInv, LeaseInv, NEW s \in Requests, ses[s].lease
               PROVE  \/ reg[ses[s].key] = s
                      \/ pc[s] \in Creating
                      \/ \E t \in tasks : t.ses = s /\ (t.kind = "retire" \/ t.at = "start")
                      \/ ses[s].retire /\ Visible(s)
                      \/ ses[s].stray
    BY DEF LeaseTracked
  <2>1. Listed(s) => reg[ses[s].key] = s
    BY NoneIsNoRequest DEF Listed, UseInv, KeyInv
  <2>2. Tracked(s)
    BY DEF LeaseInv
  <2> QED BY <2>1, <2>2 DEF Tracked, Minded
<1> QED BY <1>1, <1>2, <1>3, TypesAlways, HeldAlways, UseAlways, PTL DEF Spec

===============================================================================
