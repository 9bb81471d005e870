----------------------- MODULE AccountTransfersProofs -----------------------
(***************************************************************************)
(* Proofs about the custody of an account between the hub and a taker: a   *)
(* single owner, databases that agree on every transfer, and a live token  *)
(* that is never lost, for any number of operators, transfers and faults,  *)
(* as long as no transaction is torn; and that none is torn where both     *)
(* databases lock the rows a transaction has read.                         *)
(***************************************************************************)
EXTENDS AccountTransfers, TLAPS

-----------------------------------------------------------------------------
(* The inductive invariant.  k is the last nonce the taker has drawn. *)

TakerHas(n) == transfers[Taker][n]
HubHas(n) == transfers[Hub][n]

Is(t, d, s) == t.direction = d /\ t.state = s

\* What the hub may know of a transfer, from what the taker does.
MayKnow(t, s) ==
    \/ /\ t.direction = "checkout"
       /\ \/ t.state = "unknown" /\ s = "unknown"
          \/ t.state = "pending" /\ s \in {"unknown", "pending"}
          \/ t.state = "aborting" /\ s \in {"unknown", "pending", "aborted"}
          \/ t.state = "settled" /\ s \in {"pending", "settled"}
          \/ t.state = "aborted" /\ s = "aborted"
    \/ /\ t.direction = "checkin"
       /\ \/ t.state = "pending" /\ s \in {"unknown", "settled", "aborted"}
          \/ t.state = "settled" /\ s = "settled"
          \/ t.state = "aborted" /\ s = "aborted"

\* The nonces are drawn in order, and only the last transfer may be open.
Numbering(k) ==
    \A n \in Nonces : /\ n > k <=> TakerHas(n).state = "unknown"
                      /\ n < k => ~Open(TakerHas(n))

Pairing ==
    \A n \in Nonces :
        /\ MayKnow(TakerHas(n), HubHas(n).state)
        /\ HubHas(n).state # "unknown" => HubHas(n).direction = TakerHas(n).direction

HubSingleOpen ==
    \A m, n \in Nonces : Open(HubHas(m)) /\ Open(HubHas(n)) => m = n

\* Who owns the account follows from what both know of the last transfer.
Custody(k) ==
    /\ LocallyOwned(Taker) <=>
         /\ k > 0
         /\ Is(TakerHas(k), "checkout", "settled") \/ Is(TakerHas(k), "checkin", "aborted")
    /\ row[Hub].owner = Taker <=>
         /\ k > 0
         /\ \/ /\ TakerHas(k).direction = "checkout"
               /\ HubHas(k).state \in {"pending", "settled"}
            \/ /\ TakerHas(k).direction = "checkin"
               /\ HubHas(k).state \in {"unknown", "aborted"}

\* What the taker knows of a transfer it asks about, and of one it calls about.
Asked(n, d) == TakerHas(n).state # "unknown" /\ TakerHas(n).direction = d

Called(kind, n, d) ==
    /\ Asked(n, d)
    /\ kind = "checkout" => d = "checkout"
    /\ kind = "confirm" => Is(TakerHas(n), "checkout", "settled")
    /\ kind = "checkin" => d = "checkin"
    /\ kind = "abort" /\ d = "checkout" => TakerHas(n).state \in {"aborting", "aborted"}

\* What the hub's answers tell.
Told(s) ==
    /\ s.kind = "checkout" /\ s.answer = "ok" => HubHas(s.nonce).state # "unknown"
    /\ s.kind = "checkin" /\ s.answer = "ok" => HubHas(s.nonce).state = "settled"
    /\ s.kind = "abort" /\ s.answer \in {"aborted", "settled"} =>
         HubHas(s.nonce).state = s.answer

HoldsLive(auth) == auth.refresh = live /\ auth.access = live

\* The tokens in an answer that may still be imported are live ...
OpInv(o) ==
    /\ op[o].pc = "released" => Asked(op[o].nonce, "checkin")
    /\ op[o].pc = "begin" => Asked(op[o].nonce, "checkout")
    /\ op[o].pc \in {"waiting", "answered"} =>
         Called(op[o].kind, op[o].nonce, op[o].direction)
    /\ op[o].pc = "answered" => Told(op[o])
    /\ Answered(o, "checkout", {"ok"})
         /\ Is(TakerHas(op[o].nonce), "checkout", "pending") =>
            reblanked \/ HoldsLive(op[o].auth)

OpsInv == \A o \in Ops : OpInv(o)

\* ... and so are those in a checkin that may still be accepted.
CallInv(c) ==
    /\ Called(c.kind, c.nonce, c.direction)
    /\ c.kind = "checkin" /\ HubHas(c.nonce).state = "unknown" =>
         reblanked \/ HoldsLive(c.auth)
    /\ c.from # None =>
         /\ op[c.from].pc = "waiting" /\ op[c.from].kind = c.kind
         /\ op[c.from].nonce = c.nonce /\ op[c.from].direction = c.direction
         /\ \A d \in calls : d.from = c.from => d = c

CallsInv == \A c \in calls : CallInv(c)

\* An exchange under way belongs to the owner and will be saved.
IntentInv ==
    \A i \in Instances : intent[i] # 0 => LocallyOwned(i) /\ row[i].refresh = intent[i]

\* Where the live token is: with the owner; with the taker during a checkin the
\* hub has not accepted; with the hub during a checkout that is not imported.
OwnsLive ==
    reblanked \/ \A i \in Instances :
        LocallyOwned(i) => row[i].refresh = live /\ row[i].access = live

TokenInv ==
    /\ OwnsLive
    /\ \A n \in Nonces :
         Is(TakerHas(n), "checkin", "pending") /\ HubHas(n).state # "settled" =>
            reblanked \/ HoldsLive(row[Taker])
    /\ \A n \in Nonces :
         TakerHas(n).state \in {"pending", "aborting"} /\ HubHas(n).state = "pending" =>
            reblanked \/ HoldsLive(row[Hub])

\* What the two transfer tables say, and who owns the account.
BookInv(k) == Numbering(k) /\ Pairing /\ HubSingleOpen /\ Custody(k)

Inv(k) == TypeOK /\ BookInv(k) /\ OpsInv /\ CallsInv /\ IntentInv /\ TokenInv

IInv == TypeOK /\ (torn \/ \E k \in 0..MaxNonces : Inv(k))

-----------------------------------------------------------------------------
(* Transfers *)

LEMMA TransferIs ==
    ASSUME NEW t \in Transfers, NEW d, NEW s
    PROVE  t = Transfer(d, s) <=> Is(t, d, s)
BY DEF Transfers, Transfer, Is

LEMMA SetsTransfer ==
    ASSUME TypeOK, NEW i \in Instances, NEW n \in Nonces, NEW d \in Directions,
           NEW s \in {"unknown", "pending", "aborting", "settled", "aborted"},
           SetTransfer(i, n, d, s)
    PROVE  /\ transfers' \in [Instances -> [Nonces -> Transfers]]
           /\ Is(transfers'[i][n], d, s)
           /\ \A j \in Instances, m \in Nonces :
                j # i \/ m # n => transfers'[j][m] = transfers[j][m]
<1>0. /\ Transfer(d, s) \in Transfers
      /\ Transfer(d, s).direction = d /\ Transfer(d, s).state = s
  BY DEF Transfers, Transfer, States
<1>1. PICK t \in Transfers : t = Transfer(d, s) /\ t.direction = d /\ t.state = s
  BY <1>0
<1>2. transfers' = [transfers EXCEPT ![i][n] = t]
  BY <1>1 DEF SetTransfer
<1>3. transfers \in [Instances -> [Nonces -> Transfers]]
  BY DEF TypeOK
<1> QED BY <1>1, <1>2, <1>3 DEF Is

\* A transfer that is known keeps its direction; one that is closed, or that the
\* taker is aborting, is never open again.
Grows ==
    \A n \in Nonces :
        /\ TakerHas(n).state # "unknown" =>
             /\ TakerHas(n)'.state # "unknown"
             /\ TakerHas(n)'.direction = TakerHas(n).direction
        /\ TakerHas(n).state \in {"aborting", "aborted"} =>
             TakerHas(n)'.state \in {"aborting", "aborted"}
        /\ TakerHas(n).state = "settled" => TakerHas(n)'.state = "settled"
        /\ TakerHas(n)'.state = "pending" => TakerHas(n).state \in {"unknown", "pending"}
        /\ HubHas(n).state # "unknown" => HubHas(n)'.state # "unknown"
        /\ HubHas(n).state \in {"settled", "aborted"} => HubHas(n)'.state = HubHas(n).state

LEMMA SameGrows ==
    ASSUME UNCHANGED transfers PROVE Grows
BY DEF Grows, TakerHas, HubHas

-----------------------------------------------------------------------------
(* Requests and calls *)

\* The tokens do not change, and a second blanking is not forgotten.
Steady == Grows /\ UNCHANGED live /\ (reblanked => reblanked')

LEMMA CalledGrows ==
    ASSUME Grows, NEW n \in Nonces, NEW d, NEW kind, Called(kind, n, d)
    PROVE  Called(kind, n, d)'
BY DEF Grows, Called, Asked, Is

LEMMA OpStable ==
    ASSUME TypeOK, NEW o \in Ops, OpInv(o), Steady, op'[o] = op[o]
    PROVE  OpInv(o)'
<1>1. PICK s \in OpStates : s = op[o] /\ s = op'[o] /\ s.nonce \in Nonces
  BY DEF TypeOK, OpStates
<1>2. CASE s.pc \in {"waiting", "answered"}
  <2>1. Called(s.kind, s.nonce, s.direction)
    BY <1>1, <1>2 DEF OpInv
  <2>2. Called(s.kind, s.nonce, s.direction)'
    BY <1>1, <2>1, CalledGrows DEF Steady
  <2>3. CASE s.pc = "answered"
    <3>1. Told(s)
      BY <1>1, <2>3 DEF OpInv
    <3>2. Told(s)'
      BY <1>1, <3>1 DEF Told, Steady, Grows
    <3>3. /\ s.kind = "checkout" /\ s.answer = "ok"
          /\ Is(TakerHas(s.nonce)', "checkout", "pending")
          => Is(TakerHas(s.nonce), "checkout", "pending")
      BY <1>1, <2>1 DEF Is, Called, Asked, Steady, Grows
    <3>4. /\ s.kind = "checkout" /\ s.answer = "ok"
          /\ Is(TakerHas(s.nonce)', "checkout", "pending")
          => (reblanked \/ HoldsLive(s.auth))'
      BY <1>1, <2>3, <3>3 DEF OpInv, Answered, HoldsLive, Steady
    <3> QED BY <1>1, <2>2, <2>3, <3>2, <3>4 DEF OpInv, Answered
  <2> QED BY <1>1, <1>2, <2>2, <2>3 DEF OpInv, Answered
<1>3. CASE s.pc \notin {"waiting", "answered"}
  BY <1>1, <1>3 DEF OpInv, Asked, Steady, Grows, Answered
<1> QED BY <1>2, <1>3

\* The part of a call that does not concern who waits for it.
CallBody(c) ==
    /\ Called(c.kind, c.nonce, c.direction)
    /\ c.kind = "checkin" /\ HubHas(c.nonce).state = "unknown" =>
         reblanked \/ HoldsLive(c.auth)

LEMMA CallStable ==
    ASSUME Steady, NEW c \in Calls, CallBody(c)
    PROVE  CallBody(c)'
<1>1. c.nonce \in Nonces
  BY DEF Calls
<1>2. Called(c.kind, c.nonce, c.direction)'
  BY <1>1, CalledGrows DEF CallBody, Steady
<1> QED BY <1>1, <1>2 DEF CallBody, HoldsLive, Steady, Grows

LEMMA CallInvBody ==
    ASSUME NEW c PROVE CallInv(c) => CallBody(c)
BY DEF CallInv, CallBody

\* A request that waits for nothing changes its place, or ends.
LEMMA TurnMessages ==
    ASSUME TypeOK, OpsInv, CallsInv, Steady, NEW o \in Ops, NEW s \in OpStates,
           op' = [op EXCEPT ![o] = s], UNCHANGED calls, op[o].pc # "waiting",
           s.pc \notin {"waiting", "answered"},
           s.pc = "released" => Asked(s.nonce, "checkin")',
           s.pc = "begin" => Asked(s.nonce, "checkout")'
    PROVE  OpsInv' /\ CallsInv'
<1>1. op' \in [Ops -> OpStates] /\ op'[o] = s /\ \A q \in Ops : q # o => op'[q] = op[q]
  BY DEF TypeOK
<1>2. ASSUME NEW q \in Ops PROVE OpInv(q)'
  <2>1. CASE q = o
    BY <1>1, <2>1 DEF OpInv, Answered
  <2>2. CASE q # o
    BY <1>1, <2>2, OpStable DEF OpsInv
  <2> QED BY <2>1, <2>2
<1>3. ASSUME NEW c \in calls PROVE CallInv(c)'
  <2>1. c \in Calls /\ CallInv(c) /\ c.from \in Ops \cup {None}
    BY <1>3 DEF TypeOK, CallsInv, Calls
  <2>2. CallBody(c)'
    BY <2>1, CallInvBody, CallStable
  <2>3. c.from # None => op'[c.from] = op[c.from]
    BY <1>1, <2>1 DEF CallInv
  <2> QED BY <2>1, <2>2, <2>3 DEF CallInv, CallBody
<1>4. OpsInv'
  BY <1>2 DEF OpsInv
<1>5. CallsInv'
  BY <1>3 DEF CallsInv
<1> QED BY <1>4, <1>5

LEMMA IdleType ==
    /\ Idle \in OpStates /\ Idle.pc = "idle"
    /\ [Idle EXCEPT !.pc = "reclaim"] \in OpStates
    /\ [Idle EXCEPT !.pc = "reclaim"].pc = "reclaim"
<1>1. NoAuth \in Auths /\ 1 \in Nonces
  BY TransferAssumption DEF NoAuth, Auths, Tokens, Nonces
<1>2. Idle \in OpStates /\ Idle.pc = "idle"
  BY <1>1 DEF Idle, OpStates, Kinds, Directions
<1>3. PICK i \in OpStates : i = Idle
  BY <1>2
<1>4. /\ [i EXCEPT !.pc = "reclaim"] \in OpStates
      /\ [i EXCEPT !.pc = "reclaim"].pc = "reclaim"
  BY DEF OpStates
<1> QED BY <1>2, <1>3, <1>4

LEMMA PlaceType ==
    ASSUME NEW p \in {"released", "begin"}, NEW n \in Nonces
    PROVE  LET s == [Idle EXCEPT !.pc = p, !.nonce = n]
           IN  s \in OpStates /\ s.pc = p /\ s.nonce = n
<1>1. PICK i \in OpStates : i = Idle
  BY IdleType
<1>2. LET s == [i EXCEPT !.pc = p, !.nonce = n]
      IN  s \in OpStates /\ s.pc = p /\ s.nonce = n
  BY DEF OpStates
<1> QED BY <1>1, <1>2

LEMMA LookType ==
    ASSUME NEW p \in {"reserving", "releasing"}
    PROVE  [Idle EXCEPT !.pc = p] \in OpStates /\ [Idle EXCEPT !.pc = p].pc = p
<1>1. PICK i \in OpStates : i = Idle
  BY IdleType
<1>2. [i EXCEPT !.pc = p] \in OpStates /\ [i EXCEPT !.pc = p].pc = p
  BY DEF OpStates
<1> QED BY <1>1, <1>2

LEMMA EndMessages ==
    ASSUME TypeOK, OpsInv, CallsInv, Steady, NEW o \in Ops, op[o].pc # "waiting", End(o)
    PROVE  OpsInv' /\ CallsInv'
<1>1. PICK s \in OpStates : s = Idle /\ s.pc = "idle"
  BY IdleType
<1>2. op' = [op EXCEPT ![o] = s] /\ calls' = calls
  BY <1>1 DEF End
<1> QED BY <1>1, <1>2, TurnMessages

\* A request that waits for nothing calls the hub.
LEMMA Calling ==
    ASSUME TypeOK, NEW o \in Ops, NEW k \in Kinds, NEW n \in Nonces,
           NEW d \in Directions, NEW auth \in Auths, Call(o, k, n, d, auth)
    PROVE  /\ op' \in [Ops -> OpStates] /\ calls' \subseteq Calls
           /\ op'[o].pc = "waiting" /\ op'[o].kind = k /\ op'[o].nonce = n
           /\ op'[o].direction = d
           /\ \A q \in Ops : q # o => op'[q] = op[q]
           /\ \E x \in Calls : /\ calls' = calls \cup {x} /\ x.from = o /\ x.kind = k
                               /\ x.nonce = n /\ x.direction = d /\ x.auth = auth
<1>a. [pc |-> "waiting", kind |-> k, nonce |-> n, direction |-> d,
        auth |-> auth, answer |-> "none", read |-> "no"] \in OpStates
  BY DEF OpStates
<1>1. PICK s \in OpStates :
          s = [pc |-> "waiting", kind |-> k, nonce |-> n, direction |-> d,
               auth |-> auth, answer |-> "none", read |-> "no"]
  BY <1>a
<1>s. s.pc = "waiting" /\ s.kind = k /\ s.nonce = n /\ s.direction = d
  BY <1>1
<1>b. [from |-> o, kind |-> k, nonce |-> n, direction |-> d, auth |-> auth,
       read |-> "no"] \in Calls
  BY DEF Calls
<1>2. PICK x \in Calls :
          x = [from |-> o, kind |-> k, nonce |-> n, direction |-> d, auth |-> auth,
               read |-> "no"]
  BY <1>b
<1>x. x.from = o /\ x.kind = k /\ x.nonce = n /\ x.direction = d /\ x.auth = auth
  BY <1>2
<1>3. op' = [op EXCEPT ![o] = s] /\ calls' = calls \cup {x}
  BY <1>1, <1>2 DEF Call
<1>4. /\ op' \in [Ops -> OpStates] /\ op'[o] = s /\ calls' \subseteq Calls
      /\ \A q \in Ops : q # o => op'[q] = op[q]
  BY <1>1, <1>2, <1>3 DEF TypeOK
<1> QED BY <1>s, <1>x, <1>3, <1>4

LEMMA CallMessages ==
    ASSUME TypeOK, OpsInv, CallsInv, Steady, NEW o \in Ops, op[o].pc # "waiting",
           NEW k \in Kinds, NEW n \in Nonces, NEW d \in Directions, NEW auth \in Auths,
           Call(o, k, n, d, auth), Called(k, n, d)',
           k = "checkin" /\ HubHas(n)'.state = "unknown" => (reblanked \/ HoldsLive(auth))'
    PROVE  OpsInv' /\ CallsInv'
<1>1. /\ op'[o].pc = "waiting" /\ op'[o].kind = k /\ op'[o].nonce = n
      /\ op'[o].direction = d
      /\ \A q \in Ops : q # o => op'[q] = op[q]
  BY Calling
<1>2. PICK x \in Calls : /\ calls' = calls \cup {x} /\ x.from = o /\ x.kind = k
                         /\ x.nonce = n /\ x.direction = d /\ x.auth = auth
  BY Calling
<1>5. ASSUME NEW q \in Ops PROVE OpInv(q)'
  <2>1. CASE q = o
    BY <1>1, <2>1 DEF OpInv, Answered
  <2>2. CASE q # o
    BY <1>1, <2>2, OpStable DEF OpsInv
  <2> QED BY <2>1, <2>2
<1>6. ASSUME NEW c \in calls
      PROVE  CallBody(c)' /\ c.from # o /\ c.from \in Ops \cup {None} /\ CallInv(c)
  <2>1. c \in Calls /\ CallInv(c) /\ c.from \in Ops \cup {None} /\ o # None
    BY <1>6, TransferAssumption DEF TypeOK, CallsInv, Calls
  <2>2. CallBody(c)'
    BY <2>1, CallInvBody, CallStable
  <2> QED BY <2>1, <2>2 DEF CallInv
<1>7. ASSUME NEW c \in calls' PROVE CallInv(c)'
  <2>1. CASE c = x
    <3>1. CallBody(x)'
      BY <1>2 DEF CallBody
    <3>2. \A e \in calls' : e.from = o => e = x
      BY <1>2, <1>6
    <3> QED BY <1>1, <1>2, <2>1, <3>1, <3>2 DEF CallInv, CallBody
  <2>2. CASE c # x
    <3>1. c \in calls
      BY <1>2, <1>7, <2>2
    <3>2. c.from # None => op'[c.from] = op[c.from]
      BY <1>1, <1>6, <3>1
    <3>3. \A e \in calls' : c.from # None /\ e.from = c.from => e = c
      BY <1>2, <1>6, <3>1 DEF CallInv
    <3> QED BY <1>6, <3>1, <3>2, <3>3 DEF CallInv, CallBody
  <2> QED BY <2>1, <2>2
<1>8. OpsInv'
  BY <1>5 DEF OpsInv
<1>9. CallsInv'
  BY <1>7 DEF CallsInv
<1> QED BY <1>8, <1>9

\* Nobody waits any more for the calls of the requests in os.
LEMMA Orphaning ==
    ASSUME TypeOK, NEW os \in SUBSET Ops, NEW c \in Orphaned(os)
    PROVE  /\ c \in Calls /\ c.from \notin os
           /\ \E b \in calls : /\ b.kind = c.kind /\ b.nonce = c.nonce
                               /\ b.direction = c.direction /\ b.auth = c.auth
                               /\ c.from # None => b = c
<1>1. PICK b \in calls : c = IF b.from \in os THEN [b EXCEPT !.from = None] ELSE b
  BY DEF Orphaned
<1>2. PICK e \in Calls : e = b /\ e.from \in Ops \cup {None}
  BY <1>1 DEF TypeOK, Calls
<1>3. None \notin os
  BY TransferAssumption
<1>4. CASE e.from \in os
  <2>1. c = [e EXCEPT !.from = None]
    BY <1>1, <1>2, <1>4
  <2>2. /\ c \in Calls /\ c.from = None /\ c.kind = e.kind /\ c.nonce = e.nonce
        /\ c.direction = e.direction /\ c.auth = e.auth
    BY <1>2, <2>1 DEF Calls
  <2> QED BY <1>1, <1>2, <1>3, <2>2
<1>5. CASE e.from \notin os
  BY <1>1, <1>2, <1>5
<1> QED BY <1>4, <1>5

LEMMA OrphanMessages ==
    ASSUME TypeOK, OpsInv, CallsInv, Steady, NEW os \in SUBSET Ops,
           calls' = Orphaned(os),
           \A q \in Ops : IF q \in os THEN op'[q].pc \in {"idle", "reclaim"}
                          ELSE op'[q] = op[q]
    PROVE  OpsInv' /\ CallsInv'
<1>1. ASSUME NEW q \in Ops PROVE OpInv(q)'
  <2>1. CASE q \in os
    BY <2>1 DEF OpInv, Answered
  <2>2. CASE q \notin os
    BY <2>2, OpStable DEF OpsInv
  <2> QED BY <2>1, <2>2
<1>2. ASSUME NEW c \in calls' PROVE CallInv(c)'
  <2>1. /\ c \in Calls /\ c.from \notin os
        /\ \A e \in calls' : c.from # None /\ e.from = c.from => e \in calls
    BY <1>2, Orphaning
  <2>2. PICK b \in calls : /\ b.kind = c.kind /\ b.nonce = c.nonce
                           /\ b.direction = c.direction /\ b.auth = c.auth
                           /\ c.from # None => b = c
    BY <1>2, Orphaning
  <2>3. b \in Calls /\ CallInv(b)
    BY <2>2 DEF TypeOK, CallsInv
  <2>4. CallBody(b)'
    BY <2>3, CallInvBody, CallStable
  <2>5. CallBody(c)'
    BY <2>2, <2>4 DEF CallBody
  <2>6. c.from # None => c.from \in Ops \ os /\ CallInv(c)
    BY <2>1, <2>2, <2>3 DEF Calls
  <2> QED BY <2>1, <2>5, <2>6 DEF CallInv, CallBody
<1>3. OpsInv'
  BY <1>1 DEF OpsInv
<1>4. CallsInv'
  BY <1>2 DEF CallsInv
<1> QED BY <1>3, <1>4

\* The hub answers a call.
LEMMA Replying ==
    ASSUME TypeOK, NEW c \in calls,
           NEW answer \in {"ok", "refused", "aborted", "settled"}, NEW auth \in Auths,
           Reply(c, answer, auth)
    PROVE  /\ op' \in [Ops -> OpStates] /\ calls' \subseteq Calls /\ calls' = calls \ {c}
           /\ \A q \in Ops : q # c.from => op'[q] = op[q]
           /\ c.from # None =>
                /\ op'[c.from].pc = "answered" /\ op'[c.from].answer = answer
                /\ op'[c.from].auth = auth /\ op'[c.from].kind = op[c.from].kind
                /\ op'[c.from].nonce = op[c.from].nonce
                /\ op'[c.from].direction = op[c.from].direction
<1>1. calls' = calls \ {c} /\ calls' \subseteq Calls /\ c.from \in Ops \cup {None}
  BY DEF Reply, TypeOK, Calls
<1>2. CASE c.from = None
  BY <1>1, <1>2, TransferAssumption DEF Reply, TypeOK
<1>3. CASE c.from # None
  <2>1. PICK o \in Ops : o = c.from
    BY <1>1, <1>3
  <2>2. PICK s \in OpStates : s = op[o]
    BY DEF TypeOK
  <2> DEFINE r == [s EXCEPT !.pc = "answered", !.answer = answer, !.auth = auth]
  <2>3. /\ r \in OpStates
        /\ r.pc = "answered" /\ r.answer = answer /\ r.auth = auth
        /\ r.kind = s.kind /\ r.nonce = s.nonce /\ r.direction = s.direction
    BY DEF OpStates
  <2> HIDE DEF r
  <2>4. op' = [op EXCEPT ![o] = r]
    BY <1>3, <2>1, <2>2 DEF Reply, TypeOK, r
  <2> QED BY <1>1, <1>3, <2>1, <2>2, <2>3, <2>4 DEF TypeOK
<1> QED BY <1>2, <1>3

LEMMA ReplyMessages ==
    ASSUME TypeOK, OpsInv, CallsInv, Steady, NEW c \in calls,
           NEW answer \in {"ok", "refused", "aborted", "settled"}, NEW auth \in Auths,
           Reply(c, answer, auth),
           c.kind = "checkout" /\ answer = "ok" =>
             HubHas(c.nonce)'.state # "unknown" /\ (reblanked \/ HoldsLive(auth))',
           c.kind = "checkin" /\ answer = "ok" => HubHas(c.nonce)'.state = "settled",
           c.kind = "abort" /\ answer \in {"aborted", "settled"} =>
             HubHas(c.nonce)'.state = answer
    PROVE  OpsInv' /\ CallsInv'
<1>0. c \in Calls /\ CallInv(c) /\ c.from \in Ops \cup {None} /\ c.nonce \in Nonces
  BY DEF TypeOK, CallsInv, Calls
<1>1. calls' = calls \ {c}
  BY Replying
<1>2. /\ \A q \in Ops : q # c.from => op'[q] = op[q]
      /\ c.from # None =>
           /\ op'[c.from].pc = "answered" /\ op'[c.from].answer = answer
           /\ op'[c.from].auth = auth /\ op'[c.from].kind = c.kind
           /\ op'[c.from].nonce = c.nonce /\ op'[c.from].direction = c.direction
  BY <1>0, Replying DEF CallInv
<1>3. Called(c.kind, c.nonce, c.direction)'
  BY <1>0, CalledGrows DEF CallInv, Steady
<1>4. ASSUME NEW q \in Ops PROVE OpInv(q)'
  <2>1. CASE q = c.from
    BY <1>2, <1>3, <2>1, TransferAssumption DEF OpInv, Told, Answered
  <2>2. CASE q # c.from
    BY <1>2, <2>2, OpStable DEF OpsInv
  <2> QED BY <2>1, <2>2
<1>5. ASSUME NEW e \in calls' PROVE CallInv(e)'
  <2>1. e \in Calls /\ e \in calls /\ e # c /\ CallInv(e) /\ e.from \in Ops \cup {None}
    BY <1>1, <1>5 DEF TypeOK, CallsInv, Calls
  <2>2. CallBody(e)'
    BY <2>1, CallInvBody, CallStable
  <2>3. e.from # None => op'[e.from] = op[e.from]
    BY <1>0, <1>2, <2>1 DEF CallInv
  <2> QED BY <1>1, <2>1, <2>2, <2>3 DEF CallInv, CallBody
<1>6. OpsInv'
  BY <1>4 DEF OpsInv
<1>7. CallsInv'
  BY <1>5 DEF CallsInv
<1> QED BY <1>6, <1>7

\* Nothing happens to the requests and the calls.
LEMMA SameMessages ==
    ASSUME TypeOK, OpsInv, CallsInv, Steady, UNCHANGED <<op, calls>>
    PROVE  OpsInv' /\ CallsInv'
<1>1. OpsInv'
  BY OpStable DEF OpsInv
<1>2. ASSUME NEW c \in calls PROVE CallInv(c)'
  <2>1. c \in Calls /\ CallInv(c)
    BY <1>2 DEF TypeOK, CallsInv
  <2>2. CallBody(c)'
    BY <2>1, CallInvBody, CallStable
  <2> QED BY <2>1, <2>2 DEF CallInv, CallBody
<1> QED BY <1>1, <1>2 DEF CallsInv

-----------------------------------------------------------------------------
(* Steps of a request that change no database *)

LEMMA SameBook ==
    ASSUME NEW k, BookInv(k), UNCHANGED transfers,
           row'[Taker].owner = row[Taker].owner, row'[Hub].owner = row[Hub].owner
    PROVE  BookInv(k)'
BY DEF BookInv, Numbering, Pairing, HubSingleOpen, Custody, TakerHas, HubHas,
       LocallyOwned, Open

LEMMA SteadySame ==
    ASSUME UNCHANGED <<transfers, live, reblanked>> PROVE Steady
BY SameGrows DEF Steady

LEMMA RequestOnly ==
    ASSUME NEW k, Inv(k), UNCHANGED <<row, transfers, intent, live, reblanked>>,
           TypeOK', OpsInv', CallsInv'
    PROVE  Inv(k)'
<1>1. BookInv(k)'
  BY SameBook DEF Inv
<1>2. IntentInv' /\ TokenInv'
  BY DEF Inv, IntentInv, TokenInv, OwnsLive, LocallyOwned, HoldsLive, TakerHas, HubHas
<1> QED BY <1>1, <1>2 DEF Inv

\* A nonce that is in no database but may be drawn.
LEMMA KnownNonces ==
    ASSUME NEW k \in 0..MaxNonces, Numbering(k), NEW n \in Nonces
    PROVE  /\ n \in Known(Taker) <=> n <= k
           /\ Open(TakerHas(n)) => n = k
<1>1. n \in Nat /\ k \in Nat
  BY TransferAssumption DEF Nonces
<1>2. n > k <=> TakerHas(n).state = "unknown"
  BY DEF Numbering
<1>3. n < k => ~Open(TakerHas(n))
  BY DEF Numbering
<1>4. n > k => ~Open(TakerHas(n))
  BY <1>2 DEF Open
<1> QED BY <1>1, <1>2, <1>3, <1>4 DEF Known, TakerHas

LEMMA DrawNext ==
    ASSUME NEW k \in 0..MaxNonces, Numbering(k), NEW n \in Nonces,
           Known(Taker) = 1..(n - 1)
    PROVE  n = k + 1
<1>1. n \in Nat /\ k \in Nat /\ MaxNonces \in Nat /\ n >= 1 /\ n <= MaxNonces
  BY TransferAssumption DEF Nonces
<1>2. CASE n <= k
  BY <1>1, <1>2, KnownNonces
<1>3. CASE n > k + 1
  <2>1. k + 1 \in Nonces /\ k + 1 \in 1..(n - 1)
    BY <1>1, <1>3 DEF Nonces
  <2> QED BY <1>1, <2>1, KnownNonces
<1> QED BY <1>1, <1>2, <1>3

LEMMA NoAuthIsAuth == NoAuth \in Auths
BY TransferAssumption DEF NoAuth, Auths, Tokens

LEMMA RetryCheckoutInv ==
    ASSUME NEW k \in 0..MaxNonces, Inv(k), NEW o \in Ops, RetryCheckout(o),
           TypeOK', ~torn'
    PROVE  Inv(k)'
<1>1. PICK n \in Nonces : /\ transfers[Taker][n] = Transfer("checkout", "pending")
                          /\ Call(o, "checkout", n, "checkout", NoAuth)
  BY DEF RetryCheckout, OpenTransfers
<1>2. transfers[Taker][n] \in Transfers
  BY DEF Inv, TypeOK, Instances, Hub, Taker
<1>3. Called("checkout", n, "checkout")'
  BY <1>1, <1>2, TransferIs DEF RetryCheckout, Called, Asked, TakerHas, Is
<1>4. OpsInv' /\ CallsInv'
  BY <1>1, <1>3, SteadySame, NoAuthIsAuth, CallMessages
     DEF RetryCheckout, Inv, Kinds, Directions
<1> QED BY <1>4, RequestOnly DEF RetryCheckout

LEMMA ConfirmedInv ==
    ASSUME NEW k \in 0..MaxNonces, Inv(k), NEW o \in Ops, Confirmed(o),
           TypeOK', ~torn'
    PROVE  Inv(k)'
<1>1. OpsInv' /\ CallsInv'
  BY SteadySame, EndMessages DEF Confirmed, Inv, Answered
<1> QED BY <1>1, RequestOnly DEF Confirmed

\* Every request has a nonce, a direction and tokens of the right types.
LEMMA OpFields ==
    ASSUME TypeOK, NEW o \in Ops
    PROVE  /\ op[o].nonce \in Nonces /\ op[o].direction \in Directions
           /\ op[o].kind \in Kinds /\ op[o].auth \in Auths
BY DEF TypeOK, OpStates

LEMMA RowFields ==
    ASSUME TypeOK, NEW i \in Instances
    PROVE  /\ row[i] \in Rows /\ row[i].owner \in Instances
           /\ row[i].refresh \in Tokens /\ row[i].access \in Tokens
           /\ Auth(i) \in Auths
           /\ Auth(i).refresh = row[i].refresh /\ Auth(i).access = row[i].access
<1>1. row[i] \in Rows /\ row[i].owner \in Instances
      /\ row[i].refresh \in Tokens /\ row[i].access \in Tokens
  BY DEF TypeOK, Rows
<1> QED BY <1>1 DEF Auth, Auths

LEMMA SendCheckinInv ==
    ASSUME NEW k \in 0..MaxNonces, Inv(k), NEW o \in Ops, SendCheckin(o),
           TypeOK', ~torn'
    PROVE  Inv(k)'
<1>1. PICK n \in Nonces : n = op[o].nonce
  BY OpFields DEF Inv
<1>2. Asked(n, "checkin")
  BY <1>1 DEF SendCheckin, Inv, OpsInv, OpInv
<1>3. Called("checkin", n, "checkin")'
  BY <1>2 DEF SendCheckin, Called, Asked, TakerHas
<1>4. PICK auth \in Auths :
          auth = Auth(Taker) /\ auth.refresh = row[Taker].refresh
                             /\ auth.access = row[Taker].access
  BY RowFields DEF Inv, Instances
<1>5. HubHas(n).state = "unknown" => Is(TakerHas(n), "checkin", "pending")
  BY <1>2 DEF Inv, BookInv, Pairing, MayKnow, Asked, Is
<1>6. HubHas(n).state = "unknown" => reblanked \/ HoldsLive(auth)
  BY <1>4, <1>5 DEF Inv, TokenInv, HoldsLive
<1>7. HubHas(n)'.state = "unknown" => (reblanked \/ HoldsLive(auth))'
  BY <1>6 DEF SendCheckin, HubHas, HoldsLive
<1>8. OpsInv' /\ CallsInv'
  BY <1>1, <1>3, <1>4, <1>7, SteadySame, CallMessages
     DEF SendCheckin, Inv, Kinds, Directions
<1> QED BY <1>8, RequestOnly DEF SendCheckin

LEMMA ReclaimSettledInv ==
    ASSUME NEW k \in 0..MaxNonces, Inv(k), NEW o \in Ops, ReclaimSettled(o),
           TypeOK', ~torn'
    PROVE  Inv(k)'
<1>1. OpsInv' /\ CallsInv'
  <2>1. CASE End(o)
    BY <2>1, SteadySame, EndMessages DEF ReclaimSettled, CanReclaim, Inv
  <2>2. CASE ~End(o)
    <3>1. PICK n \in Nonces :
              /\ LatestCheckout(Taker, n) /\ transfers[Taker][n].state = "settled"
              /\ Call(o, "confirm", n, "checkout", NoAuth)
      BY <2>2 DEF ReclaimSettled
    <3>2. Called("confirm", n, "checkout")'
      BY <3>1 DEF ReclaimSettled, LatestCheckout, Called, Asked, TakerHas, Is
    <3> QED BY <3>1, <3>2, SteadySame, NoAuthIsAuth, CallMessages
            DEF ReclaimSettled, CanReclaim, Inv, Kinds, Directions
  <2> QED BY <2>1, <2>2
<1> QED BY <1>1, RequestOnly DEF ReclaimSettled

LEMMA ReclaimCheckinInv ==
    ASSUME NEW k \in 0..MaxNonces, Inv(k), NEW o \in Ops, ReclaimCheckin(o),
           TypeOK', ~torn'
    PROVE  Inv(k)'
<1>1. PICK n \in Nonces : /\ Open(transfers[Taker][n])
                          /\ transfers[Taker][n].direction = "checkin"
                          /\ Call(o, "abort", n, "checkin", NoAuth)
  BY DEF ReclaimCheckin, LatestOpen, OpenTransfers
<1>2. Called("abort", n, "checkin")'
  BY <1>1 DEF ReclaimCheckin, Called, Asked, TakerHas, Open
<1>3. OpsInv' /\ CallsInv'
  BY <1>1, <1>2, SteadySame, NoAuthIsAuth, CallMessages
     DEF ReclaimCheckin, CanReclaim, Inv, Kinds, Directions
<1> QED BY <1>3, RequestOnly DEF ReclaimCheckin

LEMMA ReclaimCheckoutInv ==
    ASSUME NEW k \in 0..MaxNonces, Inv(k), NEW o \in Ops, ReclaimCheckout(o),
           TypeOK', ~torn'
    PROVE  Inv(k)'
<1>1. PICK n \in Nonces : /\ Open(transfers[Taker][n])
                          /\ transfers[Taker][n].direction = "checkout"
                          /\ op' = [op EXCEPT ![o] = [Idle EXCEPT !.pc = "begin", !.nonce = n]]
  BY DEF ReclaimCheckout, LatestOpen, OpenTransfers
<1>2. PICK s \in OpStates : /\ s = [Idle EXCEPT !.pc = "begin", !.nonce = n]
                            /\ s.pc = "begin" /\ s.nonce = n
  BY PlaceType
<1>3. Asked(s.nonce, "checkout")'
  BY <1>1, <1>2 DEF ReclaimCheckout, Asked, TakerHas, Open
<1>4. OpsInv' /\ CallsInv'
  BY <1>1, <1>2, <1>3, SteadySame, TurnMessages DEF ReclaimCheckout, CanReclaim, Inv
<1> QED BY <1>4, RequestOnly DEF ReclaimCheckout

\* The request that follows a failed call.
LEMMA FailedRequest ==
    ASSUME TypeOK, NEW o \in Ops
    PROVE  \E s \in OpStates : Failed(o) = [op EXCEPT ![o] = s] /\ s.pc \in {"idle", "reclaim"}
<1>1. CASE op[o].kind = "checkin"
  <2>1. Failed(o) = [op EXCEPT ![o] = [Idle EXCEPT !.pc = "reclaim"]]
    BY <1>1 DEF Failed
  <2> QED BY <2>1, IdleType
<1>2. CASE op[o].kind # "checkin"
  <2>1. Failed(o) = [op EXCEPT ![o] = Idle]
    BY <1>2 DEF Failed
  <2> QED BY <2>1, IdleType
<1> QED BY <1>1, <1>2

LEMMA RefusedInv ==
    ASSUME NEW k \in 0..MaxNonces, Inv(k), NEW o \in Ops, Refused(o),
           TypeOK', ~torn'
    PROVE  Inv(k)'
<1>1. PICK s \in OpStates : op' = [op EXCEPT ![o] = s] /\ s.pc \in {"idle", "reclaim"}
  BY FailedRequest DEF Refused, Inv
<1>2. OpsInv' /\ CallsInv'
  BY <1>1, SteadySame, TurnMessages DEF Refused, Answered, Inv
<1> QED BY <1>2, RequestOnly DEF Refused

\* What a transaction has read changes nothing in the request's invariant.
LEMMA LookInv ==
    ASSUME NEW k \in 0..MaxNonces, Inv(k), NEW o \in Ops, Look(o), TypeOK', ~torn'
    PROVE  Inv(k)'
<1>u. UNCHANGED <<row, transfers, intent, live, calls, mirror, reblanked>>
  BY DEF Look
<1>1. CASE LookFirst(o)
  <2>1. PICK p \in {"reserving", "releasing"} :
            op' = [op EXCEPT ![o] = [Idle EXCEPT !.pc = p]]
    BY <1>1 DEF LookFirst
  <2>2. PICK s \in OpStates : s = [Idle EXCEPT !.pc = p] /\ s.pc = p
    BY LookType
  <2>3. OpsInv' /\ CallsInv'
    BY <1>u, <1>1, <2>1, <2>2, SteadySame, TurnMessages DEF LookFirst, Inv
  <2> QED BY <1>u, <2>3, RequestOnly
<1>2. CASE LookAgain(o)
  <2>1. PICK s \in OpStates : s = op[o]
    BY DEF Inv, TypeOK
  <2>2. PICK x : x = transfers[Taker][op[o].nonce].state
    OBVIOUS
  <2>3. PICK t : t = [s EXCEPT !.read = x]
    OBVIOUS
  <2>4. /\ t.pc = s.pc /\ t.kind = s.kind /\ t.nonce = s.nonce /\ t.answer = s.answer
        /\ t.direction = s.direction /\ t.auth = s.auth
    BY <2>3 DEF OpStates
  <2>5. op' = [op EXCEPT ![o] = t]
    BY <1>2, <2>1, <2>2, <2>3 DEF LookAgain, Inv, TypeOK
  <2>6. op'[o] = t /\ \A q \in Ops : q # o => op'[q] = op[q]
    BY <2>5 DEF Inv, TypeOK
  <2>7. ASSUME NEW q \in Ops PROVE OpInv(q)'
    <3>1. OpInv(q)
      BY DEF Inv, OpsInv
    <3>2. CASE q = o
      BY <1>u, <2>1, <2>4, <2>6, <3>1, <3>2
         DEF OpInv, Answered, Asked, Called, Told, TakerHas, HubHas, HoldsLive
    <3>3. CASE q # o
      BY <1>u, <2>6, <3>1, <3>3, SteadySame, OpStable DEF Inv
    <3> QED BY <3>2, <3>3
  <2>8. ASSUME NEW c \in calls PROVE CallInv(c)'
    <3>1. c.from \in Ops \cup {None} /\ CallInv(c)
      BY DEF Inv, TypeOK, CallsInv, Calls
    <3>2. op[o].pc # "waiting"
      BY <1>2 DEF LookAgain, Answered, HubHasTokens
    <3>3. c.from # None => op'[c.from] = op[c.from]
      BY <2>6, <3>1, <3>2 DEF CallInv
    <3> QED BY <1>u, <3>1, <3>3 DEF CallInv, Called, Asked, TakerHas, HubHas, HoldsLive
  <2>9. OpsInv'
    BY <2>7 DEF OpsInv
  <2>10. CallsInv'
    BY <1>u, <2>8 DEF CallsInv
  <2> QED BY <1>u, <2>9, <2>10, RequestOnly
<1> QED BY <1>1, <1>2 DEF Look

LEMMA OutOfNoncesInv ==
    ASSUME NEW k \in 0..MaxNonces, Inv(k), NEW o \in Ops, OutOfNonces(o), TypeOK', ~torn'
    PROVE  Inv(k)'
<1>1. OpsInv' /\ CallsInv'
  BY SteadySame, EndMessages DEF OutOfNonces, Inv
<1> QED BY <1>1, RequestOnly DEF OutOfNonces

LEMMA TimeoutInv ==
    ASSUME NEW k \in 0..MaxNonces, Inv(k), NEW o \in Ops, Timeout(o), TypeOK', ~torn'
    PROVE  Inv(k)'
<1>1. PICK s \in OpStates : op' = [op EXCEPT ![o] = s] /\ s.pc \in {"idle", "reclaim"}
  BY FailedRequest DEF Timeout, Inv
<1>2. op'[o] = s /\ \A q \in Ops : q # o => op'[q] = op[q]
  BY <1>1 DEF Inv, TypeOK
<1>3. OpsInv' /\ CallsInv'
  BY <1>1, <1>2, SteadySame, OrphanMessages DEF Timeout, Inv
<1> QED BY <1>3, RequestOnly DEF Timeout

LEMMA RestartInv ==
    ASSUME NEW k \in 0..MaxNonces, Inv(k), Restart, TypeOK', ~torn'
    PROVE  Inv(k)'
<1>1. \A q \in Ops : op'[q].pc = "idle"
  BY IdleType DEF Restart
<1>2. OpsInv' /\ CallsInv'
  BY <1>1, SteadySame, OrphanMessages DEF Restart, Inv
<1> QED BY <1>2, RequestOnly DEF Restart

LEMMA FetchMirrorInv ==
    ASSUME NEW k \in 0..MaxNonces, Inv(k), FetchMirror, TypeOK', ~torn'
    PROVE  Inv(k)'
<1>1. OpsInv' /\ CallsInv'
  BY SteadySame, SameMessages DEF FetchMirror, Inv
<1> QED BY <1>1, RequestOnly DEF FetchMirror

-----------------------------------------------------------------------------
(* Steps of the taker's database *)

LEMMA TakerSets ==
    ASSUME TypeOK, NEW n \in Nonces, NEW d \in Directions,
           NEW s \in {"pending", "aborting", "settled", "aborted"},
           SetTransfer(Taker, n, d, s)
    PROVE  /\ transfers' \in [Instances -> [Nonces -> Transfers]]
           /\ TakerHas(n)'.direction = d /\ TakerHas(n)'.state = s
           /\ \A m \in Nonces : m # n => TakerHas(m)' = TakerHas(m)
           /\ \A m \in Nonces : HubHas(m)' = HubHas(m)
<1>1. Taker \in Instances /\ Hub \in Instances /\ Taker # Hub
  BY DEF Instances, Hub, Taker
<1> QED BY <1>1, SetsTransfer DEF TakerHas, HubHas, Is

LEMMA HubSets ==
    ASSUME TypeOK, NEW n \in Nonces, NEW d \in Directions,
           NEW s \in {"pending", "aborting", "settled", "aborted"},
           SetTransfer(Hub, n, d, s)
    PROVE  /\ transfers' \in [Instances -> [Nonces -> Transfers]]
           /\ HubHas(n)'.direction = d /\ HubHas(n)'.state = s
           /\ \A m \in Nonces : m # n => HubHas(m)' = HubHas(m)
           /\ \A m \in Nonces : TakerHas(m)' = TakerHas(m)
<1>1. Taker \in Instances /\ Hub \in Instances /\ Taker # Hub
  BY DEF Instances, Hub, Taker
<1> QED BY <1>1, SetsTransfer DEF TakerHas, HubHas, Is

LEMMA HasTypes ==
    ASSUME TypeOK, NEW n \in Nonces
    PROVE  /\ TakerHas(n) \in Transfers /\ HubHas(n) \in Transfers
           /\ TakerHas(n).direction \in Directions
           /\ TakerHas(n).state \in {"unknown", "pending", "aborting", "settled", "aborted"}
           /\ HubHas(n).state \in {"unknown", "pending", "aborting", "settled", "aborted"}
<1>1. TakerHas(n) \in Transfers /\ HubHas(n) \in Transfers
  BY DEF TypeOK, TakerHas, HubHas, Instances
<1> QED BY <1>1 DEF Transfers, States

\* The taker draws a nonce for a new transfer.
LEMMA Drawn ==
    ASSUME NEW k \in 0..MaxNonces, Inv(k), NEW n \in Nonces, Known(Taker) = 1..(n - 1),
           NEW d \in Directions, SetTransfer(Taker, n, d, "pending"),
           OpenTransfers(Taker) = {}
    PROVE  /\ n = k + 1
           /\ TakerHas(n).state = "unknown" /\ HubHas(n).state = "unknown"
           /\ Grows /\ Numbering(n)' /\ Pairing' /\ HubSingleOpen'
<1>1. n = k + 1 /\ k \in Nat /\ n \in Nat
  BY DrawNext, TransferAssumption DEF Inv, BookInv, Nonces
<1>2. TakerHas(n).state = "unknown"
  BY <1>1 DEF Inv, BookInv, Numbering
<1>3. HubHas(n).state = "unknown"
  BY <1>2 DEF Inv, BookInv, Pairing, MayKnow
<1>4. /\ TakerHas(n)'.direction = d /\ TakerHas(n)'.state = "pending"
      /\ \A m \in Nonces : m # n => TakerHas(m)' = TakerHas(m)
      /\ \A m \in Nonces : HubHas(m)' = HubHas(m)
  BY TakerSets DEF Inv
<1>5. Grows
  BY <1>2, <1>4 DEF Grows
<1>6. \A m \in Nonces : ~Open(TakerHas(m))
  BY DEF OpenTransfers, TakerHas
<1>7. Numbering(n)'
  <2>1. ASSUME NEW m \in Nonces
        PROVE  /\ m > n <=> TakerHas(m)'.state = "unknown"
               /\ m < n => ~Open(TakerHas(m)')
    <3>1. m \in Nat
      BY TransferAssumption DEF Nonces
    <3>2. m > k <=> TakerHas(m).state = "unknown"
      BY DEF Inv, BookInv, Numbering
    <3> QED BY <1>1, <1>4, <1>6, <3>1, <3>2
  <2> QED BY <2>1 DEF Numbering, Open
<1>8. Pairing'
  <2>1. MayKnow(TakerHas(n), HubHas(n).state)'
    BY <1>3, <1>4 DEF MayKnow, Directions
  <2>2. ASSUME NEW m \in Nonces, m # n
        PROVE  /\ MayKnow(TakerHas(m), HubHas(m).state)'
               /\ HubHas(m)'.state # "unknown" => HubHas(m)'.direction = TakerHas(m)'.direction
    BY <1>4, <2>2 DEF Inv, BookInv, Pairing, MayKnow
  <2> QED BY <1>3, <1>4, <2>1, <2>2 DEF Pairing
<1>9. HubSingleOpen'
  BY <1>4 DEF Inv, BookInv, HubSingleOpen, Open
<1> QED BY <1>1, <1>2, <1>3, <1>5, <1>7, <1>8, <1>9

LEMMA ReserveCheckoutInv ==
    ASSUME NEW k \in 0..MaxNonces, Inv(k), NEW o \in Ops, ReserveCheckout(o),
           TypeOK', ~torn'
    PROVE  k + 1 \in 0..MaxNonces /\ Inv(k + 1)'
<1>1. PICK n \in Nonces : /\ Known(Taker) = 1..(n - 1)
                          /\ SetTransfer(Taker, n, "checkout", "pending")
                          /\ Call(o, "checkout", n, "checkout", NoAuth)
  BY DEF ReserveCheckout
<1>u. /\ UNCHANGED <<row, intent, live, mirror, reblanked, faults>>
      /\ OpenTransfers(Taker) = {} /\ row[Taker].owner = Hub /\ op[o].pc # "waiting"
  BY DEF ReserveCheckout, Tears, CanReserve
<1>2. /\ n = k + 1
      /\ TakerHas(n).state = "unknown" /\ HubHas(n).state = "unknown"
      /\ Grows /\ Numbering(n)' /\ Pairing' /\ HubSingleOpen'
  BY <1>1, <1>u, Drawn DEF Directions
<1>3. /\ transfers' \in [Instances -> [Nonces -> Transfers]]
      /\ TakerHas(n)'.direction = "checkout" /\ TakerHas(n)'.state = "pending"
      /\ \A m \in Nonces : m # n => TakerHas(m)' = TakerHas(m)
      /\ \A m \in Nonces : HubHas(m)' = HubHas(m)
  BY <1>1, TakerSets DEF Inv, Directions
<1>4. row[Hub].owner # Taker
  <2>1. CASE k = 0
    BY <2>1 DEF Inv, BookInv, Custody
  <2>2. CASE k > 0
    <3>1. k \in Nonces /\ k \in Nat
      BY <2>2 DEF Nonces
    <3>2. TakerHas(k).state # "unknown" /\ ~Open(TakerHas(k))
      BY <1>u, <3>1 DEF Inv, BookInv, Numbering, OpenTransfers, TakerHas
    <3>3. ~LocallyOwned(Taker)
      BY <1>u DEF LocallyOwned, Hub, Taker
    <3>4. MayKnow(TakerHas(k), HubHas(k).state)
      BY <3>1 DEF Inv, BookInv, Pairing
    <3> QED BY <2>2, <3>2, <3>3, <3>4 DEF Inv, BookInv, Custody, MayKnow, Open, Is
  <2> QED BY <2>1, <2>2
<1>5. Custody(n)'
  <2>1. ~LocallyOwned(Taker)' /\ row'[Hub].owner # Taker
    BY <1>u, <1>4 DEF LocallyOwned, Hub, Taker
  <2> QED BY <1>2, <1>3, <2>1 DEF Custody, Is
<1>6. Steady /\ Called("checkout", n, "checkout")'
  BY <1>u, <1>2, <1>3 DEF Steady, Called, Asked
<1>7. OpsInv' /\ CallsInv'
  BY <1>1, <1>u, <1>6, NoAuthIsAuth, CallMessages DEF Inv, Kinds, Directions
<1>8. IntentInv'
  BY <1>u DEF Inv, IntentInv, LocallyOwned
<1>9. TokenInv'
  BY <1>u, <1>2, <1>3 DEF Inv, TokenInv, OwnsLive, LocallyOwned, HoldsLive, Is
<1>10. k + 1 \in 0..MaxNonces
  BY <1>2, TransferAssumption DEF Nonces
<1>11. BookInv(n)'
  BY <1>2, <1>5 DEF BookInv
<1>12. Inv(n)'
  BY <1>7, <1>8, <1>9, <1>11 DEF Inv
<1> QED BY <1>2, <1>10, <1>12

LEMMA RetryCheckinInv ==
    ASSUME NEW k \in 0..MaxNonces, Inv(k), NEW o \in Ops, RetryCheckin(o),
           TypeOK', ~torn'
    PROVE  Inv(k)'
<1>1. PICK n \in Nonces :
         /\ transfers[Taker][n] = Transfer("checkin", "pending")
         /\ op' = [op EXCEPT ![o] = [Idle EXCEPT !.pc = "released", !.nonce = n]]
  BY DEF RetryCheckin
<1>2. PICK s \in OpStates : /\ s = [Idle EXCEPT !.pc = "released", !.nonce = n]
                            /\ s.pc = "released" /\ s.nonce = n
  BY PlaceType
<1>3. Asked(s.nonce, "checkin")'
  BY <1>1, <1>2, HasTypes, TransferIs DEF RetryCheckin, Inv, Asked, TakerHas, Is
<1>4. OpsInv' /\ CallsInv'
  BY <1>1, <1>2, <1>3, SteadySame, TurnMessages DEF RetryCheckin, Inv
<1> QED BY <1>4, RequestOnly DEF RetryCheckin

LEMMA ReleaseForCheckinInv ==
    ASSUME NEW k \in 0..MaxNonces, Inv(k), NEW o \in Ops, ReleaseForCheckin(o),
           TypeOK', ~torn'
    PROVE  k + 1 \in 0..MaxNonces /\ Inv(k + 1)'
<1>u. /\ UNCHANGED <<intent, live, calls, mirror, reblanked, faults>>
      /\ op[o].pc # "waiting" /\ intent[Taker] = 0
      /\ LocallyOwned(Taker) /\ OpenTransfers(Taker) = {}
  BY DEF ReleaseForCheckin, Tears, CanGiveBack
<1>1. PICK n \in Nonces :
         /\ op' = [op EXCEPT ![o] = [Idle EXCEPT !.pc = "released", !.nonce = n]]
         /\ Known(Taker) = 1..(n - 1)
         /\ row' = [row EXCEPT ![Taker].owner = Hub]
         /\ SetTransfer(Taker, n, "checkin", "pending")
  BY DEF ReleaseForCheckin
<1>2. PICK s \in OpStates : /\ s = [Idle EXCEPT !.pc = "released", !.nonce = n]
                            /\ s.pc = "released" /\ s.nonce = n
  BY PlaceType
<1>3. /\ n = k + 1
      /\ TakerHas(n).state = "unknown" /\ HubHas(n).state = "unknown"
      /\ Grows /\ Numbering(n)' /\ Pairing' /\ HubSingleOpen'
  BY <1>u, <1>1, Drawn DEF Directions
<1>4. /\ transfers' \in [Instances -> [Nonces -> Transfers]]
      /\ TakerHas(n)'.direction = "checkin" /\ TakerHas(n)'.state = "pending"
      /\ \A m \in Nonces : m # n => TakerHas(m)' = TakerHas(m)
      /\ \A m \in Nonces : HubHas(m)' = HubHas(m)
  BY <1>1, TakerSets DEF Inv, Directions
<1>5. /\ row' \in [Instances -> Rows] /\ row'[Hub] = row[Hub]
      /\ row'[Taker].owner = Hub /\ row'[Taker].refresh = row[Taker].refresh
      /\ row'[Taker].access = row[Taker].access
  BY <1>1 DEF Inv, TypeOK, Rows, Instances, Hub, Taker
<1>6. row[Hub].owner = Taker
  <2>1. k > 0 /\ k \in Nonces
    BY <1>u DEF Inv, BookInv, Custody, Nonces
  <2> QED BY <1>u, <2>1 DEF Inv, BookInv, Custody, Pairing, MayKnow, Is
<1>7. Custody(n)'
  <2>1. ~LocallyOwned(Taker)' /\ row'[Hub].owner = Taker /\ n > 0
    BY <1>3, <1>5, <1>6 DEF LocallyOwned, Hub, Taker
  <2> QED BY <1>3, <1>4, <2>1 DEF Custody, Is
<1>8. Steady /\ Asked(s.nonce, "checkin")'
  BY <1>u, <1>2, <1>3, <1>4 DEF Steady, Asked
<1>9. OpsInv' /\ CallsInv'
  BY <1>u, <1>1, <1>2, <1>8, TurnMessages DEF Inv
<1>10. IntentInv'
  BY <1>u, <1>5 DEF Inv, IntentInv, LocallyOwned, Instances
<1>11. TokenInv'
  <2>1. reblanked \/ HoldsLive(row[Taker])
    BY <1>u DEF Inv, TokenInv, OwnsLive, HoldsLive, Instances
  <2> QED BY <1>u, <1>3, <1>4, <1>5, <2>1
          DEF Inv, TokenInv, OwnsLive, LocallyOwned, HoldsLive, Is, Instances, Hub, Taker
<1>12. k + 1 \in 0..MaxNonces
  BY <1>3, TransferAssumption DEF Nonces
<1>13. Inv(n)'
  BY <1>3, <1>7, <1>9, <1>10, <1>11 DEF Inv, BookInv
<1> QED BY <1>3, <1>12, <1>13

\* The taker goes on with a transfer it knows.
LEMMA TakerMoves ==
    ASSUME NEW k \in 0..MaxNonces, Inv(k), NEW n \in Nonces,
           TakerHas(n).state # "unknown",
           NEW s \in {"aborting", "settled", "aborted"}, NEW d \in Directions,
           d = TakerHas(n).direction,
           SetTransfer(Taker, n, d, s),
           n = k \/ TakerHas(n).state = s,
           TakerHas(n).state \in {"aborting", "aborted"} => s \in {"aborting", "aborted"},
           TakerHas(n).state = "settled" => s = "settled",
           MayKnow(TakerHas(n)', HubHas(n).state)
    PROVE  Grows /\ Numbering(k)' /\ Pairing' /\ HubSingleOpen'
<1>1. /\ TakerHas(n)'.direction = d /\ TakerHas(n)'.state = s
      /\ \A m \in Nonces : m # n => TakerHas(m)' = TakerHas(m)
      /\ \A m \in Nonces : HubHas(m)' = HubHas(m)
  BY TakerSets DEF Inv
<1>2. Grows
  BY <1>1 DEF Grows
<1>3. Numbering(k)'
  <2>1. ASSUME NEW m \in Nonces
        PROVE  /\ m > k <=> TakerHas(m)'.state = "unknown"
               /\ m < k => ~Open(TakerHas(m)')
    <3>1. m \in Nat /\ k \in Nat
      BY TransferAssumption DEF Nonces
    <3>2. /\ m > k <=> TakerHas(m).state = "unknown"
          /\ m < k => ~Open(TakerHas(m))
      BY DEF Inv, BookInv, Numbering
    <3> QED BY <1>1, <3>1, <3>2 DEF Open
  <2> QED BY <2>1 DEF Numbering, Open
<1>4. Pairing'
  <2>1. MayKnow(TakerHas(n), HubHas(n).state)'
    BY <1>1 DEF MayKnow
  <2>2. HubHas(n)'.state # "unknown" => HubHas(n)'.direction = TakerHas(n)'.direction
    BY <1>1 DEF Inv, BookInv, Pairing
  <2>3. ASSUME NEW m \in Nonces, m # n
        PROVE  /\ MayKnow(TakerHas(m), HubHas(m).state)'
               /\ HubHas(m)'.state # "unknown" => HubHas(m)'.direction = TakerHas(m)'.direction
    BY <1>1, <2>3 DEF Inv, BookInv, Pairing, MayKnow
  <2> QED BY <2>1, <2>2, <2>3 DEF Pairing
<1>5. HubSingleOpen'
  BY <1>1 DEF Inv, BookInv, HubSingleOpen, Open
<1> QED BY <1>2, <1>3, <1>4, <1>5

LEMMA ImportCheckoutInv ==
    ASSUME NEW k \in 0..MaxNonces, Inv(k), NEW o \in Ops, ImportCheckout(o),
           TypeOK', ~torn'
    PROVE  Inv(k)'
<1>u. /\ UNCHANGED <<intent, live, mirror, reblanked, faults>>
      /\ Answered(o, "checkout", {"ok"}) /\ op[o].pc # "waiting"
  BY DEF ImportCheckout, Answered
<1>1. PICK n \in Nonces : n = op[o].nonce
  BY OpFields DEF Inv
<1>2. CASE End(o) /\ UNCHANGED <<row, transfers>>
  <2>1. OpsInv' /\ CallsInv'
    BY <1>u, <1>2, SteadySame, EndMessages DEF Inv
  <2> QED BY <1>u, <1>2, <2>1, RequestOnly
<1>3. CASE /\ CanImport(n)
           /\ row' = [row EXCEPT ![Taker] = [owner |-> Taker, refresh |-> op[o].auth.refresh,
                                             access |-> op[o].auth.access]]
           /\ SetTransfer(Taker, n, "checkout", "settled")
           /\ Call(o, "confirm", n, "checkout", NoAuth)
  <2>1. PICK auth \in Auths : auth = op[o].auth
    BY OpFields DEF Inv
  <2>2. /\ row' = [row EXCEPT ![Taker] = [owner |-> Taker, refresh |-> auth.refresh,
                                          access |-> auth.access]]
        /\ SetTransfer(Taker, n, "checkout", "settled")
        /\ Call(o, "confirm", n, "checkout", NoAuth)
    BY <1>3, <2>1
  <2>3. Is(TakerHas(n), "checkout", "pending") /\ ~LocallyOwned(Taker)
    BY <1>3, HasTypes, TransferIs DEF CanImport, Reserved, Inv, TakerHas
  <2>4. n = k
    BY <2>3, KnownNonces DEF Inv, BookInv, Open, Is
  <2>5. HubHas(n).state = "pending"
    BY <1>u, <1>1, <2>3 DEF Inv, OpsInv, OpInv, Told, Answered, BookInv, Pairing, MayKnow, Is
  <2>6. reblanked \/ HoldsLive(auth)
    BY <1>u, <1>1, <2>1, <2>3 DEF Inv, OpsInv, OpInv
  <2>7. /\ transfers' \in [Instances -> [Nonces -> Transfers]]
        /\ TakerHas(n)'.direction = "checkout" /\ TakerHas(n)'.state = "settled"
        /\ \A m \in Nonces : m # n => TakerHas(m)' = TakerHas(m)
        /\ \A m \in Nonces : HubHas(m)' = HubHas(m)
    BY <2>2, TakerSets DEF Inv, Directions
  <2>8. MayKnow(TakerHas(n)', HubHas(n).state)
    BY <2>5, <2>7 DEF MayKnow
  <2>9. Grows /\ Numbering(k)' /\ Pairing' /\ HubSingleOpen'
    BY <2>2, <2>3, <2>4, <2>8, TakerMoves DEF Is, Directions
  <2>10. /\ row' \in [Instances -> Rows] /\ row'[Hub] = row[Hub]
         /\ row'[Taker].owner = Taker /\ row'[Taker].refresh = auth.refresh
         /\ row'[Taker].access = auth.access
    <3>1. [owner |-> Taker, refresh |-> auth.refresh, access |-> auth.access] \in Rows
      BY DEF Rows, Auths, Instances
    <3> QED BY <2>2, <3>1 DEF Inv, TypeOK, Instances, Hub, Taker
  <2>11. Custody(k)'
    <3>1. row[Hub].owner = Taker /\ k > 0
      BY <2>3, <2>4, <2>5 DEF Inv, BookInv, Custody, Is, Nonces
    <3> QED BY <2>4, <2>5, <2>7, <2>10, <3>1 DEF Custody, LocallyOwned, Is
  <2>12. Steady /\ Called("confirm", n, "checkout")'
    BY <1>u, <2>7, <2>9 DEF Steady, Called, Asked, Is
  <2>13. OpsInv' /\ CallsInv'
    BY <1>u, <2>2, <2>12, NoAuthIsAuth, CallMessages DEF Inv, Kinds, Directions
  <2>14. IntentInv'
    BY <1>u, <2>3, <2>10 DEF Inv, IntentInv, LocallyOwned, Instances
  <2>15. TokenInv'
    <3>1. ASSUME ~reblanked
          PROVE  HoldsLive(row[Taker])' /\ (LocallyOwned(Hub)' => HoldsLive(row[Hub])')
      BY <1>u, <2>6, <2>10, <3>1 DEF Inv, TokenInv, OwnsLive, LocallyOwned,
                                     HoldsLive, Instances
    <3>2. ASSUME NEW m \in Nonces, TakerHas(m)'.state \in {"pending", "aborting"}
          PROVE  FALSE
      BY <2>3, <2>4, <2>7, <3>2, KnownNonces DEF Inv, BookInv, Open
    <3> QED BY <1>u, <3>1, <3>2 DEF TokenInv, OwnsLive, HoldsLive, Instances, Is
  <2> QED BY <1>u, <2>7, <2>9, <2>10, <2>11, <2>13, <2>14, <2>15
          DEF Inv, BookInv
<1> QED BY <1>1, <1>2, <1>3 DEF ImportCheckout, Tears

LEMMA SettleCheckinAndBlankInv ==
    ASSUME NEW k \in 0..MaxNonces, Inv(k), NEW o \in Ops, SettleCheckinAndBlank(o),
           TypeOK', ~torn'
    PROVE  Inv(k)'
<1>u. /\ UNCHANGED <<intent, live, mirror, faults>> /\ End(o)
      /\ op[o].pc = "answered" /\ op[o].direction = "checkin"
      /\ \/ op[o].kind = "checkin" /\ op[o].answer = "ok"
         \/ op[o].kind = "abort" /\ op[o].answer = "settled"
  BY DEF SettleCheckinAndBlank, HubHasTokens, Answered
<1>1. PICK n \in Nonces : n = op[o].nonce
  BY OpFields DEF Inv
<1>2. /\ TakerHas(n).direction = "checkin" /\ TakerHas(n).state # "unknown"
      /\ HubHas(n).state = "settled"
  BY <1>u, <1>1 DEF Inv, OpsInv, OpInv, Called, Asked, Told
<1>3. CASE UNCHANGED <<row, transfers, reblanked>>
  <2>1. OpsInv' /\ CallsInv'
    BY <1>u, <1>3, SteadySame, EndMessages DEF Inv
  <2> QED BY <1>u, <1>3, <2>1, RequestOnly
<1>4. CASE /\ CanSettleCheckin(n)
           /\ Taker \notin RowLocks /\ op[o].read = "settled" =>
                transfers[Taker][n].state = "settled"
           /\ row' = [row EXCEPT ![Taker].refresh = 0]
           /\ SetTransfer(Taker, n, transfers[Taker][n].direction,
                          IF Taker \notin RowLocks /\ op[o].read = "settled"
                          THEN transfers[Taker][n].state ELSE "settled")
           /\ reblanked' = (reblanked \/ (transfers[Taker][n].state = "settled"
                                            /\ row[Taker].refresh # 0))
  <2>1. /\ row' = [row EXCEPT ![Taker].refresh = 0]
        /\ SetTransfer(Taker, n, "checkin", "settled")
        /\ reblanked' = (reblanked \/ (transfers[Taker][n].state = "settled"
                                         /\ row[Taker].refresh # 0))
    BY <1>2, <1>4 DEF TakerHas
  <2>2. TakerHas(n).state \in {"pending", "settled"} /\ row[Taker].owner = Hub
    BY <1>4 DEF CanSettleCheckin, TakerHas
  <2>3. TakerHas(n).state = "pending" => n = k
    BY KnownNonces DEF Inv, BookInv, Open
  <2>4. /\ transfers' \in [Instances -> [Nonces -> Transfers]]
        /\ TakerHas(n)'.direction = "checkin" /\ TakerHas(n)'.state = "settled"
        /\ \A m \in Nonces : m # n => TakerHas(m)' = TakerHas(m)
        /\ \A m \in Nonces : HubHas(m)' = HubHas(m)
    BY <2>1, TakerSets DEF Inv, Directions
  <2>5. MayKnow(TakerHas(n)', HubHas(n).state)
    BY <1>2, <2>4 DEF MayKnow
  <2>6. Grows /\ Numbering(k)' /\ Pairing' /\ HubSingleOpen'
    BY <1>2, <2>1, <2>2, <2>3, <2>5, TakerMoves DEF Directions
  <2>7. /\ row' \in [Instances -> Rows] /\ row'[Hub] = row[Hub]
        /\ row'[Taker].owner = Hub /\ row'[Taker].access = row[Taker].access
    BY <2>1, <2>2, TransferAssumption DEF Inv, TypeOK, Rows, Tokens, Instances, Hub, Taker
  <2>8. Custody(k)'
    <3>1. ~LocallyOwned(Taker) /\ ~LocallyOwned(Taker)'
      BY <2>2, <2>7 DEF LocallyOwned, Hub, Taker
    <3>2. CASE n = k
      BY <1>2, <2>4, <2>7, <3>1, <3>2 DEF Inv, BookInv, Custody, Is
    <3>3. CASE n # k /\ k > 0
      <4>1. k \in Nonces
        BY <3>3 DEF Nonces
      <4> QED BY <2>4, <2>7, <3>1, <3>3, <4>1 DEF Inv, BookInv, Custody, Is
    <3>4. CASE k = 0
      BY <2>7, <3>1, <3>4 DEF Inv, BookInv, Custody
    <3> QED BY <3>2, <3>3, <3>4
  <2>9. Steady /\ reblanked' \in BOOLEAN
    BY <1>u, <2>1, <2>6 DEF Steady, Inv, TypeOK
  <2>10. OpsInv' /\ CallsInv'
    BY <1>u, <2>9, EndMessages DEF Inv
  <2>11. IntentInv'
    BY <1>u, <2>2, <2>7 DEF Inv, IntentInv, LocallyOwned, Instances, Hub, Taker
  <2>12. TokenInv'
    <3>1. OwnsLive'
      BY <1>u, <2>1, <2>7 DEF Inv, TokenInv, OwnsLive, LocallyOwned, Instances, Hub, Taker
    <3>2. ASSUME NEW m \in Nonces, Is(TakerHas(m)', "checkin", "pending"),
                 HubHas(m)'.state # "settled"
          PROVE  reblanked'
      <4>1. m # n /\ Is(TakerHas(m), "checkin", "pending") /\ HubHas(m).state # "settled"
        BY <2>4, <3>2 DEF Is
      <4>2. reblanked \/ row[Taker].refresh = live
        BY <4>1 DEF Inv, TokenInv, HoldsLive
      <4>3. m = k
        BY <4>1, KnownNonces DEF Inv, BookInv, Open, Is
      <4>4. transfers[Taker][n].state = "settled" /\ live # 0
        BY <2>2, <2>3, <4>1, <4>3 DEF Inv, TypeOK, TakerHas
      <4> QED BY <2>1, <4>2, <4>4
    <3>3. ASSUME NEW m \in Nonces, TakerHas(m)'.state \in {"pending", "aborting"},
                 HubHas(m)'.state = "pending"
          PROVE  (reblanked \/ HoldsLive(row[Hub]))'
      BY <1>u, <2>1, <2>4, <2>7, <3>3 DEF Inv, TokenInv, HoldsLive
    <3> QED BY <3>1, <3>2, <3>3 DEF TokenInv
  <2> QED BY <1>u, <2>4, <2>6, <2>7, <2>8, <2>9, <2>10, <2>11, <2>12
          DEF Inv, BookInv
<1> QED BY <1>1, <1>3, <1>4 DEF SettleCheckinAndBlank, Tears

LEMMA BeginCheckoutAbortInv ==
    ASSUME NEW k \in 0..MaxNonces, Inv(k), NEW o \in Ops, BeginCheckoutAbort(o),
           TypeOK', ~torn'
    PROVE  Inv(k)'
<1>u. UNCHANGED <<row, intent, live, mirror, reblanked, faults>> /\ op[o].pc = "begin"
  BY DEF BeginCheckoutAbort
<1>1. PICK n \in Nonces : n = op[o].nonce
  BY OpFields DEF Inv
<1>2. TakerHas(n).direction = "checkout" /\ TakerHas(n).state # "unknown"
  BY <1>u, <1>1 DEF Inv, OpsInv, OpInv, Asked
<1>3. CASE /\ UNCHANGED transfers
           /\ \/ TakerHas(n).state = "aborting" /\ Call(o, "abort", n, "checkout", NoAuth)
              \/ TakerHas(n).state = "settled" /\ Call(o, "confirm", n, "checkout", NoAuth)
  <2>1. PICK q \in Kinds : Call(o, q, n, "checkout", NoAuth) /\ Called(q, n, "checkout")
    BY <1>2, <1>3 DEF Called, Asked, Is, Kinds
  <2>2. q # "checkin" /\ Called(q, n, "checkout")'
    BY <1>3, <2>1 DEF Called, Asked, TakerHas, Is
  <2>3. OpsInv' /\ CallsInv'
    BY <1>u, <1>3, <2>1, <2>2, SteadySame, NoAuthIsAuth, CallMessages DEF Inv, Directions
  <2> QED BY <1>u, <1>3, <2>3, RequestOnly
<1>4. CASE End(o) /\ UNCHANGED transfers
  <2>1. OpsInv' /\ CallsInv'
    BY <1>u, <1>4, SteadySame, EndMessages DEF Inv
  <2> QED BY <1>u, <1>4, <2>1, RequestOnly
<1>5. CASE /\ TakerHas(n).state \in {"pending", "aborting"}
           /\ SetTransfer(Taker, n, "checkout", "aborting")
           /\ Call(o, "abort", n, "checkout", NoAuth)
  <2>1. /\ SetTransfer(Taker, n, "checkout", "aborting")
        /\ Call(o, "abort", n, "checkout", NoAuth)
    BY <1>5
  <2>2. n = k
    BY <1>5, KnownNonces DEF Inv, BookInv, Open
  <2>3. /\ transfers' \in [Instances -> [Nonces -> Transfers]]
        /\ TakerHas(n)'.direction = "checkout" /\ TakerHas(n)'.state = "aborting"
        /\ \A m \in Nonces : m # n => TakerHas(m)' = TakerHas(m)
        /\ \A m \in Nonces : HubHas(m)' = HubHas(m)
    BY <2>1, TakerSets DEF Inv, Directions
  <2>4. MayKnow(TakerHas(n)', HubHas(n).state)
    BY <1>2, <1>5, <2>3 DEF Inv, BookInv, Pairing, MayKnow
  <2>5. Grows /\ Numbering(k)' /\ Pairing' /\ HubSingleOpen'
    BY <1>2, <1>5, <2>1, <2>2, <2>4, TakerMoves DEF Directions
  <2>6. Custody(k)'
    BY <1>u, <1>2, <1>5, <2>2, <2>3 DEF Inv, BookInv, Custody, LocallyOwned, Is
  <2>7. Steady /\ Called("abort", n, "checkout")'
    BY <1>u, <2>3, <2>5 DEF Steady, Called, Asked
  <2>8. OpsInv' /\ CallsInv'
    BY <1>u, <2>1, <2>7, NoAuthIsAuth, CallMessages DEF Inv, Kinds, Directions
  <2>9. IntentInv'
    BY <1>u DEF Inv, IntentInv, LocallyOwned
  <2>10. TokenInv'
    BY <1>u, <1>5, <2>3 DEF Inv, TokenInv, OwnsLive, LocallyOwned, HoldsLive, Is
  <2> QED BY <1>u, <2>3, <2>5, <2>6, <2>8, <2>9, <2>10 DEF Inv, BookInv
<1> QED BY <1>1, <1>3, <1>4, <1>5 DEF BeginCheckoutAbort, Tears, TakerHas

LEMMA FinishAbortInv ==
    ASSUME NEW k \in 0..MaxNonces, Inv(k), NEW o \in Ops, FinishAbort(o),
           TypeOK', ~torn'
    PROVE  Inv(k)'
<1>u. /\ UNCHANGED <<intent, live, mirror, reblanked, faults>> /\ End(o)
      /\ op[o].pc = "answered" /\ op[o].kind = "abort" /\ op[o].answer = "aborted"
  BY DEF FinishAbort, Answered
<1>1. PICK n \in Nonces : n = op[o].nonce
  BY OpFields DEF Inv
<1>2. PICK d \in Directions : d = op[o].direction
  BY OpFields DEF Inv
<1>3. /\ TakerHas(n).direction = d /\ TakerHas(n).state # "unknown"
      /\ HubHas(n).state = "aborted"
  BY <1>u, <1>1, <1>2 DEF Inv, OpsInv, OpInv, Called, Asked, Told
<1>4. CASE UNCHANGED <<row, transfers>>
  <2>1. OpsInv' /\ CallsInv'
    BY <1>u, <1>4, SteadySame, EndMessages DEF Inv
  <2> QED BY <1>u, <1>4, <2>1, RequestOnly
<1>5. CASE /\ CanFinishAbort(n, d)
           /\ row' = IF d = "checkin" THEN [row EXCEPT ![Taker].owner = Taker] ELSE row
           /\ SetTransfer(Taker, n, transfers[Taker][n].direction, "aborted")
  <2>1. /\ row' = IF d = "checkin" THEN [row EXCEPT ![Taker].owner = Taker] ELSE row
        /\ SetTransfer(Taker, n, d, "aborted")
    BY <1>3, <1>5 DEF TakerHas
  <2>2. /\ TakerHas(n).state \in {"pending", "aborting"}
        /\ d = "checkin" => row[Taker].owner = Hub
    BY <1>5 DEF CanFinishAbort, Open, TakerHas
  <2>3. n = k
    BY <2>2, KnownNonces DEF Inv, BookInv, Open
  <2>4. /\ transfers' \in [Instances -> [Nonces -> Transfers]]
        /\ TakerHas(n)'.direction = d /\ TakerHas(n)'.state = "aborted"
        /\ \A m \in Nonces : m # n => TakerHas(m)' = TakerHas(m)
        /\ \A m \in Nonces : HubHas(m)' = HubHas(m)
    BY <2>1, TakerSets DEF Inv
  <2>5. MayKnow(TakerHas(n)', HubHas(n).state)
    BY <1>3, <2>4 DEF MayKnow, Directions
  <2>6. Grows /\ Numbering(k)' /\ Pairing' /\ HubSingleOpen'
    BY <1>3, <2>1, <2>2, <2>3, <2>5, TakerMoves
  <2>7. /\ row' \in [Instances -> Rows] /\ row'[Hub] = row[Hub]
        /\ row'[Taker].owner = IF d = "checkin" THEN Taker ELSE row[Taker].owner
        /\ row'[Taker].refresh = row[Taker].refresh
        /\ row'[Taker].access = row[Taker].access
    BY <2>1 DEF Inv, TypeOK, Rows, Instances, Hub, Taker
  <2>8. Custody(k)'
    <3>1. k > 0
      BY <2>3 DEF Nonces
    <3>2. ~LocallyOwned(Taker)
      BY <2>2, <2>3 DEF Inv, BookInv, Custody, Is
    <3>3. LocallyOwned(Taker)' <=> d = "checkin"
      BY <2>7, <3>2 DEF LocallyOwned
    <3>4. (row[Hub].owner = Taker)' <=> d = "checkin"
      BY <1>3, <2>3, <2>7, <3>1 DEF Inv, BookInv, Custody, Directions
    <3> QED BY <1>3, <2>3, <2>4, <3>1, <3>3, <3>4 DEF Custody, Is, Directions
  <2>9. Steady
    BY <1>u, <2>6 DEF Steady
  <2>10. OpsInv' /\ CallsInv'
    BY <1>u, <2>9, EndMessages DEF Inv
  <2>11. IntentInv'
    BY <1>u, <2>2, <2>7 DEF Inv, IntentInv, LocallyOwned, Instances, Hub, Taker
  <2>12. TokenInv'
    <3>1. ASSUME d = "checkin" PROVE reblanked \/ HoldsLive(row[Taker])
      <4>1. Is(TakerHas(n), "checkin", "pending")
        BY <1>3, <2>2, <3>1 DEF Inv, BookInv, Pairing, MayKnow, Is
      <4> QED BY <1>3, <4>1 DEF Inv, TokenInv
    <3>2. OwnsLive'
      BY <1>u, <2>7, <3>1 DEF Inv, TokenInv, OwnsLive, LocallyOwned, HoldsLive, Instances
    <3> QED BY <1>u, <2>4, <2>7, <3>2 DEF Inv, TokenInv, HoldsLive, Is
  <2> QED BY <1>u, <2>4, <2>6, <2>7, <2>8, <2>10, <2>11, <2>12
          DEF Inv, BookInv
<1> QED BY <1>1, <1>2, <1>4, <1>5 DEF FinishAbort, Tears

-----------------------------------------------------------------------------
(* Steps of the hub *)

\* What a call is about.
LEMMA CallFields ==
    ASSUME NEW k, Inv(k), NEW c \in calls
    PROVE  /\ c \in Calls /\ c.nonce \in Nonces /\ c.direction \in Directions
           /\ c.auth \in Auths /\ CallInv(c)
           /\ TakerHas(c.nonce).state # "unknown"
           /\ TakerHas(c.nonce).direction = c.direction
           /\ MayKnow(TakerHas(c.nonce), HubHas(c.nonce).state)
<1>1. c \in Calls /\ c.nonce \in Nonces /\ c.direction \in Directions /\ c.auth \in Auths
  BY DEF Inv, TypeOK, Calls
<1>2. CallInv(c)
  BY DEF Inv, CallsInv
<1> QED BY <1>1, <1>2 DEF CallInv, Called, Asked, Inv, BookInv, Pairing

\* The hub says no, or what it has said before.
LEMMA RepliesOnly ==
    ASSUME NEW k \in 0..MaxNonces, Inv(k), NEW c \in calls,
           NEW answer \in {"ok", "refused", "aborted", "settled"},
           Reply(c, answer, NoAuth),
           UNCHANGED <<row, transfers, intent, live, mirror, reblanked, faults>>,
           c.kind = "checkout" => answer = "refused",
           c.kind = "checkin" /\ answer = "ok" => HubHas(c.nonce).state = "settled",
           c.kind = "abort" /\ answer \in {"aborted", "settled"} =>
             HubHas(c.nonce).state = answer,
           TypeOK'
    PROVE  Inv(k)'
<1>1. /\ c.kind = "checkin" /\ answer = "ok" => HubHas(c.nonce)'.state = "settled"
      /\ c.kind = "abort" /\ answer \in {"aborted", "settled"} =>
           HubHas(c.nonce)'.state = answer
  BY DEF HubHas
<1>2. OpsInv' /\ CallsInv'
  BY <1>1, SteadySame, NoAuthIsAuth, ReplyMessages DEF Inv
<1> QED BY <1>2, RequestOnly

\* The hub goes on with a transfer, in a way the taker allows.
LEMMA HubMoves ==
    ASSUME NEW k \in 0..MaxNonces, Inv(k), NEW n \in Nonces, NEW d \in Directions,
           NEW s \in {"pending", "settled", "aborted"},
           SetTransfer(Hub, n, d, s), d = TakerHas(n).direction,
           HubHas(n).state \notin {"settled", "aborted"},
           s = "pending" => OpenTransfers(Hub) = {},
           MayKnow(TakerHas(n), s)
    PROVE  Grows /\ Numbering(k)' /\ Pairing' /\ HubSingleOpen'
<1>1. /\ HubHas(n)'.direction = d /\ HubHas(n)'.state = s
      /\ \A m \in Nonces : m # n => HubHas(m)' = HubHas(m)
      /\ \A m \in Nonces : TakerHas(m)' = TakerHas(m)
  BY HubSets DEF Inv
<1>2. Grows
  BY <1>1 DEF Grows
<1>3. Numbering(k)'
  BY <1>1 DEF Inv, BookInv, Numbering, Open
<1>4. Pairing'
  <2>1. MayKnow(TakerHas(n), HubHas(n).state)'
    BY <1>1 DEF MayKnow
  <2>2. ASSUME NEW m \in Nonces, m # n
        PROVE  /\ MayKnow(TakerHas(m), HubHas(m).state)'
               /\ HubHas(m)'.state # "unknown" => HubHas(m)'.direction = TakerHas(m)'.direction
    BY <1>1, <2>2 DEF Inv, BookInv, Pairing, MayKnow
  <2> QED BY <1>1, <2>1, <2>2 DEF Pairing
<1>5. HubSingleOpen'
  <2>1. CASE s = "pending"
    <3>1. \A m \in Nonces : ~Open(HubHas(m))
      BY <2>1 DEF OpenTransfers, HubHas
    <3>2. \A m \in Nonces : m # n => ~Open(HubHas(m)')
      BY <1>1, <3>1
    <3> QED BY <3>2 DEF HubSingleOpen, Open
  <2>2. CASE s # "pending"
    <3>1. \A m \in Nonces : Open(HubHas(m)') => Open(HubHas(m))
      BY <1>1, <2>2 DEF Open
    <3> QED BY <3>1 DEF Inv, BookInv, HubSingleOpen, Open
  <2> QED BY <2>1, <2>2
<1> QED BY <1>2, <1>3, <1>4, <1>5

\* A transfer the hub has not seen is the one the taker has open.
LEMMA UnseenIsLast ==
    ASSUME NEW k \in 0..MaxNonces, Inv(k), NEW n \in Nonces,
           TakerHas(n).state # "unknown", HubHas(n).state = "unknown"
    PROVE  n = k /\ k > 0 /\ TakerHas(n).state \in {"pending", "aborting"}
<1>1. TakerHas(n).state \in {"pending", "aborting"}
  BY DEF Inv, BookInv, Pairing, MayKnow
<1>2. n = k
  BY <1>1, KnownNonces DEF Inv, BookInv, Open
<1> QED BY <1>1, <1>2 DEF Nonces

LEMMA ReleaseForCheckoutInv ==
    ASSUME NEW k \in 0..MaxNonces, Inv(k), NEW c \in calls, ReleaseForCheckout(c),
           TypeOK', ~torn'
    PROVE  Inv(k)'
<1>u. UNCHANGED <<intent, live, mirror, reblanked, faults>> /\ c.kind = "checkout"
  BY DEF ReleaseForCheckout
<1>1. CASE Reply(c, "refused", NoAuth) /\ UNCHANGED <<row, transfers>>
  BY <1>u, <1>1, RepliesOnly
<1>2. CASE /\ CanRelease(c.nonce)
           /\ row' = [row EXCEPT ![Hub].owner = Taker]
           /\ SetTransfer(Hub, c.nonce, "checkout", "pending")
           /\ Reply(c, "ok", Auth(Hub))
  <2>1. PICK n \in Nonces : n = c.nonce
    BY CallFields
  <2>2. PICK auth \in Auths : /\ auth = Auth(Hub) /\ auth.refresh = row[Hub].refresh
                              /\ auth.access = row[Hub].access
    BY RowFields DEF Inv, Instances
  <2>3. /\ row' = [row EXCEPT ![Hub].owner = Taker]
        /\ SetTransfer(Hub, n, "checkout", "pending")
        /\ Reply(c, "ok", auth)
    BY <1>2, <2>1, <2>2
  <2>4. /\ intent[Hub] = 0 /\ OpenTransfers(Hub) = {} /\ LocallyOwned(Hub)
        /\ HubHas(n).state = "unknown"
    BY <1>2, <2>1 DEF CanRelease, Known, HubHas
  <2>5. TakerHas(n).direction = "checkout" /\ TakerHas(n).state # "unknown"
    BY <1>u, <2>1, CallFields DEF CallInv, Called
  <2>6. n = k /\ k > 0 /\ TakerHas(n).state \in {"pending", "aborting"}
    BY <2>4, <2>5, UnseenIsLast
  <2>7. /\ transfers' \in [Instances -> [Nonces -> Transfers]]
        /\ HubHas(n)'.direction = "checkout" /\ HubHas(n)'.state = "pending"
        /\ \A m \in Nonces : m # n => HubHas(m)' = HubHas(m)
        /\ \A m \in Nonces : TakerHas(m)' = TakerHas(m)
    BY <2>3, HubSets DEF Inv, Directions
  <2>8. MayKnow(TakerHas(n), "pending")
    BY <2>5, <2>6 DEF MayKnow
  <2>9. Grows /\ Numbering(k)' /\ Pairing' /\ HubSingleOpen'
    BY <2>3, <2>4, <2>5, <2>8, HubMoves DEF Directions
  <2>10. /\ row' \in [Instances -> Rows] /\ row'[Taker] = row[Taker]
         /\ row'[Hub].owner = Taker /\ row'[Hub].refresh = row[Hub].refresh
         /\ row'[Hub].access = row[Hub].access
    BY <2>3 DEF Inv, TypeOK, Rows, Instances, Hub, Taker
  <2>11. Custody(k)'
    <3>1. LocallyOwned(Taker)' <=> LocallyOwned(Taker)
      BY <2>10 DEF LocallyOwned
    <3> QED BY <2>5, <2>6, <2>7, <2>10, <3>1 DEF Inv, BookInv, Custody, Is
  <2>12. reblanked \/ HoldsLive(auth)
    BY <2>2, <2>4 DEF Inv, TokenInv, OwnsLive, HoldsLive, Instances
  <2>13. Steady /\ HubHas(c.nonce)'.state # "unknown" /\ (reblanked \/ HoldsLive(auth))'
    BY <1>u, <2>1, <2>7, <2>9, <2>12 DEF Steady, HoldsLive
  <2>14. OpsInv' /\ CallsInv'
    BY <1>u, <2>3, <2>13, ReplyMessages DEF Inv
  <2>15. IntentInv'
    BY <1>u, <2>4, <2>10 DEF Inv, IntentInv, LocallyOwned, Instances, Hub, Taker
  <2>16. TokenInv'
    <3>1. OwnsLive'
      BY <1>u, <2>10 DEF Inv, TokenInv, OwnsLive, LocallyOwned, Instances, Hub, Taker
    <3>2. (reblanked \/ HoldsLive(row[Hub]))'
      BY <1>u, <2>2, <2>10, <2>12 DEF HoldsLive
    <3>3. ASSUME NEW m \in Nonces, Is(TakerHas(m)', "checkin", "pending"),
                 HubHas(m)'.state # "settled"
          PROVE  (reblanked \/ HoldsLive(row[Taker]))'
      BY <1>u, <2>5, <2>7, <2>10, <3>3 DEF Inv, TokenInv, HoldsLive, Is
    <3> QED BY <3>1, <3>2, <3>3 DEF TokenInv
  <2> QED BY <1>u, <2>7, <2>9, <2>10, <2>11, <2>14, <2>15, <2>16
          DEF Inv, BookInv
<1> QED BY <1>1, <1>2 DEF ReleaseForCheckout, Tears

LEMMA SettleCheckoutInv ==
    ASSUME NEW k \in 0..MaxNonces, Inv(k), NEW c \in calls, SettleCheckoutAndBlankRefresh(c),
           TypeOK', ~torn'
    PROVE  Inv(k)'
<1>u. UNCHANGED <<intent, live, mirror, reblanked, faults>> /\ c.kind = "confirm"
  BY DEF SettleCheckoutAndBlankRefresh
<1>1. CASE UNCHANGED <<row, transfers>>
           /\ \E answer \in {"ok", "refused"} : Reply(c, answer, NoAuth)
  BY <1>u, <1>1, RepliesOnly
<1>2. CASE /\ CanBlank(c.nonce)
           /\ row' = [row EXCEPT ![Hub].refresh = 0]
           /\ SetTransfer(Hub, c.nonce, "checkout", "settled")
           /\ Reply(c, "ok", NoAuth)
  <2>1. PICK n \in Nonces : n = c.nonce
    BY CallFields
  <2>2. Is(TakerHas(n), "checkout", "settled") /\ HubHas(n).state \in {"pending", "settled"}
    BY <1>u, <2>1, CallFields DEF CallInv, Called, MayKnow, Is
  <2>3. HubHas(n).state = "pending" /\ row[Hub].owner = Taker
    BY <1>2, <2>1, <2>2 DEF CanBlank, CanConfirm, HubHas
  <2>4. /\ transfers' \in [Instances -> [Nonces -> Transfers]]
        /\ HubHas(n)'.direction = "checkout" /\ HubHas(n)'.state = "settled"
        /\ \A m \in Nonces : m # n => HubHas(m)' = HubHas(m)
        /\ \A m \in Nonces : TakerHas(m)' = TakerHas(m)
    BY <1>2, <2>1, HubSets DEF Inv, Directions
  <2>5. MayKnow(TakerHas(n), "settled")
    BY <2>2 DEF MayKnow, Is
  <2>6. Grows /\ Numbering(k)' /\ Pairing' /\ HubSingleOpen'
    BY <1>2, <2>1, <2>2, <2>3, <2>5, HubMoves DEF Directions, Is
  <2>7. /\ row' \in [Instances -> Rows] /\ row'[Taker] = row[Taker]
        /\ row'[Hub].owner = Taker
    BY <1>2, <2>3, TransferAssumption DEF Inv, TypeOK, Rows, Tokens, Instances, Hub, Taker
  <2>8. Custody(k)'
    <3>1. /\ LocallyOwned(Taker)' <=> LocallyOwned(Taker)
          /\ (row[Hub].owner = Taker)' <=> row[Hub].owner = Taker
      BY <2>3, <2>7 DEF LocallyOwned
    <3>2. k > 0 /\ k \in Nonces
      BY <2>3 DEF Inv, BookInv, Custody, Nonces
    <3> QED BY <2>2, <2>3, <2>4, <3>1, <3>2 DEF Inv, BookInv, Custody, Is
  <2>9. Steady
    BY <1>u, <2>6 DEF Steady
  <2>10. OpsInv' /\ CallsInv'
    BY <1>u, <1>2, <2>9, NoAuthIsAuth, ReplyMessages DEF Inv
  <2>11. IntentInv'
    BY <1>u, <2>3, <2>7 DEF Inv, IntentInv, LocallyOwned, Instances, Hub, Taker
  <2>12. TokenInv'
    <3>1. OwnsLive'
      BY <1>u, <2>7 DEF Inv, TokenInv, OwnsLive, LocallyOwned, Instances, Hub, Taker
    <3>2. ASSUME NEW m \in Nonces, HubHas(m)'.state = "pending" PROVE FALSE
      BY <2>3, <2>4, <3>2 DEF Inv, BookInv, HubSingleOpen, Open
    <3>3. ASSUME NEW m \in Nonces, Is(TakerHas(m)', "checkin", "pending"),
                 HubHas(m)'.state # "settled"
          PROVE  (reblanked \/ HoldsLive(row[Taker]))'
      BY <1>u, <2>2, <2>4, <2>7, <3>3 DEF Inv, TokenInv, HoldsLive, Is
    <3> QED BY <3>1, <3>2, <3>3 DEF TokenInv
  <2> QED BY <1>u, <2>4, <2>6, <2>7, <2>8, <2>10, <2>11, <2>12
          DEF Inv, BookInv
<1> QED BY <1>1, <1>2 DEF SettleCheckoutAndBlankRefresh, Tears

LEMMA AcceptCheckinInv ==
    ASSUME NEW k \in 0..MaxNonces, Inv(k), NEW c \in calls, AcceptCheckin(c),
           TypeOK', ~torn'
    PROVE  Inv(k)'
<1>u. UNCHANGED <<intent, live, mirror, reblanked, faults>> /\ c.kind = "checkin"
  BY DEF AcceptCheckin
<1>0. PICK n \in Nonces : n = c.nonce
  BY CallFields
<1>1. CASE CheckinSettled(n) /\ Reply(c, "ok", NoAuth) /\ UNCHANGED <<row, transfers>>
  <2>1. HubHas(n).state = "settled"
    BY <1>1, HasTypes, TransferIs DEF Inv, CheckinSettled, HubHas, Is
  <2> QED BY <1>u, <1>0, <1>1, <2>1, RepliesOnly
<1>2. CASE Reply(c, "refused", NoAuth) /\ UNCHANGED <<row, transfers>>
  BY <1>u, <1>2, RepliesOnly
<1>3. CASE /\ CanAccept(n)
           /\ row' = [row EXCEPT ![Hub] = [owner |-> Hub, refresh |-> c.auth.refresh,
                                           access |-> c.auth.access]]
           /\ SetTransfer(Hub, n, "checkin", "settled")
           /\ Reply(c, "ok", NoAuth)
  <2>1. HubHas(n).state = "unknown" /\ row[Hub].owner = Taker /\ intent[Hub] = 0
    BY <1>3 DEF CanAccept, Known, HubHas
  <2>2. TakerHas(n).direction = "checkin" /\ TakerHas(n).state # "unknown"
    BY <1>u, <1>0, CallFields DEF CallInv, Called
  <2>3. n = k /\ k > 0 /\ Is(TakerHas(n), "checkin", "pending")
    BY <1>0, <2>1, <2>2, UnseenIsLast, CallFields DEF MayKnow, Is
  <2>4. PICK auth \in Auths : auth = c.auth /\ (reblanked \/ HoldsLive(auth))
    BY <1>u, <1>0, <2>1, CallFields DEF CallInv
  <2>5. /\ transfers' \in [Instances -> [Nonces -> Transfers]]
        /\ HubHas(n)'.direction = "checkin" /\ HubHas(n)'.state = "settled"
        /\ \A m \in Nonces : m # n => HubHas(m)' = HubHas(m)
        /\ \A m \in Nonces : TakerHas(m)' = TakerHas(m)
    BY <1>3, HubSets DEF Inv, Directions
  <2>6. MayKnow(TakerHas(n), "settled")
    BY <2>3 DEF MayKnow, Is
  <2>7. Grows /\ Numbering(k)' /\ Pairing' /\ HubSingleOpen'
    BY <1>3, <2>1, <2>2, <2>6, HubMoves DEF Directions
  <2>8. /\ row' \in [Instances -> Rows] /\ row'[Taker] = row[Taker]
        /\ row'[Hub].owner = Hub /\ row'[Hub].refresh = auth.refresh
        /\ row'[Hub].access = auth.access
    <3>1. [owner |-> Hub, refresh |-> auth.refresh, access |-> auth.access] \in Rows
      BY DEF Rows, Auths, Instances
    <3> QED BY <1>3, <2>4, <3>1 DEF Inv, TypeOK, Instances, Hub, Taker
  <2>9. ~LocallyOwned(Taker) /\ ~LocallyOwned(Taker)'
    BY <2>3, <2>8 DEF Inv, BookInv, Custody, Is, LocallyOwned
  <2>10. Custody(k)'
    BY <2>3, <2>5, <2>8, <2>9 DEF Custody, Is, Hub, Taker
  <2>11. Steady /\ HubHas(c.nonce)'.state = "settled"
    BY <1>u, <1>0, <2>5, <2>7 DEF Steady
  <2>12. OpsInv' /\ CallsInv'
    BY <1>u, <1>3, <2>11, NoAuthIsAuth, ReplyMessages DEF Inv
  <2>13. IntentInv'
    BY <1>u, <2>1, <2>8, <2>9 DEF Inv, IntentInv, LocallyOwned, Instances
  <2>14. TokenInv'
    <3>1. OwnsLive'
      BY <1>u, <2>4, <2>8, <2>9 DEF OwnsLive, HoldsLive, Instances
    <3>2. ASSUME NEW m \in Nonces, TakerHas(m)'.state \in {"pending", "aborting"}
          PROVE  m = n
      BY <2>3, <2>5, <3>2, KnownNonces DEF Inv, BookInv, Open
    <3> QED BY <2>5, <3>1, <3>2 DEF TokenInv, Is
  <2> QED BY <1>u, <2>5, <2>7, <2>8, <2>10, <2>12, <2>13, <2>14
          DEF Inv, BookInv
<1> QED BY <1>0, <1>1, <1>2, <1>3 DEF AcceptCheckin, Tears

LEMMA AbortPeerTransferInv ==
    ASSUME NEW k \in 0..MaxNonces, Inv(k), NEW c \in calls, AbortPeerTransfer(c),
           TypeOK', ~torn'
    PROVE  Inv(k)'
<1>u. UNCHANGED <<intent, live, mirror, reblanked, faults>> /\ c.kind = "abort"
  BY DEF AbortPeerTransfer
<1>0. PICK n \in Nonces : n = c.nonce
  BY CallFields
<1>1. CASE /\ HubHas(n).state \in {"aborted", "settled"}
           /\ Reply(c, HubHas(n).state, NoAuth) /\ UNCHANGED <<row, transfers>>
  BY <1>u, <1>0, <1>1, RepliesOnly
<1>2. CASE Reply(c, "refused", NoAuth) /\ UNCHANGED <<row, transfers>>
  BY <1>u, <1>2, RepliesOnly
<1>3. CASE /\ \/ HubHas(n).state = "unknown" /\ row' = row
              \/ /\ HubHas(n).state = "pending" /\ row[Hub].owner = Taker
                 /\ row' = IF c.direction = "checkout" THEN [row EXCEPT ![Hub].owner = Hub]
                           ELSE row
           /\ SetTransfer(Hub, n, c.direction, "aborted")
           /\ Reply(c, "aborted", NoAuth)
  <2>1. PICK d \in Directions : d = c.direction
    BY CallFields
  <2>2. /\ TakerHas(n).direction = d /\ TakerHas(n).state # "unknown"
        /\ d = "checkout" => TakerHas(n).state \in {"aborting", "aborted"}
        /\ MayKnow(TakerHas(n), HubHas(n).state)
    BY <1>u, <1>0, <2>1, CallFields DEF CallInv, Called
  <2>3. /\ TakerHas(n).state \in {"pending", "aborting"}
        /\ HubHas(n).state = "pending" => d = "checkout"
    BY <1>3, <2>2 DEF MayKnow
  <2>4. n = k /\ k > 0
    BY <2>3, KnownNonces DEF Inv, BookInv, Open, Nonces
  <2>5. /\ transfers' \in [Instances -> [Nonces -> Transfers]]
        /\ HubHas(n)'.direction = d /\ HubHas(n)'.state = "aborted"
        /\ \A m \in Nonces : m # n => HubHas(m)' = HubHas(m)
        /\ \A m \in Nonces : TakerHas(m)' = TakerHas(m)
    BY <1>3, <2>1, HubSets DEF Inv
  <2>6. MayKnow(TakerHas(n), "aborted")
    BY <2>2, <2>3 DEF MayKnow, Directions
  <2>7. Grows /\ Numbering(k)' /\ Pairing' /\ HubSingleOpen'
    BY <1>3, <2>1, <2>2, <2>6, HubMoves
  <2>8. /\ row' \in [Instances -> Rows] /\ row'[Taker] = row[Taker]
        /\ row'[Hub].refresh = row[Hub].refresh /\ row'[Hub].access = row[Hub].access
        /\ HubHas(n).state = "pending" => row'[Hub].owner = Hub
        /\ HubHas(n).state # "pending" => row' = row
    BY <1>3, <2>1, <2>3 DEF Inv, TypeOK, Rows, Instances, Hub, Taker
  <2>9. ~LocallyOwned(Taker) /\ ~LocallyOwned(Taker)'
    BY <2>3, <2>4, <2>8 DEF Inv, BookInv, Custody, Is, LocallyOwned
  <2>10. row'[Hub].owner = Taker <=> d = "checkin"
    <3>1. CASE HubHas(n).state = "pending"
      BY <2>3, <2>8, <3>1 DEF Hub, Taker
    <3>2. CASE HubHas(n).state = "unknown"
      BY <2>2, <2>4, <2>8, <3>2 DEF Inv, BookInv, Custody, Directions
    <3> QED BY <1>3, <3>1, <3>2
  <2>11. Custody(k)'
    BY <2>2, <2>3, <2>4, <2>5, <2>9, <2>10 DEF Custody, Is, Directions
  <2>12. Steady /\ HubHas(c.nonce)'.state = "aborted"
    BY <1>u, <1>0, <2>5, <2>7 DEF Steady
  <2>13. OpsInv' /\ CallsInv'
    BY <1>u, <1>3, <2>12, NoAuthIsAuth, ReplyMessages DEF Inv
  <2>14. IntentInv'
    <3>1. CASE HubHas(n).state = "pending"
      <4>1. intent[Hub] = 0
        BY <1>3, <3>1 DEF Inv, IntentInv, LocallyOwned, Instances, Hub, Taker
      <4> QED BY <1>u, <2>8, <4>1 DEF Inv, IntentInv, LocallyOwned, Instances
    <3>2. CASE HubHas(n).state # "pending"
      BY <1>u, <2>8, <3>2 DEF Inv, IntentInv, LocallyOwned
    <3> QED BY <3>1, <3>2
  <2>15. TokenInv'
    <3>1. OwnsLive'
      <4>1. CASE HubHas(n).state = "pending"
        <5>1. reblanked \/ HoldsLive(row[Hub])
          BY <2>3, <4>1 DEF Inv, TokenInv
        <5> QED BY <1>u, <2>8, <2>9, <5>1 DEF OwnsLive, HoldsLive, Instances
      <4>2. CASE HubHas(n).state # "pending"
        BY <1>u, <2>8, <4>2 DEF Inv, TokenInv, OwnsLive, LocallyOwned
      <4> QED BY <4>1, <4>2
    <3>2. ASSUME NEW m \in Nonces, TakerHas(m)'.state \in {"pending", "aborting"}
          PROVE  m = n
      BY <2>4, <2>5, <3>2, KnownNonces DEF Inv, BookInv, Open
    <3>3. Is(TakerHas(n), "checkin", "pending") => reblanked \/ HoldsLive(row[Taker])
      BY <1>3, <2>3 DEF Inv, TokenInv, Is
    <3>4. Is(TakerHas(n)', "checkin", "pending") => (reblanked \/ HoldsLive(row[Taker]))'
      BY <1>u, <2>5, <2>8, <3>3 DEF HoldsLive, Is
    <3> QED BY <2>5, <3>1, <3>2, <3>4 DEF TokenInv, Is
  <2> QED BY <1>u, <2>5, <2>7, <2>8, <2>11, <2>13, <2>14, <2>15
          DEF Inv, BookInv
<1>4. CASE Unseen(c) /\ UNCHANGED row /\ SetTransfer(Hub, n, c.direction, "aborted")
           /\ Reply(c, "aborted", NoAuth)
  BY <1>0, <1>3, <1>4 DEF Unseen, HubHas
<1>5. CASE /\ CanUndo(c)
           /\ row' = IF c.direction = "checkout" THEN [row EXCEPT ![Hub].owner = Hub] ELSE row
           /\ SetTransfer(Hub, n, c.direction, "aborted")
           /\ Reply(c, "aborted", NoAuth)
  BY <1>0, <1>3, <1>5 DEF CanUndo, HubHas
<1>6. CASE /\ UNCHANGED <<row, transfers>>
           /\ \/ Reply(c, "refused", NoAuth)
              \/ HubHas(n).state \in {"aborted", "settled"} /\ Reply(c, HubHas(n).state, NoAuth)
  BY <1>1, <1>2, <1>6
<1> QED BY <1>0, <1>4, <1>5, <1>6 DEF AbortPeerTransfer, Tears, HubHas

\* What the hub's transaction has read changes nothing in the call's invariant.
LEMMA LookUpInv ==
    ASSUME NEW k \in 0..MaxNonces, Inv(k), NEW c \in calls, LookUp(c), TypeOK', ~torn'
    PROVE  Inv(k)'
<1>u. UNCHANGED <<row, transfers, intent, live, op, mirror, reblanked>>
  BY DEF LookUp
<1>1. PICK d : d = [c EXCEPT !.read = transfers[Hub][c.nonce].state,
                             !.auth = IF c.kind = "checkout" THEN Auth(Hub) ELSE c.auth]
  OBVIOUS
<1>2. calls' = (calls \ {c}) \cup {d}
  BY <1>1 DEF LookUp
<1>3. /\ d.from = c.from /\ d.kind = c.kind /\ d.nonce = c.nonce
      /\ d.direction = c.direction /\ (c.kind # "checkout" => d.auth = c.auth)
  BY <1>1, CallFields DEF Calls
<1>4. OpsInv'
  BY <1>u, SteadySame, OpStable DEF Inv, OpsInv
<1>5. ASSUME NEW e \in calls PROVE CallBody(e)' /\ CallInv(e)
  <2>1. e \in Calls /\ CallInv(e)
    BY DEF Inv, TypeOK, CallsInv
  <2>2. CallBody(e)'
    BY <1>u, <2>1, CallInvBody, SteadySame, CallStable
  <2> QED BY <2>1, <2>2
<1>6. CallBody(d)'
  BY <1>3, <1>5 DEF CallBody
<1>7. ASSUME NEW e \in calls' PROVE CallInv(e)'
  <2>1. PICK b \in calls : /\ b.from = e.from /\ b.kind = e.kind /\ b.nonce = e.nonce
                           /\ b.direction = e.direction
                           /\ IF b = c THEN e = d ELSE e = b
    BY <1>2, <1>3, <1>7
  <2>2. CallBody(e)' /\ CallInv(b)
    BY <1>5, <1>6, <2>1
  <2>3. \A f \in calls' : e.from # None /\ f.from = e.from => f = e
    <3> SUFFICES ASSUME NEW f \in calls', e.from # None, f.from = e.from PROVE f = e
      OBVIOUS
    <3>1. PICK g \in calls : g.from = f.from /\ IF g = c THEN f = d ELSE f = g
      BY <1>2, <1>3
    <3>2. g = b
      BY <2>1, <2>2, <3>1 DEF CallInv
    <3> QED BY <2>1, <3>1, <3>2
  <2> QED BY <1>u, <2>1, <2>2, <2>3 DEF CallInv, CallBody
<1>8. CallsInv'
  BY <1>7 DEF CallsInv
<1> QED BY <1>u, <1>4, <1>8, RequestOnly

-----------------------------------------------------------------------------
(* Mirroring and the exchange of tokens *)

LEMMA UpsertMirrorInv ==
    ASSUME NEW k \in 0..MaxNonces, Inv(k), UpsertMirrorAccount,
           TypeOK', ~torn'
    PROVE  Inv(k)'
<1>u. /\ UNCHANGED <<transfers, intent, live, op, calls, reblanked, faults>>
      /\ mirror' = None /\ mirror \in Tokens
  BY DEF UpsertMirrorAccount, Inv, TypeOK
<1>1. /\ row' \in [Instances -> Rows] /\ row'[Hub] = row[Hub]
      /\ row'[Taker].owner = row[Taker].owner
      /\ row' = row \/ (row'[Taker].owner = Hub /\ OpenTransfers(Taker) = {})
  <2>1. CASE ~LocallyOwned(Taker) /\ OpenTransfers(Taker) = {}
    <3>1. row' = [row EXCEPT ![Taker] = [owner |-> Hub, refresh |-> 0, access |-> mirror]]
      BY <2>1 DEF UpsertMirrorAccount
    <3>2. [owner |-> Hub, refresh |-> 0, access |-> mirror] \in Rows
      BY <1>u, TransferAssumption DEF Rows, Tokens, Instances
    <3>3. row[Taker].owner = Hub
      BY <2>1, RowFields DEF Inv, LocallyOwned, Instances
    <3> QED BY <2>1, <3>1, <3>2, <3>3 DEF Inv, TypeOK, Instances, Hub, Taker
  <2>2. CASE ~(~LocallyOwned(Taker) /\ OpenTransfers(Taker) = {})
    BY <2>2 DEF UpsertMirrorAccount, Inv, TypeOK
  <2> QED BY <2>1, <2>2
<1>2. BookInv(k)'
  BY <1>u, <1>1, SameBook DEF Inv
<1>3. OpsInv' /\ CallsInv'
  BY <1>u, SteadySame, SameMessages DEF Inv
<1>4. IntentInv' /\ TokenInv'
  <2>1. CASE row' = row
    BY <1>u, <2>1 DEF Inv, IntentInv, TokenInv, OwnsLive, LocallyOwned, HoldsLive,
                      TakerHas, HubHas
  <2>2. CASE row'[Taker].owner = Hub /\ OpenTransfers(Taker) = {}
    <3>1. \A m \in Nonces : TakerHas(m)'.state \notin {"pending", "aborting"}
      BY <1>u, <2>2 DEF OpenTransfers, TakerHas, Open
    <3>2. IntentInv'
      BY <1>u, <1>1, <2>2 DEF Inv, IntentInv, LocallyOwned, Instances, Hub, Taker
    <3>3. OwnsLive'
      BY <1>u, <1>1, <2>2 DEF Inv, TokenInv, OwnsLive, LocallyOwned, Instances, Hub, Taker
    <3> QED BY <3>1, <3>2, <3>3 DEF TokenInv, Is
  <2> QED BY <1>1, <2>1, <2>2
<1> QED BY <1>2, <1>3, <1>4 DEF Inv

\* The owner of the account is alone, and no transfer is between the databases.
LEMMA OwnerAlone ==
    ASSUME NEW k \in 0..MaxNonces, Inv(k), NEW i \in Instances, LocallyOwned(i)
    PROVE  /\ \A j \in Instances : LocallyOwned(j) => j = i
           /\ \A m \in Nonces :
                ~(Is(TakerHas(m), "checkin", "pending") /\ HubHas(m).state # "settled")
           /\ \A m \in Nonces :
                ~(TakerHas(m).state \in {"pending", "aborting"} /\ HubHas(m).state = "pending")
<1>1. LocallyOwned(Hub) <=> row[Hub].owner # Taker
  BY RowFields DEF Inv, LocallyOwned, Instances, Hub, Taker
<1>2. LocallyOwned(Taker) => row[Hub].owner = Taker
  <2>1. CASE k > 0
    <3>1. k \in Nonces
      BY <2>1 DEF Nonces
    <3> QED BY <2>1, <3>1 DEF Inv, BookInv, Custody, Pairing, MayKnow, Is
  <2>2. CASE ~(k > 0)
    BY <2>2 DEF Inv, BookInv, Custody
  <2> QED BY <2>1, <2>2
<1>3. ASSUME NEW m \in Nonces, TakerHas(m).state \in {"pending", "aborting"},
             Is(TakerHas(m), "checkin", "pending") => HubHas(m).state # "settled",
             Is(TakerHas(m), "checkin", "pending") \/ HubHas(m).state = "pending"
      PROVE  FALSE
  <2>1. m = k /\ k > 0
    BY <1>3, KnownNonces DEF Inv, BookInv, Open, Nonces
  <2>2. ~LocallyOwned(Taker)
    BY <1>3, <2>1 DEF Inv, BookInv, Custody, Is
  <2>3. row[Hub].owner = Taker
    BY <1>3, <2>1 DEF Inv, BookInv, Custody, Pairing, MayKnow, Is
  <2> QED BY <1>1, <2>2, <2>3 DEF Instances
<1>4. \A m \in Nonces :
         ~(Is(TakerHas(m), "checkin", "pending") /\ HubHas(m).state # "settled")
  BY <1>3 DEF Is
<1>5. ASSUME NEW m \in Nonces, TakerHas(m).state \in {"pending", "aborting"},
             HubHas(m).state = "pending"
      PROVE  FALSE
  BY <1>3, <1>5
<1> QED BY <1>1, <1>2, <1>4, <1>5 DEF Instances

LEMMA BeginExchangeInv ==
    ASSUME NEW k \in 0..MaxNonces, Inv(k), NEW i \in Instances,
           BeginExchange(i) \/ AbortExchange(i),
           TypeOK', ~torn'
    PROVE  Inv(k)'
<1>u. UNCHANGED <<row, transfers, live, op, calls, mirror, reblanked, faults>>
  BY DEF BeginExchange, AbortExchange
<1>1. \A j \in Instances : intent'[j] \in {0, intent[j]} \/
                        (LocallyOwned(j) /\ intent'[j] = row[j].refresh)
  <2>1. CASE BeginExchange(i)
    BY <2>1, RowFields DEF BeginExchange, Inv, TypeOK
  <2>2. CASE AbortExchange(i)
    BY <2>2, TransferAssumption DEF AbortExchange, Inv, TypeOK, Tokens
  <2> QED BY <2>1, <2>2
<1>2. IntentInv'
  BY <1>u, <1>1 DEF Inv, IntentInv, LocallyOwned
<1>3. OpsInv' /\ CallsInv'
  BY <1>u, SteadySame, SameMessages DEF Inv
<1>4. BookInv(k)'
  BY <1>u, SameBook DEF Inv
<1>5. TokenInv'
  BY <1>u DEF Inv, TokenInv, OwnsLive, LocallyOwned, HoldsLive, TakerHas, HubHas
<1> QED BY <1>2, <1>3, <1>4, <1>5 DEF Inv

LEMMA UpdateTokensInv ==
    ASSUME NEW k \in 0..MaxNonces, Inv(k), NEW i \in Instances, UpdateTokens(i),
           TypeOK', ~torn'
    PROVE  Inv(k)'
<1>u. /\ UNCHANGED <<transfers, op, calls, mirror, reblanked, faults>>
      /\ intent[i] # 0 /\ live < MaxTokens /\ live' = live + 1
  BY DEF UpdateTokens, Inv, TypeOK
<1>1. LocallyOwned(i) /\ row[i].refresh = intent[i]
  BY <1>u DEF Inv, IntentInv
<1>2. live' \in 1..MaxTokens /\ live' \in Tokens
  BY <1>u, TransferAssumption DEF Inv, TypeOK, Tokens
<1>3. PICK l \in Tokens : l = live'
  BY <1>2
<1>4. /\ row' = [row EXCEPT ![i].refresh = l, ![i].access = l]
      /\ intent' = [intent EXCEPT ![i] = 0]
  BY <1>1, <1>3 DEF UpdateTokens
<1>5. /\ row' \in [Instances -> Rows] /\ \A j \in Instances : j # i => row'[j] = row[j]
      /\ row'[i].owner = row[i].owner /\ row'[i].refresh = l /\ row'[i].access = l
  <2>1. PICK r \in Rows : r = row[i]
    BY RowFields DEF Inv
  <2>2. row' = [row EXCEPT ![i] = [r EXCEPT !.refresh = l, !.access = l]]
    BY <1>4, <2>1 DEF Inv, TypeOK
  <2>3. PICK q : q = [r EXCEPT !.refresh = l, !.access = l]
    OBVIOUS
  <2>4. q \in Rows /\ q.owner = r.owner /\ q.refresh = l /\ q.access = l
    BY <2>3 DEF Rows
  <2> QED BY <2>1, <2>2, <2>3, <2>4 DEF Inv, TypeOK
<1>6. /\ \A j \in Instances : LocallyOwned(j)' <=> LocallyOwned(j)
      /\ row'[Hub].owner = row[Hub].owner /\ row'[Taker].owner = row[Taker].owner
  BY <1>5 DEF LocallyOwned, Instances
<1>7. BookInv(k)'
  BY <1>u, <1>6, SameBook DEF Inv
<1>8. /\ \A j \in Instances : LocallyOwned(j) => j = i
      /\ \A m \in Nonces :
           ~(Is(TakerHas(m), "checkin", "pending") /\ HubHas(m).state # "settled")
      /\ \A m \in Nonces :
           ~(TakerHas(m).state \in {"pending", "aborting"} /\ HubHas(m).state = "pending")
  BY <1>1, OwnerAlone
<1>9. ASSUME NEW o \in Ops PROVE OpInv(o)'
  <2>1. PICK s \in OpStates : s = op[o] /\ s = op'[o] /\ s.nonce \in Nonces
    BY <1>u DEF Inv, TypeOK, OpStates
  <2>2. OpInv(o)
    BY DEF Inv, OpsInv
  <2>3. /\ s.pc = "answered" /\ s.kind = "checkout" /\ s.answer = "ok"
        /\ Is(TakerHas(s.nonce), "checkout", "pending")
        => FALSE
    BY <1>8, <2>1, <2>2 DEF OpInv, Told, Inv, BookInv, Pairing, MayKnow, Is
  <2> QED BY <1>u, <2>1, <2>2, <2>3
          DEF OpInv, Answered, Asked, Called, Told, TakerHas, HubHas
<1>10. ASSUME NEW c \in calls PROVE CallInv(c)'
  <2>1. /\ CallInv(c) /\ c.nonce \in Nonces
        /\ c.kind = "checkin" => HubHas(c.nonce).state # "unknown"
    BY <1>8, <1>10, CallFields DEF CallInv, Called, MayKnow, Is
  <2> QED BY <1>u, <2>1 DEF CallInv, Called, Asked, TakerHas, HubHas
<1>11. OpsInv' /\ CallsInv'
  BY <1>u, <1>9, <1>10 DEF OpsInv, CallsInv
<1>12. IntentInv'
  BY <1>4, <1>5, <1>6 DEF Inv, IntentInv, TypeOK
<1>13. TokenInv'
  <2>1. OwnsLive'
    BY <1>3, <1>5, <1>6, <1>8 DEF OwnsLive
  <2> QED BY <1>u, <1>8, <2>1 DEF TokenInv, TakerHas, HubHas
<1> QED BY <1>7, <1>11, <1>12, <1>13 DEF Inv

-----------------------------------------------------------------------------
(* Types, which also a torn transaction keeps *)

LEMMA TearsType ==
    ASSUME TypeOK, NEW can, Tears(can) PROVE torn' \in BOOLEAN
BY DEF TypeOK, Tears

LEMMA EndTypes ==
    ASSUME TypeOK, NEW o \in Ops, End(o)
    PROVE  op' \in [Ops -> OpStates] /\ calls' \subseteq Calls
BY IdleType DEF TypeOK, End

LEMMA RowOwner ==
    ASSUME TypeOK, NEW i \in Instances, NEW j \in Instances
    PROVE  [row EXCEPT ![i].owner = j] \in [Instances -> Rows]
<1>1. PICK r \in Rows : r = row[i]
  BY RowFields
<1>2. [r EXCEPT !.owner = j] \in Rows
  BY DEF Rows
<1>3. [row EXCEPT ![i].owner = j] = [row EXCEPT ![i] = [r EXCEPT !.owner = j]]
  BY <1>1 DEF TypeOK
<1> QED BY <1>2, <1>3 DEF TypeOK

LEMMA RowBlank ==
    ASSUME TypeOK, NEW i \in Instances
    PROVE  [row EXCEPT ![i].refresh = 0] \in [Instances -> Rows]
<1>1. PICK r \in Rows : r = row[i]
  BY RowFields
<1>2. [r EXCEPT !.refresh = 0] \in Rows
  BY TransferAssumption DEF Rows, Tokens
<1>3. [row EXCEPT ![i].refresh = 0] = [row EXCEPT ![i] = [r EXCEPT !.refresh = 0]]
  BY <1>1 DEF TypeOK
<1> QED BY <1>2, <1>3 DEF TypeOK

LEMMA RowRenewed ==
    ASSUME TypeOK, NEW i \in Instances, NEW x \in Tokens
    PROVE  [row EXCEPT ![i].refresh = x, ![i].access = x] \in [Instances -> Rows]
<1>1. PICK r \in Rows : r = row[i]
  BY RowFields
<1>2. [r EXCEPT !.refresh = x, !.access = x] \in Rows
  BY DEF Rows
<1>3. [row EXCEPT ![i].refresh = x, ![i].access = x]
        = [row EXCEPT ![i] = [r EXCEPT !.refresh = x, !.access = x]]
  BY <1>1 DEF TypeOK
<1> QED BY <1>2, <1>3 DEF TypeOK

LEMMA RowStored ==
    ASSUME TypeOK, NEW i \in Instances, NEW j \in Instances, NEW x \in Tokens, NEW y \in Tokens
    PROVE  [row EXCEPT ![i] = [owner |-> j, refresh |-> x, access |-> y]]
             \in [Instances -> Rows]
<1>1. [owner |-> j, refresh |-> x, access |-> y] \in Rows
  BY DEF Rows
<1> QED BY <1>1 DEF TypeOK

LEMMA Constants ==
    /\ Hub \in Instances /\ Taker \in Instances /\ 0 \in Tokens
    /\ {"checkout", "checkin"} \subseteq Directions
    /\ Kinds = {"checkout", "confirm", "checkin", "abort"}
BY TransferAssumption DEF Instances, Tokens, Directions, Kinds

LEMMA OperateTypes ==
    ASSUME TypeOK, NEW o \in Ops, Operate(o) PROVE TypeOK'
<1>1. CASE RetryCheckout(o) \/ ReclaimSettled(o) \/ ReclaimCheckin(o)
  <2>1. End(o) \/ \E k \in Kinds, n \in Nonces, d \in Directions : Call(o, k, n, d, NoAuth)
    BY <1>1, Constants DEF RetryCheckout, ReclaimSettled, ReclaimCheckin
  <2>2. op' \in [Ops -> OpStates] /\ calls' \subseteq Calls
    BY <2>1, EndTypes, Calling, NoAuthIsAuth
  <2> QED BY <1>1, <2>2 DEF TypeOK, RetryCheckout, ReclaimSettled, ReclaimCheckin
<1>2. CASE RetryCheckin(o) \/ ReclaimCheckout(o)
  <2>1. PICK s \in OpStates : op' = [op EXCEPT ![o] = s]
    BY <1>2, PlaceType DEF RetryCheckin, ReclaimCheckout
  <2> QED BY <1>2, <2>1 DEF TypeOK, RetryCheckin, ReclaimCheckout
<1> QED BY <1>1, <1>2 DEF Operate

LEMMA ProceedTypes ==
    ASSUME TypeOK, NEW o \in Ops, Proceed(o) PROVE TypeOK'
<1>o. PICK n \in Nonces : n = op[o].nonce
  BY OpFields
<1>t. /\ TakerHas(n).direction \in Directions /\ TakerHas(n).state \in States
      /\ op[o].auth \in Auths /\ op[o].auth.refresh \in Tokens /\ op[o].auth.access \in Tokens
  BY HasTypes, OpFields DEF States, Auths
<1>1. CASE ReserveCheckout(o)
  <2>1. PICK m \in Nonces : /\ SetTransfer(Taker, m, "checkout", "pending")
                            /\ Call(o, "checkout", m, "checkout", NoAuth)
    BY <1>1 DEF ReserveCheckout
  <2>2. transfers' \in [Instances -> [Nonces -> Transfers]]
    BY <2>1, SetsTransfer, Constants
  <2>3. op' \in [Ops -> OpStates] /\ calls' \subseteq Calls
    BY <2>1, Calling, NoAuthIsAuth, Constants
  <2> QED BY <1>1, <2>2, <2>3, TearsType DEF TypeOK, ReserveCheckout
<1>2. CASE ImportCheckout(o)
  <2>1. op' \in [Ops -> OpStates] /\ calls' \subseteq Calls
    BY <1>o, <1>2, EndTypes, Calling, NoAuthIsAuth, Constants DEF ImportCheckout
  <2>2. row' \in [Instances -> Rows]
    <3>1. PICK x \in Tokens, y \in Tokens : x = op[o].auth.refresh /\ y = op[o].auth.access
      BY <1>t
    <3>2. \/ row' = row
          \/ row' = [row EXCEPT ![Taker] = [owner |-> Taker, refresh |-> x, access |-> y]]
      BY <1>2, <3>1 DEF ImportCheckout
    <3>3. [row EXCEPT ![Taker] = [owner |-> Taker, refresh |-> x, access |-> y]]
            \in [Instances -> Rows]
      BY RowStored, Constants
    <3>4. row \in [Instances -> Rows]
      BY DEF TypeOK
    <3> QED BY <3>2, <3>3, <3>4
  <2>3. transfers' \in [Instances -> [Nonces -> Transfers]]
    BY <1>o, <1>2, SetsTransfer, Constants DEF ImportCheckout, TypeOK
  <2>4. torn' \in BOOLEAN
    BY <1>2, TearsType DEF ImportCheckout, TypeOK
  <2> QED BY <1>2, <2>1, <2>2, <2>3, <2>4 DEF TypeOK, ImportCheckout
<1>3. CASE Confirmed(o) \/ OutOfNonces(o)
  BY <1>3, EndTypes DEF TypeOK, Confirmed, OutOfNonces
<1>4. CASE ReleaseForCheckin(o)
  <2>1. PICK m \in Nonces :
           /\ row' = [row EXCEPT ![Taker].owner = Hub]
           /\ SetTransfer(Taker, m, "checkin", "pending")
           /\ op' = [op EXCEPT ![o] = [Idle EXCEPT !.pc = "released", !.nonce = m]]
    BY <1>4 DEF ReleaseForCheckin
  <2>2. transfers' \in [Instances -> [Nonces -> Transfers]]
    BY <2>1, SetsTransfer, Constants
  <2>3. op' \in [Ops -> OpStates]
    BY <2>1, PlaceType DEF TypeOK
  <2>4. row' \in [Instances -> Rows]
    BY <2>1, RowOwner, Constants
  <2> QED BY <1>4, <2>2, <2>3, <2>4, TearsType DEF TypeOK, ReleaseForCheckin
<1>5. CASE SendCheckin(o)
  <2>1. op' \in [Ops -> OpStates] /\ calls' \subseteq Calls
    BY <1>o, <1>5, Calling, RowFields, Constants DEF SendCheckin
  <2> QED BY <1>5, <2>1 DEF TypeOK, SendCheckin
<1>6. CASE SettleCheckinAndBlank(o)
  <2>1. op' \in [Ops -> OpStates] /\ calls' \subseteq Calls
    BY <1>6, EndTypes DEF SettleCheckinAndBlank
  <2>2. row' \in [Instances -> Rows]
    <3>1. row' = row \/ row' = [row EXCEPT ![Taker].refresh = 0]
      BY <1>6 DEF SettleCheckinAndBlank
    <3> QED BY <3>1, RowBlank, Constants DEF TypeOK
  <2>3. \/ UNCHANGED transfers
        \/ \E s \in States : SetTransfer(Taker, n, TakerHas(n).direction, s)
    BY <1>o, <1>t, <1>6 DEF SettleCheckinAndBlank, TakerHas, States
  <2>4. transfers' \in [Instances -> [Nonces -> Transfers]]
    BY <1>t, <2>3, SetsTransfer, Constants DEF TypeOK, States
  <2>5. torn' \in BOOLEAN /\ reblanked' \in BOOLEAN
    BY <1>6, TearsType DEF SettleCheckinAndBlank, TypeOK
  <2> QED BY <1>6, <2>1, <2>2, <2>4, <2>5 DEF TypeOK, SettleCheckinAndBlank
<1>7. CASE BeginCheckoutAbort(o)
  <2>1. op' \in [Ops -> OpStates] /\ calls' \subseteq Calls
    BY <1>o, <1>7, EndTypes, Calling, NoAuthIsAuth, Constants DEF BeginCheckoutAbort
  <2>2. transfers' \in [Instances -> [Nonces -> Transfers]]
    BY <1>o, <1>7, SetsTransfer, Constants DEF BeginCheckoutAbort, TypeOK
  <2>3. torn' \in BOOLEAN
    BY <1>7, TearsType DEF BeginCheckoutAbort, TypeOK
  <2> QED BY <1>7, <2>1, <2>2, <2>3 DEF TypeOK, BeginCheckoutAbort
<1>8. CASE FinishAbort(o)
  <2>1. op' \in [Ops -> OpStates] /\ calls' \subseteq Calls
    BY <1>8, EndTypes DEF FinishAbort
  <2>2. row' \in [Instances -> Rows]
    <3>1. row' = row \/ row' = [row EXCEPT ![Taker].owner = Taker]
      BY <1>8 DEF FinishAbort
    <3> QED BY <3>1, RowOwner, Constants DEF TypeOK
  <2>3. UNCHANGED transfers \/ SetTransfer(Taker, n, TakerHas(n).direction, "aborted")
    BY <1>o, <1>8 DEF FinishAbort, TakerHas
  <2>4. transfers' \in [Instances -> [Nonces -> Transfers]]
    BY <1>t, <2>3, SetsTransfer, Constants DEF TypeOK
  <2>5. torn' \in BOOLEAN
    BY <1>8, TearsType DEF FinishAbort, TypeOK
  <2> QED BY <1>8, <2>1, <2>2, <2>4, <2>5 DEF TypeOK, FinishAbort
<1>9. CASE Look(o)
  <2>1. op' \in [Ops -> OpStates]
    <3>1. CASE LookFirst(o)
      <4>1. PICK s \in OpStates : op' = [op EXCEPT ![o] = s]
        BY <3>1, LookType DEF LookFirst
      <4> QED BY <4>1 DEF TypeOK
    <3>2. CASE LookAgain(o)
      <4>1. PICK s \in OpStates : s = op[o]
        BY DEF TypeOK
      <4>2. [s EXCEPT !.read = TakerHas(n).state] \in OpStates
        BY <1>t DEF OpStates
      <4>3. op' = [op EXCEPT ![o] = [s EXCEPT !.read = TakerHas(n).state]]
        BY <1>o, <3>2, <4>1 DEF LookAgain, TypeOK, TakerHas
      <4> QED BY <4>2, <4>3 DEF TypeOK
    <3> QED BY <1>9, <3>1, <3>2 DEF Look
  <2> QED BY <1>9, <2>1 DEF TypeOK, Look
<1>10. CASE Refused(o)
  BY <1>10, FailedRequest DEF TypeOK, Refused
<1> QED BY <1>1, <1>2, <1>3, <1>4, <1>5, <1>6, <1>7, <1>8, <1>9, <1>10 DEF Proceed

LEMMA HandleTypes ==
    ASSUME TypeOK, NEW c \in calls, Handle(c) PROVE TypeOK'
<1>c. /\ c \in Calls /\ c.nonce \in Nonces /\ c.direction \in Directions /\ c.auth \in Auths
      /\ c.auth.refresh \in Tokens /\ c.auth.access \in Tokens
  BY DEF TypeOK, Calls, Auths
<1>h. HubHas(c.nonce).state \in States /\ Auth(Hub) \in Auths
  BY <1>c, HasTypes, RowFields, Constants DEF States
<1>1. CASE ~LookUp(c)
  <2>1. PICK answer \in {"ok", "refused", "aborted", "settled"}, auth \in Auths :
            Reply(c, answer, auth)
    BY <1>c, <1>h, <1>1, NoAuthIsAuth DEF Handle, ReleaseForCheckout,
       SettleCheckoutAndBlankRefresh, AcceptCheckin, AbortPeerTransfer, HubHas
  <2>2. op' \in [Ops -> OpStates] /\ calls' \subseteq Calls
    BY <2>1, Replying
  <2>3. row' \in [Instances -> Rows]
    <3>1. PICK x \in Tokens, y \in Tokens : x = c.auth.refresh /\ y = c.auth.access
      BY <1>c
    <3>2. \/ row' = row \/ row' = [row EXCEPT ![Hub].refresh = 0]
          \/ \E j \in Instances : row' = [row EXCEPT ![Hub].owner = j]
          \/ row' = [row EXCEPT ![Hub] = [owner |-> Hub, refresh |-> x, access |-> y]]
      BY <1>1, <3>1, Constants DEF Handle, ReleaseForCheckout,
         SettleCheckoutAndBlankRefresh, AcceptCheckin, AbortPeerTransfer
    <3>3. row \in [Instances -> Rows]
      BY DEF TypeOK
    <3>4. [row EXCEPT ![Hub].refresh = 0] \in [Instances -> Rows]
      BY RowBlank, Constants
    <3>5. \A j \in Instances : [row EXCEPT ![Hub].owner = j] \in [Instances -> Rows]
      BY RowOwner, Constants
    <3>6. [row EXCEPT ![Hub] = [owner |-> Hub, refresh |-> x, access |-> y]]
            \in [Instances -> Rows]
      BY RowStored, Constants
    <3> QED BY <3>2, <3>3, <3>4, <3>5, <3>6
  <2>4. \/ UNCHANGED transfers
        \/ \E d \in Directions, s \in {"pending", "settled", "aborted"} :
              SetTransfer(Hub, c.nonce, d, s)
    BY <1>c, <1>1, Constants DEF Handle, ReleaseForCheckout,
       SettleCheckoutAndBlankRefresh, AcceptCheckin, AbortPeerTransfer
  <2>5. transfers' \in [Instances -> [Nonces -> Transfers]]
    BY <1>c, <2>4, SetsTransfer, Constants DEF TypeOK
  <2>6. torn' \in BOOLEAN
    BY <1>1, TearsType DEF Handle, ReleaseForCheckout,
       SettleCheckoutAndBlankRefresh, AcceptCheckin, AbortPeerTransfer, TypeOK
  <2>7. UNCHANGED <<intent, live, mirror, reblanked, faults>>
    BY <1>1 DEF Handle, ReleaseForCheckout,
       SettleCheckoutAndBlankRefresh, AcceptCheckin, AbortPeerTransfer
  <2> QED BY <2>2, <2>3, <2>5, <2>6, <2>7 DEF TypeOK
<1>2. CASE LookUp(c)
  <2>1. PICK x \in States : x = transfers[Hub][c.nonce].state
    BY <1>h DEF HubHas
  <2>2. PICK y \in Auths : y = IF c.kind = "checkout" THEN Auth(Hub) ELSE c.auth
    BY <1>c, <1>h
  <2>3. [c EXCEPT !.read = x, !.auth = y] \in Calls
    BY <1>c DEF Calls
  <2>4. calls' = (calls \ {c}) \cup {[c EXCEPT !.read = x, !.auth = y]}
    BY <1>2, <2>1, <2>2 DEF LookUp
  <2> QED BY <1>2, <2>3, <2>4 DEF LookUp, TypeOK
<1> QED BY <1>1, <1>2

LEMMA ExchangeTypes ==
    ASSUME TypeOK, NEW i \in Instances, Exchange(i) PROVE TypeOK'
<1>1. CASE BeginExchange(i)
  BY <1>1, RowFields DEF BeginExchange, TypeOK
<1>2. CASE AbortExchange(i)
  BY <1>2, Constants DEF AbortExchange, TypeOK
<1>3. CASE UpdateTokens(i)
  <2>1. live' \in 1..MaxTokens /\ live' \in Tokens
    BY <1>3, TransferAssumption DEF UpdateTokens, TypeOK, Tokens
  <2>2. row' \in [Instances -> Rows]
    BY <1>3, <2>1, RowRenewed DEF UpdateTokens, TypeOK
  <2>3. intent' \in [Instances -> Tokens]
    BY <1>3, Constants DEF UpdateTokens, TypeOK
  <2> QED BY <1>3, <2>1, <2>2, <2>3 DEF UpdateTokens, TypeOK
<1> QED BY <1>1, <1>2, <1>3 DEF Exchange

LEMMA NextTypes ==
    ASSUME TypeOK, [Next]_vars PROVE TypeOK'
<1>1. ASSUME NEW o \in Ops, Timeout(o) PROVE TypeOK'
  <2>1. op' \in [Ops -> OpStates]
    BY <1>1, FailedRequest DEF Timeout, TypeOK
  <2>2. calls' \subseteq Calls
    BY <1>1, Orphaning DEF Timeout
  <2>3. faults' \in 0..MaxFaults
    BY <1>1, TransferAssumption DEF Timeout, TypeOK
  <2> QED BY <1>1, <2>1, <2>2, <2>3 DEF Timeout, TypeOK
<1>2. CASE Restart
  <2>1. op' \in [Ops -> OpStates]
    BY <1>2, IdleType DEF Restart
  <2>2. calls' \subseteq Calls
    BY <1>2, Orphaning DEF Restart
  <2>3. faults' \in 0..MaxFaults
    BY <1>2, TransferAssumption DEF Restart, TypeOK
  <2> QED BY <1>2, <2>1, <2>2, <2>3 DEF Restart, TypeOK
<1>3. CASE FetchMirror
  BY <1>3, RowFields, Constants DEF FetchMirror, TypeOK
<1>4. CASE UpsertMirrorAccount
  <2>1. row' \in [Instances -> Rows]
    <3>1. mirror \in Tokens
      BY <1>4 DEF UpsertMirrorAccount, TypeOK
    <3> QED BY <1>4, <3>1, RowStored, Constants DEF UpsertMirrorAccount, TypeOK
  <2> QED BY <1>4, <2>1 DEF UpsertMirrorAccount, TypeOK
<1>5. CASE UNCHANGED vars
  BY <1>5 DEF vars, TypeOK
<1> QED BY <1>1, <1>2, <1>3, <1>4, <1>5, OperateTypes, ProceedTypes, HandleTypes,
           ExchangeTypes DEF Next

-----------------------------------------------------------------------------
(* The theorems *)

LEMMA InitInv == Init => IInv
<1> SUFFICES ASSUME Init PROVE IInv
  OBVIOUS
<1>1. /\ Hub \in Instances /\ Taker \in Instances /\ FirstOwner \in Instances
      /\ 0 \in Tokens /\ 1 \in Tokens /\ 1 \in Nonces /\ 1 \in 1..MaxTokens
      /\ 0 \in 0..MaxFaults
  BY TransferAssumption DEF Instances, Hub, Taker, Tokens, Nonces
<1>2. PICK k \in 0..MaxNonces : k = IF FirstOwner = Taker THEN 1 ELSE 0
  BY TransferAssumption
<1>3. ASSUME NEW i \in Instances
      PROVE  /\ row[i] \in Rows /\ row[i].owner = FirstOwner /\ row[i].access = 1
             /\ row[i].refresh = IF i = FirstOwner THEN 1 ELSE 0
  BY <1>1 DEF Init, Rows
<1>4. /\ NoTransfer \in Transfers /\ NoTransfer.direction = "checkout"
      /\ NoTransfer.state = "unknown"
      /\ Transfer("checkout", "settled") \in Transfers
      /\ Transfer("checkout", "settled").direction = "checkout"
      /\ Transfer("checkout", "settled").state = "settled"
  BY DEF NoTransfer, Transfer, Transfers, Directions, States
<1>5. ASSUME NEW i \in Instances, NEW n \in Nonces
      PROVE  /\ transfers[i][n] \in Transfers /\ transfers[i][n].direction = "checkout"
             /\ transfers[i][n].state = IF FirstOwner = Taker /\ n = 1
                                        THEN "settled" ELSE "unknown"
  BY <1>4 DEF Init
<1>6. TypeOK
  <2>1. op \in [Ops -> OpStates]
    BY IdleType DEF Init
  <2>2. row \in [Instances -> Rows]
    BY <1>3 DEF Init
  <2>3. transfers \in [Instances -> [Nonces -> Transfers]]
    BY <1>5 DEF Init
  <2>4. intent \in [Instances -> Tokens] /\ live \in 1..MaxTokens /\ calls \subseteq Calls
        /\ mirror \in Tokens \cup {None} /\ reblanked \in BOOLEAN /\ torn \in BOOLEAN
        /\ faults \in 0..MaxFaults
    BY <1>1 DEF Init
  <2> QED BY <2>1, <2>2, <2>3, <2>4 DEF TypeOK
<1>7. ASSUME NEW n \in Nonces
      PROVE  /\ TakerHas(n).direction = "checkout" /\ HubHas(n).direction = "checkout"
             /\ TakerHas(n).state = IF FirstOwner = Taker /\ n = 1
                                    THEN "settled" ELSE "unknown"
             /\ HubHas(n).state = TakerHas(n).state
  BY <1>1, <1>5 DEF TakerHas, HubHas
<1>8. Numbering(k)
  <2>1. ASSUME NEW n \in Nonces
        PROVE  (n > k <=> TakerHas(n).state = "unknown") /\ (n < k => ~Open(TakerHas(n)))
    <3>1. n \in Nat /\ n >= 1 /\ (TakerHas(n).state = "settled" <=> FirstOwner = Taker /\ n = 1)
      BY <1>7, TransferAssumption DEF Nonces
    <3>2. CASE FirstOwner = Taker
      BY <1>2, <1>7, <3>1, <3>2 DEF Open
    <3>3. CASE FirstOwner # Taker
      BY <1>2, <1>7, <3>1, <3>3 DEF Open
    <3> QED BY <3>2, <3>3
  <2> QED BY <2>1 DEF Numbering
<1>9. Pairing /\ HubSingleOpen
  BY <1>7 DEF Pairing, MayKnow, HubSingleOpen, Open
<1>10. Custody(k)
  <2>1. CASE FirstOwner = Taker
    BY <1>1, <1>2, <1>3, <1>7, <2>1 DEF Custody, LocallyOwned, Is
  <2>2. CASE FirstOwner # Taker
    BY <1>1, <1>2, <1>3, <2>2 DEF Custody, LocallyOwned
  <2> QED BY <2>1, <2>2
<1>11. OpsInv /\ CallsInv /\ IntentInv
  BY IdleType DEF Init, OpsInv, OpInv, Answered, CallsInv, IntentInv
<1>12. TokenInv
  <2>1. OwnsLive
    BY <1>3 DEF Init, OwnsLive, LocallyOwned
  <2> QED BY <1>7, <2>1 DEF TokenInv, Is
<1> QED BY <1>6, <1>8, <1>9, <1>10, <1>11, <1>12 DEF IInv, Inv, BookInv

LEMMA StutterInv ==
    ASSUME NEW k \in 0..MaxNonces, Inv(k), UNCHANGED vars, TypeOK' PROVE Inv(k)'
<1>1. OpsInv' /\ CallsInv'
  BY SteadySame, SameMessages DEF vars, Inv
<1> QED BY <1>1, RequestOnly DEF vars

\* No step undoes a tear.
LEMMA TornStays ==
    ASSUME [Next]_vars, torn PROVE torn'
<1>1. ASSUME NEW o \in Ops, Operate(o) \/ Proceed(o) \/ Timeout(o) PROVE torn'
  BY <1>1 DEF Operate, Proceed, Timeout, RetryCheckout, RetryCheckin, ReclaimSettled,
     ReclaimCheckin, ReclaimCheckout, ReserveCheckout, ImportCheckout, Confirmed,
     ReleaseForCheckin, SendCheckin, SettleCheckinAndBlank, BeginCheckoutAbort,
     FinishAbort, Look, OutOfNonces, Refused, Tears
<1>2. ASSUME NEW c \in calls, Handle(c) PROVE torn'
  BY <1>2 DEF Handle, ReleaseForCheckout, SettleCheckoutAndBlankRefresh, AcceptCheckin,
     AbortPeerTransfer, LookUp, Tears
<1>3. ASSUME NEW i \in Instances, Exchange(i) PROVE torn'
  BY <1>3 DEF Exchange, BeginExchange, UpdateTokens, AbortExchange
<1>4. CASE Restart \/ FetchMirror \/ UpsertMirrorAccount \/ UNCHANGED vars
  BY <1>4 DEF Restart, FetchMirror, UpsertMirrorAccount, vars
<1> QED BY <1>1, <1>2, <1>3, <1>4 DEF Next

LEMMA NextInv == IInv /\ [Next]_vars => IInv'
<1> SUFFICES ASSUME IInv, [Next]_vars, ~torn' PROVE \E j \in 0..MaxNonces : Inv(j)'
  BY NextTypes DEF IInv
<1>t. TypeOK' /\ ~torn
  BY NextTypes, TornStays DEF IInv
<1>0. PICK k \in 0..MaxNonces : Inv(k)
  BY <1>t DEF IInv
<1> DEFINE Goal == \E j \in 0..MaxNonces : Inv(j)'
<1>q. Inv(k)' \/ (k + 1 \in 0..MaxNonces /\ Inv(k + 1)') => Goal
  OBVIOUS
<1> HIDE DEF Goal
<1>1. ASSUME NEW o \in Ops, Operate(o) PROVE Goal
  BY <1>t, <1>0, <1>q, <1>1, RetryCheckoutInv, RetryCheckinInv, ReclaimSettledInv,
     ReclaimCheckinInv, ReclaimCheckoutInv DEF Operate
<1>2. ASSUME NEW o \in Ops, Proceed(o) PROVE Goal
  BY <1>t, <1>0, <1>q, <1>2, ReserveCheckoutInv, ImportCheckoutInv, ConfirmedInv,
     ReleaseForCheckinInv, SendCheckinInv, SettleCheckinAndBlankInv, BeginCheckoutAbortInv,
     FinishAbortInv, LookInv, OutOfNoncesInv, RefusedInv DEF Proceed
<1>3. ASSUME NEW o \in Ops, Timeout(o) PROVE Goal
  BY <1>t, <1>0, <1>q, <1>3, TimeoutInv
<1>4. ASSUME NEW c \in calls, Handle(c) PROVE Goal
  BY <1>t, <1>0, <1>q, <1>4, ReleaseForCheckoutInv, SettleCheckoutInv, AcceptCheckinInv,
     AbortPeerTransferInv, LookUpInv DEF Handle
<1>5. ASSUME NEW i \in Instances, Exchange(i) PROVE Goal
  BY <1>t, <1>0, <1>q, <1>5, BeginExchangeInv, UpdateTokensInv DEF Exchange
<1>6. CASE Restart \/ FetchMirror \/ UpsertMirrorAccount
  BY <1>t, <1>0, <1>q, <1>6, RestartInv, FetchMirrorInv, UpsertMirrorInv
<1>7. CASE UNCHANGED vars
  BY <1>t, <1>0, <1>q, <1>7, StutterInv
<1> QED BY <1>1, <1>2, <1>3, <1>4, <1>5, <1>6, <1>7 DEF Next, Goal

LEMMA Invariance == Spec => []IInv
BY InitInv, NextInv, PTL DEF Spec

\* Type correctness of the databases, the requests and the calls.
THEOREM TypeCorrect == Spec => []TypeOK
<1>1. IInv => TypeOK
  BY DEF IInv
<1> QED BY <1>1, Invariance, PTL

\* Both instances consider themselves the owner of the account only after a
\* transaction was torn, whatever calls are lost, late or repeated.
THEOREM OneOwner == Spec => []SingleOwner
<1>1. IInv => SingleOwner
  <2> SUFFICES ASSUME NEW k \in 0..MaxNonces, Inv(k) PROVE NeverTwoOwners
    BY DEF IInv, SingleOwner
  <2> QED BY OwnerAlone DEF NeverTwoOwners, Instances, Hub, Taker
<1> QED BY <1>1, Invariance, PTL

\* The hub's and the taker's tables never disagree on how a transfer ended, if no
\* transaction was torn.
THEOREM TablesAgree == Spec => []OutcomesAgree
<1>1. IInv => OutcomesAgree
  <2> SUFFICES ASSUME NEW k \in 0..MaxNonces, Inv(k), NEW n \in Nonces
               PROVE  /\ HubHas(n).state # "unknown" =>
                           TakerHas(n).state # "unknown"
                             /\ HubHas(n).direction = TakerHas(n).direction
                      /\ TakerHas(n).state = "aborted" => HubHas(n).state = "aborted"
                      /\ HubHas(n).state = "aborted" => TakerHas(n).state # "settled"
                      /\ TakerHas(n) = Transfer("checkin", "settled") =>
                           HubHas(n).state = "settled"
                      /\ HubHas(n) = Transfer("checkout", "settled") =>
                           TakerHas(n).state = "settled"
    BY DEF IInv, OutcomesAgree, TakerHas, HubHas
  <2>1. /\ TakerHas(n) = Transfer("checkin", "settled") =>
             Is(TakerHas(n), "checkin", "settled")
        /\ HubHas(n) = Transfer("checkout", "settled") => Is(HubHas(n), "checkout", "settled")
    BY HasTypes, TransferIs DEF Inv
  <2>2. /\ MayKnow(TakerHas(n), HubHas(n).state)
        /\ HubHas(n).state # "unknown" => HubHas(n).direction = TakerHas(n).direction
    BY DEF Inv, BookInv, Pairing
  <2> QED BY <2>1, <2>2 DEF MayKnow, Is
<1> QED BY <1>1, Invariance, PTL

\* Whoever owns the account has the token pair that the provider accepts, if no
\* transaction was torn and no checkin settled twice.
THEOREM OwnerIsLive == Spec => []OwnerHoldsLive
<1>1. IInv => OwnerHoldsLive
  BY DEF IInv, Inv, TokenInv, OwnsLive, OwnerHoldsLive
<1> QED BY <1>1, Invariance, PTL

\* The live token is in one of the two databases, whatever calls are lost or late,
\* unless a transaction was torn or a checkin was settled twice.
THEOREM LiveTokenKept == Spec => []TokenKept
<1>1. IInv => TokenKept
  <2> SUFFICES ASSUME NEW k \in 0..MaxNonces, Inv(k), ~reblanked
               PROVE  row[Hub].refresh = live \/ row[Taker].refresh = live
    BY DEF IInv, TokenKept, Instances
  <2>1. CASE \E i \in Instances : LocallyOwned(i)
    BY <2>1 DEF Inv, TokenInv, OwnsLive, Instances
  <2>2. CASE ~ \E i \in Instances : LocallyOwned(i)
    <3>1. row[Hub].owner = Taker /\ ~LocallyOwned(Taker)
      BY <2>2, RowFields DEF Inv, LocallyOwned, Instances
    <3>2. k > 0 /\ k \in Nonces
      BY <3>1 DEF Inv, BookInv, Custody, Nonces
    <3>3. \/ Is(TakerHas(k), "checkin", "pending") /\ HubHas(k).state # "settled"
          \/ TakerHas(k).state \in {"pending", "aborting"} /\ HubHas(k).state = "pending"
      BY <3>1, <3>2 DEF Inv, BookInv, Custody, Pairing, MayKnow, Is
    <3> QED BY <3>2, <3>3 DEF Inv, TokenInv, HoldsLive
  <2> QED BY <2>1, <2>2
<1> QED BY <1>1, Invariance, PTL

\* An exchange under way is the owner's and was sent with the token its row still
\* has, if no transaction was torn: the account is not handed over meanwhile, and
\* the new tokens are stored.
THEOREM ExchangeIsOwners == Spec => [](torn \/ IntentInv)
<1>1. IInv => torn \/ IntentInv
  BY DEF IInv, Inv
<1> QED BY <1>1, Invariance, PTL

-----------------------------------------------------------------------------
(* Databases that lock the rows they have read *)

\* A transaction of a database with row locks writes what it decides on.
LEMMA LockedStep ==
    ASSUME RowLocks = Instances, [Next]_vars, ~torn PROVE ~torn'
<1>0. Hub \in RowLocks /\ Taker \in RowLocks
  BY Constants
<1>1. ASSUME NEW o \in Ops, Operate(o) \/ Timeout(o) PROVE ~torn'
  BY <1>1 DEF Operate, Timeout, RetryCheckout, RetryCheckin, ReclaimSettled,
     ReclaimCheckin, ReclaimCheckout
<1>2. ASSUME NEW o \in Ops, Proceed(o) PROVE ~torn'
  <2>1. CASE ReserveCheckout(o) \/ ReleaseForCheckin(o)
    BY <1>0, <2>1 DEF ReserveCheckout, ReleaseForCheckin, Tears
  <2>2. CASE ImportCheckout(o)
    BY <1>0, <2>2 DEF ImportCheckout, Tears, Writes
  <2>3. CASE SettleCheckinAndBlank(o)
    BY <1>0, <2>3 DEF SettleCheckinAndBlank, Tears, Writes
  <2>4. CASE BeginCheckoutAbort(o)
    BY <1>0, <2>4 DEF BeginCheckoutAbort, Tears, Writes
  <2>5. CASE FinishAbort(o)
    BY <1>0, <2>5 DEF FinishAbort, Tears, Writes
  <2>6. CASE Confirmed(o) \/ SendCheckin(o) \/ Look(o) \/ OutOfNonces(o) \/ Refused(o)
    BY <2>6 DEF Confirmed, SendCheckin, Look, OutOfNonces, Refused
  <2> QED BY <1>2, <2>1, <2>2, <2>3, <2>4, <2>5, <2>6 DEF Proceed
<1>3. ASSUME NEW c \in calls, Handle(c) PROVE ~torn'
  <2>1. CASE ReleaseForCheckout(c)
    BY <1>0, <2>1 DEF ReleaseForCheckout, Tears, Writes
  <2>2. CASE SettleCheckoutAndBlankRefresh(c)
    BY <1>0, <2>2 DEF SettleCheckoutAndBlankRefresh, Tears, Writes
  <2>3. CASE AcceptCheckin(c)
    BY <1>0, <2>3 DEF AcceptCheckin, Tears, Writes
  <2>4. CASE AbortPeerTransfer(c)
    BY <1>0, <2>4 DEF AbortPeerTransfer, Tears, Writes
  <2>5. CASE LookUp(c)
    BY <2>5 DEF LookUp
  <2> QED BY <1>3, <2>1, <2>2, <2>3, <2>4, <2>5 DEF Handle
<1>4. ASSUME NEW i \in Instances, Exchange(i) PROVE ~torn'
  BY <1>4 DEF Exchange, BeginExchange, UpdateTokens, AbortExchange
<1>5. CASE Restart \/ FetchMirror \/ UpsertMirrorAccount \/ UNCHANGED vars
  BY <1>5 DEF Restart, FetchMirror, UpsertMirrorAccount, vars
<1> QED BY <1>1, <1>2, <1>3, <1>4, <1>5 DEF Next

\* Where both databases lock the rows a transaction has read, two instances never
\* both consider themselves the owner, as specs/instance-federation demands.
THEOREM LockedOneOwner ==
    ASSUME RowLocks = Instances PROVE Spec => []NeverTwoOwners
<1>1. Init => ~torn
  BY DEF Init
<1>2. ~torn /\ [Next]_vars => ~torn'
  BY LockedStep
<1>3. SingleOwner /\ ~torn => NeverTwoOwners
  BY DEF SingleOwner
<1> QED BY <1>1, <1>2, <1>3, OneOwner, PTL DEF Spec

=============================================================================
