------------------------ MODULE TokenExchangeProofs ------------------------
(***************************************************************************)
(* Theorems about TokenExchange, for any number of refreshes, tokens,      *)
(* crashes and lost locks.  They rest on three facts.  A token that does   *)
(* not work will never work again, and everything that condemns a token (a *)
(* refusal, an answer, an intent marked unsaved) was written after it      *)
(* stopped working.  An exchange is over before the window of its intent   *)
(* is (Longest < Timeout + Margin), so no second one of its token begins.  *)
(* And while locks are kept, one refresh runs at a time.                   *)
(***************************************************************************)
EXTENDS TokenExchange, TLAPS

\* Nobody holds a token that was not issued yet.
Known ==
    /\ live \subseteq 1..issued
    /\ acct.token <= issued
    /\ \A w \in wire : w.token <= issued
    /\ \A p \in Procs : proc[p].token <= issued /\ proc[p].new <= issued

\* What a refresh has been told about its token is true and stays true.
Told ==
    \A p \in Procs :
        /\ proc[p].pc # "idle" => proc[p].token \in Tokens
        /\ proc[p].pc = "answered" /\ proc[p].answer = "tokens" =>
               proc[p].new \in Tokens /\ proc[p].new > proc[p].token
        /\ proc[p].pc = "answered" /\ proc[p].answer \in {"tokens", "garbled", "dead"} =>
               proc[p].token \notin live
        /\ proc[p].pc \in {"unsaved", "failing"} => proc[p].token \notin live

\* Neither was a token refused that works.
Refused == \A t \in refused : t <= issued /\ t \notin live

\* An intent marked unsaved is about a token that was consumed.
Consumed ==
    intent # None /\ intent.reason = "unsaved" => intent.token \notin live

IInv ==
    TypeOK /\ Known /\ Told /\ Refused /\ IntentFollowsToken /\ Consumed /\ ReauthMeansDead

-----------------------------------------------------------------------------

\* An idle refresh is a well-formed one.
LEMMA IdleTyped == Idle \in Refreshes
  BY ExchangeAssumption DEF Idle, Refreshes, Phases, Exchanging, Statuses, Answers

LEMMA InitInv == Init => IInv
<1> SUFFICES ASSUME Init PROVE IInv
  OBVIOUS
<1>1. 1 \in Tokens /\ 0 \in 0..MaxTime
  BY ExchangeAssumption DEF Tokens
<1>2. TypeOK
  <2>1. acct \in [token: Tokens, status: Statuses] /\ issued \in Tokens /\ live \subseteq Tokens
    BY <1>1 DEF Init, Statuses
  <2>2. proc \in [Procs -> Refreshes]
    BY IdleTyped DEF Init
  <2>3. faults \in [crashes: 0..MaxCrashes, losses: 0..MaxLosses]
    BY ExchangeAssumption DEF Init
  <2>4. /\ wire \subseteq Requests /\ unsaved \subseteq Tokens /\ stranded \in BOOLEAN
        /\ refused \subseteq Tokens /\ misjudged \subseteq Tokens
    BY Zenon DEF Init
  <2> QED BY <1>1, <2>1, <2>2, <2>3, <2>4 DEF Init, TypeOK
<1>3. Known /\ Told
  BY <1>1 DEF Init, Known, Told, Idle
<1> QED BY <1>2, <1>3 DEF Init, IInv, Refused, IntentFollowsToken, Consumed, ReauthMeansDead

\* Steps that touch neither the database nor the provider, and tell the
\* refresh nothing new.
LEMMA DoneInv ==
    ASSUME IInv, NEW p \in Procs, Done(p)
    PROVE  /\ lock' \in Procs \cup {None}
           /\ proc' \in [Procs -> Refreshes]
           /\ \A q \in Procs : proc'[q] = IF q = p THEN Idle ELSE proc[q]
  BY IdleTyped DEF Done, IInv, TypeOK

LEMMA GoesInv ==
    ASSUME IInv, NEW p \in Procs, NEW pc \in Phases, Goes(p, pc)
    PROVE  /\ lock' \in Procs \cup {None}
           /\ proc' \in [Procs -> Refreshes]
           /\ \A q \in Procs : proc'[q] = IF q = p THEN [proc[p] EXCEPT !.pc = pc] ELSE proc[q]
  BY DEF Goes, IInv, TypeOK, Refreshes

\* A refresh that ends says nothing more about its token.
LEMMA DoneTold ==
    ASSUME IInv, NEW p \in Procs, Done(p), UNCHANGED <<live, issued, wire>>,
           acct'.token <= issued
    PROVE  Known' /\ Told'
<1>1. \A q \in Procs : proc'[q] = IF q = p THEN Idle ELSE proc[q]
  BY DoneInv
<1>2. issued \in Nat
  BY DEF IInv, TypeOK, Tokens
<1>3. Known'
  BY <1>1, <1>2 DEF IInv, Known, Idle
<1>4. Told'
  BY <1>1 DEF IInv, Told, Idle
<1> QED BY <1>3, <1>4

\* The conditional writes keep rows well-formed.
LEMMA RowsTyped ==
    ASSUME IInv, NEW t \in Nat, NEW status \in Statuses
    PROVE  /\ UpdateStatus(t, status) \in [token: Tokens, status: Statuses]
           /\ UpdateStatus(t, status).token = acct.token
           /\ UpdateStatus(t, status).status \in {acct.status, status}
           /\ MarkUncertain(t) \in [token: Tokens, status: Statuses]
           /\ MarkUncertain(t).token = acct.token
           /\ MarkUncertain(t).status \in {acct.status, "exchange_uncertain"}
  BY DEF IInv, TypeOK, UpdateStatus, MarkUncertain, Statuses


\* A refresh that ends may change the status and remove the intent.
LEMMA EndsInv ==
    ASSUME IInv, NEW p \in Procs, Done(p),
           acct' \in [token: Tokens, status: Statuses],
           acct'.token = acct.token,
           acct'.status = "reauth_required" => acct.token \notin live \/ acct.token \in misjudged,
           intent' \in {intent, None},
           \A t \in refused' : t \in refused \/ (t = proc[p].token /\ t \in Tokens /\ t \notin live),
           UNCHANGED <<now, live, issued, wire, unsaved, misjudged, stranded, faults>>
    PROVE  IInv'
<1>0. refused' \subseteq Tokens /\ Refused'
  BY DEF IInv, TypeOK, Known, Refused
<1>1. TypeOK'
  BY <1>0, DoneInv DEF IInv, TypeOK
<1>2. Known' /\ Told'
  <2>1. acct'.token <= issued
    BY DEF IInv, Known
  <2> QED BY <2>1, DoneTold
<1>3. IntentFollowsToken' /\ Consumed' /\ ReauthMeansDead'
  BY DEF IInv, IntentFollowsToken, Consumed, ReauthMeansDead
<1> QED BY <1>0, <1>1, <1>2, <1>3 DEF IInv

\* A refresh that goes on may remove the intent.
LEMMA GoesOnInv ==
    ASSUME IInv, NEW p \in Procs, NEW pc \in Phases \ {"answered"}, Goes(p, pc),
           proc[p].pc # "idle",
           pc \in {"unsaved", "failing"} => proc[p].token \notin live,
           intent' \in {intent, None},
           UNCHANGED <<now, acct, live, issued, wire, history>>
    PROVE  IInv'
<1>0. \A q \in Procs : proc'[q] = IF q = p THEN [proc[p] EXCEPT !.pc = pc] ELSE proc[q]
  BY GoesInv
<1>1. TypeOK'
  BY GoesInv DEF IInv, TypeOK, history
<1>2. /\ proc[p] \in Refreshes
      /\ proc'[p].pc = pc /\ proc'[p].token = proc[p].token /\ proc'[p].new = proc[p].new
  BY <1>0 DEF IInv, TypeOK, Refreshes
<1>3. Known'
  BY <1>0, <1>2 DEF IInv, Known
<1>4. Told'
  BY <1>0, <1>2 DEF IInv, Told
<1>5. Refused' /\ IntentFollowsToken' /\ Consumed' /\ ReauthMeansDead'
  BY DEF IInv, Refused, IntentFollowsToken, Consumed, ReauthMeansDead, history
<1> QED BY <1>1, <1>3, <1>4, <1>5 DEF IInv

-----------------------------------------------------------------------------
(* One lemma per group of actions *)

\* Taking the lock and reading the row.
LEMMA ReloadInv ==
    ASSUME IInv, NEW p \in Procs, Reload(p)
    PROVE  IInv'
<1> DEFINE new == [Idle EXCEPT !.pc = "checking", !.token = acct.token, !.status = acct.status]
<1>1. /\ new \in Refreshes /\ new.pc = "checking" /\ new.token = acct.token
      /\ new.new = 0 /\ new.token \in Tokens
  BY IdleTyped DEF IInv, TypeOK, Refreshes, Idle, Phases
<1>2. proc' = [proc EXCEPT ![p] = new]
  BY DEF Reload
<1> HIDE DEF new
<1>3. \A q \in Procs : proc'[q] = IF q = p THEN new ELSE proc[q]
  BY <1>2 DEF IInv, TypeOK
<1>4. TypeOK'
  BY <1>1, <1>2 DEF Reload, IInv, TypeOK, database, provider, history
<1>5. Known'
  <2>1. new.token <= issued /\ new.new <= issued
    BY <1>1 DEF IInv, TypeOK, Tokens, Known
  <2> QED BY <1>3, <2>1 DEF Reload, IInv, Known, database, provider
<1>6. Told'
  BY <1>1, <1>3 DEF Reload, IInv, Told, database, provider, history
<1>7. Refused' /\ IntentFollowsToken' /\ Consumed' /\ ReauthMeansDead'
  BY DEF Reload, IInv, Refused, IntentFollowsToken, Consumed, ReauthMeansDead, database, provider, history
<1> QED BY <1>4, <1>5, <1>6, <1>7 DEF IInv

\* What the intent says about going on.
LEMMA CheckInv ==
    ASSUME IInv, NEW p \in Procs, NoIntent(p) \/ OtherIntent(p) \/ SameIntent(p)
    PROVE  IInv'
<1>0. /\ acct \in [token: Tokens, status: Statuses] /\ "begin" \in Phases \ {"answered"}
      /\ proc[p].token \in Nat /\ proc[p] \in Refreshes
      /\ acct.status = "reauth_required" => acct.token \notin live \/ acct.token \in misjudged
  BY DEF IInv, TypeOK, Phases, ReauthMeansDead, Refreshes, Tokens
<1>1. CASE NoIntent(p)
  BY <1>0, <1>1, EndsInv, GoesOnInv DEF NoIntent, database, provider, history
<1>2. CASE OtherIntent(p)
  BY <1>0, <1>2, EndsInv, GoesOnInv DEF OtherIntent, provider, history
<1>3. CASE SameIntent(p)
  <2>1. CASE Done(p)
    <3>1. acct' \in {acct, MarkUncertain(proc[p].token)}
      BY <1>3, <2>1 DEF SameIntent, Done, IInv, TypeOK, Idle
    <3> QED BY <1>0, <1>3, <2>1, <3>1, RowsTyped, EndsInv DEF SameIntent, provider, history, Statuses
  <2>2. CASE proc' = [proc EXCEPT ![p].pc = "begin", ![p].replay = TRUE] /\ UNCHANGED <<lock, acct>>
    <3>0. proc[p].pc = "checking" /\ UNCHANGED live
      BY <1>3 DEF SameIntent, provider
    <3>1. \A q \in Procs : proc'[q] = IF q = p THEN [proc[p] EXCEPT !.pc = "begin", !.replay = TRUE]
                                               ELSE proc[q]
      BY <2>2 DEF IInv, TypeOK
    <3>2. /\ proc'[p] \in Refreshes
          /\ proc'[p].pc = "begin" /\ proc'[p].token = proc[p].token /\ proc'[p].new = proc[p].new
      BY <1>0, <3>1 DEF Refreshes
    <3>3. TypeOK'
      BY <1>3, <2>2, <3>1, <3>2 DEF SameIntent, IInv, TypeOK, provider, history
    <3>4. Known'
      BY <1>3, <2>2, <3>1, <3>2 DEF SameIntent, IInv, Known, provider
    <3>5. Told'
      BY <3>0, <3>1, <3>2 DEF IInv, Told
    <3>6. Refused' /\ IntentFollowsToken' /\ Consumed' /\ ReauthMeansDead'
      BY <1>3, <2>2 DEF SameIntent, IInv, Refused, IntentFollowsToken, Consumed, ReauthMeansDead, provider, history
    <3> QED BY <3>3, <3>4, <3>5, <3>6 DEF IInv
  <2> QED BY <1>3, <2>1, <2>2 DEF SameIntent
<1> QED BY <1>1, <1>2, <1>3

\* The intent that begin_exchange writes.
LEMMA BeginIntent ==
    ASSUME IInv, NEW p \in Procs, BeginExchange(p)
    PROVE  /\ intent' \in Intents /\ intent'.token = proc[p].token
           /\ intent'.started_at = now /\ intent'.reason = "none"
<1>1. /\ proc[p] \in Refreshes /\ now \in 0..MaxTime /\ proc[p].replay \in BOOLEAN
      /\ acct.token = proc[p].token /\ acct.token \in Tokens
  BY DEF IInv, TypeOK, Refreshes, BeginExchange, CanBegin
<1>2. proc[p].replay => intent \in Intents
  BY DEF BeginExchange, CanBegin, IntentFor, IInv, TypeOK
<1>3. 0 \in 0..MaxAutoResets
  BY ExchangeAssumption
<1> QED BY <1>1, <1>2, <1>3 DEF BeginExchange, Intents, Reasons

\* The intent is written.
LEMMA BeginInv ==
    ASSUME IInv, NEW p \in Procs, BeginExchange(p)
    PROVE  IInv'
<1>0. /\ proc[p] \in Refreshes /\ proc[p].pc = "begin" /\ now \in 0..MaxTime
      /\ acct.token = proc[p].token /\ acct.token \in Tokens /\ proc[p].replay \in BOOLEAN
  BY DEF IInv, TypeOK, Refreshes, BeginExchange, CanBegin
<1>1. \A q \in Procs : proc'[q] = IF q = p THEN [proc[p] EXCEPT !.pc = "ready", !.at = now]
                                           ELSE proc[q]
  BY DEF BeginExchange, IInv, TypeOK
<1>2. /\ proc'[p] \in Refreshes
      /\ proc'[p].pc = "ready" /\ proc'[p].token = proc[p].token /\ proc'[p].new = proc[p].new
  BY <1>0, <1>1 DEF Refreshes, Phases, Exchanging
<1>3. intent' \in Intents /\ intent'.token = proc[p].token /\ intent'.reason = "none"
  BY BeginIntent
<1>4. proc' \in [Procs -> Refreshes]
  BY <1>2 DEF BeginExchange, IInv, TypeOK
<1>5. TypeOK'
  BY <1>3, <1>4 DEF BeginExchange, IInv, TypeOK, provider, history
<1>6. Known'
  BY <1>1, <1>2 DEF BeginExchange, IInv, Known, provider
<1>7. Told'
  <2>1. UNCHANGED live
    BY DEF BeginExchange, provider
  <2> QED BY <1>0, <1>1, <1>2, <2>1 DEF IInv, Told
<1>8. Refused' /\ IntentFollowsToken' /\ Consumed' /\ ReauthMeansDead'
  BY <1>0, <1>3 DEF BeginExchange, IInv, Refused, IntentFollowsToken, Consumed, ReauthMeansDead, provider, history
<1> QED BY <1>5, <1>6, <1>7, <1>8 DEF IInv

\* The request goes out.
LEMMA SendInv ==
    ASSUME IInv, NEW p \in Procs, Send(p)
    PROVE  IInv'
<1>0. /\ proc[p] \in Refreshes /\ proc[p].pc = "ready" /\ proc[p].token \in Tokens
      /\ proc[p].token <= issued /\ "sent" \in Phases
  BY DEF Send, IInv, TypeOK, Told, Known, Phases, Exchanging
<1>1. [token |-> proc[p].token, at |-> proc[p].at, by |-> p] \in Requests
  BY <1>0 DEF Refreshes, Requests
<1>2. /\ proc' \in [Procs -> Refreshes] /\ lock' \in Procs \cup {None}
      /\ \A q \in Procs : proc'[q] = IF q = p THEN [proc[p] EXCEPT !.pc = "sent"] ELSE proc[q]
  BY <1>0, GoesInv DEF Send
<1>3. proc'[p].pc = "sent" /\ proc'[p].token = proc[p].token /\ proc'[p].new = proc[p].new
  BY <1>0, <1>2 DEF Refreshes
<1>4. TypeOK'
  BY <1>1, <1>2 DEF Send, IInv, TypeOK, database, history
<1>5. Known'
  BY <1>0, <1>2, <1>3 DEF Send, IInv, Known, database
<1>6. Told'
  BY <1>0, <1>2, <1>3 DEF Send, IInv, Told
<1>7. Refused' /\ IntentFollowsToken' /\ Consumed' /\ ReauthMeansDead'
  BY DEF Send, IInv, Refused, IntentFollowsToken, Consumed, ReauthMeansDead, database, history
<1> QED BY <1>4, <1>5, <1>6, <1>7 DEF IInv

\* Exchanges that end without new tokens: aborted, refused or left open.
LEMMA NoTokensInv ==
    ASSUME IInv, NEW p \in Procs,
           \/ BeginFails(p) \/ AbortExchange(p) \/ RestoreStatus(p) \/ AbortDead(p)
           \/ RequireReauth(p) \/ MarkExchangeUncertain(p) \/ NotSaved(p)
    PROVE  IInv'
<1>0. /\ acct \in [token: Tokens, status: Statuses] /\ proc[p].token \in Nat
      /\ {"restoring", "failing", "unsaved"} \subseteq Phases \ {"answered"}
      /\ {"active", "exchange_uncertain", "reauth_required"} \subseteq Statuses
      /\ acct.status = "reauth_required" => acct.token \notin live \/ acct.token \in misjudged
      /\ Aborted(proc[p].token) \in {intent, None}
  BY DEF IInv, TypeOK, Phases, Exchanging, ReauthMeansDead, Refreshes, Tokens, Statuses, Aborted
<1>1. CASE BeginFails(p)
  BY <1>0, <1>1, RowsTyped, EndsInv DEF BeginFails, provider, history
<1>2. CASE AbortExchange(p)
  BY <1>0, <1>2, EndsInv, GoesOnInv DEF AbortExchange, provider, history
<1>3. CASE RestoreStatus(p)
  BY <1>0, <1>3, RowsTyped, EndsInv DEF RestoreStatus, provider, history
<1>4. CASE AbortDead(p)
  <2>1. proc[p].token \notin live
    BY <1>4 DEF AbortDead, IInv, Told
  <2> QED BY <1>0, <1>4, <2>1, GoesOnInv DEF AbortDead, provider, history
<1>5. CASE RequireReauth(p)
  <2>1. proc[p].token \notin live
    BY <1>5 DEF RequireReauth, IInv, Told
  <2>2. acct'.status = "reauth_required" => acct.token \notin live \/ acct.token \in misjudged
    BY <1>0, <1>5, <2>1 DEF RequireReauth, UpdateStatus
  <2>3. proc[p].token \in Tokens
    BY <1>5 DEF RequireReauth, IInv, Told
  <2>4. \A t \in refused' : t \in refused \/ (t = proc[p].token /\ t \in Tokens /\ t \notin live)
    BY <1>5, <2>1, <2>3 DEF RequireReauth
  <2> QED BY <1>0, <1>5, <2>2, <2>4, RowsTyped, EndsInv DEF RequireReauth, provider
<1>6. CASE MarkExchangeUncertain(p)
  BY <1>0, <1>6, RowsTyped, EndsInv DEF MarkExchangeUncertain, provider, history
<1>7. CASE NotSaved(p)
  <2>1. proc[p].token \notin live
    BY <1>7 DEF NotSaved, IInv, Told
  <2> QED BY <1>0, <1>7, <2>1, GoesOnInv DEF NotSaved, database, provider, history
<1> QED BY <1>1, <1>2, <1>3, <1>4, <1>5, <1>6, <1>7

\* The successor replaces the token it was issued for.
LEMMA UpdateTokensInv ==
    ASSUME IInv, NEW p \in Procs, UpdateTokens(p)
    PROVE  IInv'
<1>0. /\ proc[p].pc = "answered" /\ proc[p].answer = "tokens"
      /\ proc[p].new \in Tokens /\ proc[p].new <= issued /\ proc[p].token \notin live
      /\ "unsaved" \in Phases \ {"answered"} /\ "active" \in Statuses
      /\ acct \in [token: Tokens, status: Statuses]
      /\ acct.status = "reauth_required" => acct.token \notin live \/ acct.token \in misjudged
  BY DEF UpdateTokens, IInv, TypeOK, Told, Known, Phases, Exchanging, Statuses, ReauthMeansDead
<1>1. CASE acct.token = proc[p].token /\ IntentFor(proc[p].token)
  <2>1. /\ acct' = [token |-> proc[p].new, status |-> "active"] /\ intent' = None /\ Done(p)
        /\ UNCHANGED <<now, live, issued, wire, unsaved, refused, misjudged, stranded, faults>>
    BY <1>1 DEF UpdateTokens, provider, history
  <2>2. TypeOK'
    BY <1>0, <2>1, DoneInv DEF IInv, TypeOK
  <2>3. Known' /\ Told'
    BY <1>0, <2>1, DoneTold
  <2>4. Refused' /\ IntentFollowsToken' /\ Consumed' /\ ReauthMeansDead'
    BY <2>1 DEF IInv, Refused, IntentFollowsToken, Consumed, ReauthMeansDead
  <2> QED BY <2>2, <2>3, <2>4 DEF IInv
<1>2. CASE ~(acct.token = proc[p].token /\ IntentFor(proc[p].token))
  BY <1>0, <1>2, EndsInv, GoesOnInv DEF UpdateTokens, database, provider, history
<1> QED BY <1>1, <1>2

\* The mark is about a token that was consumed.
LEMMA UnsavedInv ==
    ASSUME IInv, NEW p \in Procs, MarkExchangeUnsaved(p)
    PROVE  IInv'
<1>0. /\ proc[p].token \in Tokens /\ proc[p].token \notin live /\ proc[p].token \in Nat
      /\ acct.token <= issued
  BY DEF MarkExchangeUnsaved, IInv, Told, Known, Tokens
<1>1. /\ acct' \in [token: Tokens, status: Statuses] /\ acct'.token = acct.token
      /\ acct'.status \in {acct.status, "exchange_uncertain"}
  BY <1>0, RowsTyped DEF MarkExchangeUnsaved, Statuses
<1>2. /\ intent' \in Intents \cup {None}
      /\ \/ intent' = intent
         \/ IntentFor(proc[p].token) /\ intent'.token = proc[p].token /\ acct.token = proc[p].token
  BY DEF MarkExchangeUnsaved, MarkUnsaved, IntentFor, IInv, TypeOK, Intents, Reasons
<1>3. TypeOK'
  BY <1>0, <1>1, <1>2, DoneInv DEF MarkExchangeUnsaved, IInv, TypeOK, provider
<1>4. Known' /\ Told'
  BY <1>0, <1>1, DoneTold DEF MarkExchangeUnsaved, provider
<1>5. Refused' /\ IntentFollowsToken' /\ Consumed' /\ ReauthMeansDead'
  BY <1>0, <1>1, <1>2
     DEF MarkExchangeUnsaved, provider, IInv, Refused, IntentFollowsToken, Consumed, ReauthMeansDead, history
<1> QED BY <1>3, <1>4, <1>5 DEF IInv

\* A crash only forgets the refresh; a lost lock not even that.
LEMMA FaultInv ==
    ASSUME IInv, (\E p \in Procs : Crash(p)) \/ LoseLock
    PROVE  IInv'
<1>1. ASSUME NEW p \in Procs, Crash(p) PROVE IInv'
  <2>1. faults' \in [crashes: 0..MaxCrashes, losses: 0..MaxLosses]
    BY <1>1, ExchangeAssumption DEF Crash, IInv, TypeOK
  <2>2. stranded' \in BOOLEAN
    BY <1>1, Zenon DEF Crash
  <2>3. TypeOK'
    BY <1>1, <2>1, <2>2, DoneInv DEF Crash, IInv, TypeOK, database, provider
  <2>4. Known' /\ Told'
    BY <1>1, DoneTold DEF Crash, IInv, Known, database, provider
  <2>5. Refused' /\ IntentFollowsToken' /\ Consumed' /\ ReauthMeansDead'
    BY <1>1 DEF Crash, IInv, Refused, IntentFollowsToken, Consumed, ReauthMeansDead, database, provider, history
  <2> QED BY <2>3, <2>4, <2>5 DEF IInv
<1>2. CASE LoseLock
  <2>0. faults' \in [crashes: 0..MaxCrashes, losses: 0..MaxLosses]
    BY <1>2, ExchangeAssumption DEF LoseLock, IInv, TypeOK
  <2>1. TypeOK'
    BY <1>2, <2>0 DEF LoseLock, IInv, TypeOK, database, provider
  <2>2. Known' /\ Told'
    BY <1>2 DEF LoseLock, IInv, Known, Told, database, provider
  <2>3. Refused' /\ IntentFollowsToken' /\ Consumed' /\ ReauthMeansDead'
    BY <1>2 DEF LoseLock, IInv, Refused, IntentFollowsToken, Consumed, ReauthMeansDead, database, provider, history
  <2> QED BY <2>1, <2>2, <2>3 DEF IInv
<1> QED BY <1>1, <1>2

-----------------------------------------------------------------------------
(* The provider *)

\* An answer tells the refresh the truth about its token.
LEMMA AnsweredInv ==
    ASSUME IInv, NEW w \in wire, NEW answer \in Answers \ {"none"}, NEW n \in Tokens \cup {0},
           Answered(w, answer, n),
           issued' \in Tokens, issued <= issued', n <= issued',
           live' \subseteq 1..issued',
           \A t \in Nat : t <= issued /\ t \notin live => t \notin live',
           answer = "tokens" => n \in Tokens /\ n > w.token,
           answer \in {"tokens", "garbled", "dead"} => w.token \notin live'
    PROVE  IInv'
<1> DEFINE q == w.by
<1>0. /\ w.token \in Tokens /\ w.token <= issued /\ q \in Procs /\ "answered" \in Phases
      /\ proc[q] \in Refreshes /\ issued \in Nat /\ issued' \in Nat
      /\ wire' \subseteq wire /\ live' \subseteq Tokens
      /\ UNCHANGED <<now, acct, intent, lock, unsaved, refused, misjudged, stranded, faults>>
  BY ExchangeAssumption
     DEF IInv, TypeOK, Requests, Known, Tokens, Phases, Exchanging, Answered, database, history
<1>1. \A r \in Procs : /\ proc[r].token \in Nat /\ proc[r].token <= issued'
                       /\ proc[r].new \in Nat /\ proc[r].new <= issued'
                       /\ proc[r].token \notin live => proc[r].token \notin live'
  BY <1>0 DEF IInv, TypeOK, Known, Refreshes, Tokens
<1>2. /\ acct.token <= issued' /\ \A v \in wire' : v.token <= issued'
  BY <1>0 DEF IInv, TypeOK, Known, Requests, Tokens
<1>3. Refused' /\ IntentFollowsToken' /\ Consumed' /\ ReauthMeansDead'
  BY <1>0 DEF IInv, TypeOK, Known, Refused, IntentFollowsToken, Consumed, ReauthMeansDead, Tokens, history
<1>4. CASE proc' = proc
  <2>1. TypeOK'
    BY <1>0, <1>4 DEF IInv, TypeOK
  <2>2. Known'
    BY <1>1, <1>2, <1>0, <1>4 DEF Known
  <2>3. Told'
    BY <1>1, <1>4 DEF IInv, Told
  <2> QED BY <1>3, <2>1, <2>2, <2>3 DEF IInv
<1>5. CASE /\ proc[q].token = w.token
           /\ proc' = [proc EXCEPT ![q].pc = "answered", ![q].answer = answer, ![q].new = n]
  <2>1. \A r \in Procs : r # q => proc'[r] = proc[r]
    BY <1>5 DEF IInv, TypeOK
  <2>2. /\ proc'[q] \in Refreshes /\ proc'[q].pc = "answered" /\ proc'[q].answer = answer
        /\ proc'[q].token = w.token /\ proc'[q].new = n
    BY <1>0, <1>5 DEF Refreshes, IInv, TypeOK
  <2>3. TypeOK'
    BY <1>0, <1>5, <2>1, <2>2 DEF IInv, TypeOK
  <2>4. Known'
    BY <1>0, <1>1, <1>2, <2>1, <2>2 DEF Known, Tokens
  <2>5. Told'
    BY <1>0, <1>1, <2>1, <2>2 DEF IInv, Told
  <2> QED BY <1>3, <2>3, <2>4, <2>5 DEF IInv
<1> QED BY <1>4, <1>5 DEF Answered, Waiting

\* The token that is consumed never works again, and neither does any other
\* that did not: the next one is new.
LEMMA ProviderInv ==
    ASSUME IInv, NEW w \in wire, ProviderExchanges(w) \/ ProviderRefuses(w)
    PROVE  IInv'
<1>0. /\ w.token \in Tokens /\ w.token <= issued /\ w.token \in Nat
      /\ issued \in Nat /\ issued \in Tokens /\ live \subseteq 1..issued
      /\ {"tokens", "garbled", "temporary", "dead", "ambiguous"} \subseteq Answers \ {"none"}
      /\ issued < MaxTokens => issued + 1 \in Tokens
  BY ExchangeAssumption DEF IInv, TypeOK, Requests, Known, Tokens, Answers
<1>1. CASE ProviderExchanges(w)
  <2>1. /\ issued' \in Tokens /\ issued <= issued' /\ live' \subseteq 1..issued'
        /\ w.token \notin live' /\ issued + 1 = issued' /\ issued' > w.token /\ 0 <= issued'
        /\ \A t \in Nat : t <= issued /\ t \notin live => t \notin live'
    <3>1. issued' = issued + 1 /\ live' = (live \ {w.token}) \cup {issued + 1} /\ issued < MaxTokens
      BY <1>1 DEF ProviderExchanges
    <3>2. w.token < issued + 1 /\ issued + 1 \in Tokens /\ 1..issued \subseteq 1..(issued + 1)
      BY <1>0, <3>1
    <3>3. live' \subseteq 1..issued' /\ w.token \notin live'
      <4>1. issued + 1 \in 1..(issued + 1) /\ w.token # issued + 1
        BY <1>0, <3>2
      <4>2. live \subseteq 1..(issued + 1)
        BY <1>0, <3>2
      <4> QED BY <3>1, <4>1, <4>2, Zenon
    <3>4. \A t \in Nat : t <= issued /\ t \notin live => t \notin live'
      BY <1>0, <3>1
    <3> QED BY <1>0, <3>1, <3>2, <3>3, <3>4
  <2>2. CASE Answered(w, "tokens", issued + 1)
    BY <1>0, <2>1, <2>2, AnsweredInv
  <2>3. CASE \E answer \in {"garbled", "ambiguous"} : Answered(w, answer, 0)
    BY <1>0, <2>1, <2>3, AnsweredInv
  <2> QED BY <1>1, <2>2, <2>3 DEF ProviderExchanges
<1>2. CASE ProviderRefuses(w)
  <2>1. live' = live /\ issued' = issued /\ 0 <= issued
    BY <1>0, <1>2 DEF ProviderRefuses
  <2>2. CASE w.token \notin live /\ Answered(w, "dead", 0)
    BY <1>0, <2>1, <2>2, AnsweredInv
  <2>3. CASE \E answer \in {"temporary", "ambiguous"} : Answered(w, answer, 0)
    BY <1>0, <2>1, <2>3, AnsweredInv
  <2> QED BY <1>2, <2>2, <2>3 DEF ProviderRefuses
<1> QED BY <1>1, <1>2

\* Giving up on an answer.
LEMMA TimeoutInv ==
    ASSUME IInv, NEW p \in Procs, AnswerTimeout(p)
    PROVE  IInv'
<1>0. proc[p] \in Refreshes /\ proc[p].pc = "sent" /\ UNCHANGED live
  BY DEF AnswerTimeout, IInv, TypeOK, provider
<1>1. \A q \in Procs : proc'[q] = IF q = p THEN [proc[p] EXCEPT !.pc = "answered", !.answer = "ambiguous"]
                                           ELSE proc[q]
  BY DEF AnswerTimeout, IInv, TypeOK
<1>2. /\ proc'[p] \in Refreshes /\ proc'[p].pc = "answered" /\ proc'[p].answer = "ambiguous"
      /\ proc'[p].token = proc[p].token /\ proc'[p].new = proc[p].new
  BY <1>0, <1>1 DEF Refreshes, Phases, Exchanging, Answers
<1>3. proc' \in [Procs -> Refreshes]
  BY <1>2 DEF AnswerTimeout, IInv, TypeOK
<1>4. TypeOK'
  BY <1>3 DEF AnswerTimeout, IInv, TypeOK, database, provider, history
<1>5. Known'
  BY <1>1, <1>2 DEF AnswerTimeout, IInv, Known, database, provider
<1>6. Told'
  BY <1>0, <1>1, <1>2 DEF IInv, Told
<1>7. Refused' /\ IntentFollowsToken' /\ Consumed' /\ ReauthMeansDead'
  BY DEF AnswerTimeout, IInv, Refused, IntentFollowsToken, Consumed, ReauthMeansDead, database, provider, history
<1> QED BY <1>4, <1>5, <1>6, <1>7 DEF IInv

-----------------------------------------------------------------------------
(* Operators, the scheduler, the clock *)

LEMMA ReloginInv ==
    ASSUME IInv, Relogin
    PROVE  IInv'
<1>1. /\ issued \in Nat /\ issued' = issued + 1 /\ issued' \in Tokens /\ live \subseteq 1..issued
      /\ live' \subseteq live \cup {issued'} /\ live' \subseteq 1..issued' /\ live' \subseteq Tokens
      /\ UNCHANGED <<now, lock, proc, wire, unsaved, refused, misjudged, faults>>
  BY ExchangeAssumption DEF Relogin, IInv, TypeOK, Known, Tokens
<1>2. acct' \in [token: Tokens, status: Statuses] /\ acct'.token = issued' /\ acct'.status = "active"
  BY <1>1 DEF Relogin, Statuses
<1>3. stranded' \in BOOLEAN /\ intent' = None
  BY Zenon DEF Relogin
<1>4. TypeOK'
  BY <1>1, <1>2, <1>3 DEF IInv, TypeOK
<1>5. Known'
  BY <1>1, <1>2 DEF IInv, TypeOK, Known, Refreshes, Requests, Tokens
<1>6. Told'
  <2>1. \A p \in Procs : /\ proc[p].token \in Nat /\ proc[p].token <= issued
                         /\ proc[p].token \notin live => proc[p].token \notin live'
    BY <1>1 DEF IInv, TypeOK, Known, Refreshes, Tokens
  <2> QED BY <1>1, <2>1 DEF IInv, Told
<1>7. IntentFollowsToken' /\ Consumed' /\ ReauthMeansDead'
  BY <1>2, <1>3 DEF IntentFollowsToken, Consumed, ReauthMeansDead
<1>8. Refused'
  <2>1. \A t \in refused : t \in Nat /\ t <= issued /\ t \notin live
    BY DEF IInv, TypeOK, Refused, Tokens
  <2>2. \A t \in Nat : t <= issued => t # issued' /\ t <= issued'
    BY <1>1
  <2> QED BY <1>1, <2>1, <2>2 DEF Refused
<1> QED BY <1>4, <1>5, <1>6, <1>7, <1>8 DEF IInv

\* A reset is about the intent that is there, and not about an unsaved one.
LEMMA OperatorIntent ==
    ASSUME IInv, ClearExchangeIntent \/ AutoResetExchangeIntent \/ TokensLost
    PROVE  /\ intent' \in Intents /\ intent'.token = intent.token
           /\ intent'.started_at = intent.started_at
           /\ intent'.reason = "unsaved" <=> intent.reason = "unsaved"
<1>0. intent \in Intents
  BY DEF ClearExchangeIntent, AutoResetExchangeIntent, TokensLost, IntentFor, IInv, TypeOK
<1>1. CASE ClearExchangeIntent
  <2>1. /\ intent' = [intent EXCEPT !.reason = "operator_reset", !.auto_resets = 0]
        /\ intent.reason # "unsaved"
    BY <1>1 DEF ClearExchangeIntent
  <2>2. "operator_reset" \in Reasons /\ 0 \in 0..MaxAutoResets
    BY ExchangeAssumption DEF Reasons, ResetReasons
  <2> QED BY <1>0, <2>1, <2>2 DEF Intents
<1>2. CASE AutoResetExchangeIntent
  <2>1. intent.auto_resets \in 0..MaxAutoResets
    BY <1>0 DEF Intents
  <2>2. ~(intent.auto_resets >= MaxAutoResets) => intent.auto_resets + 1 \in 0..MaxAutoResets
    BY <2>1, ExchangeAssumption
  <2> QED BY <1>0, <1>2, <2>1, <2>2 DEF AutoResetExchangeIntent, Intents, Reasons, ResetReasons
<1>3. CASE TokensLost
  BY <1>0, <1>3 DEF TokensLost, Intents
<1> QED BY <1>1, <1>2, <1>3

LEMMA OperatorInv ==
    ASSUME IInv, ClearExchangeIntent \/ AutoResetExchangeIntent \/ TokensLost
    PROVE  IInv'
<1>0. /\ UNCHANGED <<now, lock, proc, live, issued, wire, unsaved, refused, misjudged, stranded, faults>>
      /\ intent \in Intents
  BY DEF ClearExchangeIntent, AutoResetExchangeIntent, TokensLost, IntentFor, IInv, TypeOK,
         provider, history
<1>1. /\ intent' \in Intents /\ intent'.token = intent.token
      /\ intent'.reason = "unsaved" => intent.reason = "unsaved"
  BY OperatorIntent
<1>2. /\ acct' \in [token: Tokens, status: Statuses] /\ acct'.token = acct.token
      /\ acct'.status = "reauth_required" => acct.token \notin live \/ acct.token \in misjudged
  BY DEF ClearExchangeIntent, AutoResetExchangeIntent, TokensLost, UpdateStatus, IntentFor,
         IInv, TypeOK, Statuses, Consumed, ReauthMeansDead
<1>3. TypeOK'
  BY <1>0, <1>1, <1>2 DEF IInv, TypeOK
<1>4. Known' /\ Told'
  BY <1>0, <1>2 DEF IInv, Known, Told
<1>5. Refused' /\ IntentFollowsToken' /\ Consumed' /\ ReauthMeansDead'
  <2>1. intent # None
    BY DEF ClearExchangeIntent, AutoResetExchangeIntent, TokensLost, IntentFor
  <2> QED BY <1>0, <1>1, <1>2, <2>1 DEF IInv, Refused, IntentFollowsToken, Consumed, ReauthMeansDead, history
<1> QED BY <1>3, <1>4, <1>5 DEF IInv

\* A report blames the token that is stored; a wrong one is remembered.
LEMMA ReportInv ==
    ASSUME IInv, NEW t \in refused, MarkPermanentFailure(t)
    PROVE  IInv'
<1>0. /\ UNCHANGED <<now, intent, lock, proc, live, issued, wire, unsaved, refused, stranded, faults>>
      /\ misjudged' = (IF acct.token = t THEN misjudged ELSE misjudged \cup {acct.token})
      /\ acct \in [token: Tokens, status: Statuses] /\ acct' = [acct EXCEPT !.status = "reauth_required"]
  BY DEF MarkPermanentFailure, provider, IInv, TypeOK
<1>1. acct' \in [token: Tokens, status: Statuses] /\ acct'.token = acct.token
  BY <1>0 DEF Statuses
<1>2. TypeOK'
  BY <1>0, <1>1 DEF IInv, TypeOK
<1>3. Known' /\ Told' /\ Refused'
  BY <1>0, <1>1 DEF IInv, Known, Told, Refused
<1>4. IntentFollowsToken' /\ Consumed' /\ ReauthMeansDead'
  BY <1>0, <1>1 DEF IInv, Refused, IntentFollowsToken, Consumed, ReauthMeansDead
<1> QED BY <1>2, <1>3, <1>4 DEF IInv

LEMMA TickInv ==
    ASSUME IInv, Tick
    PROVE  IInv'
<1>1. TypeOK'
  BY ExchangeAssumption DEF Tick, IInv, TypeOK, database, provider, history
<1>2. Known' /\ Told' /\ Refused' /\ IntentFollowsToken' /\ Consumed' /\ ReauthMeansDead'
  BY DEF Tick, IInv, Known, Told, Refused, IntentFollowsToken, Consumed, ReauthMeansDead, database, provider, history
<1> QED BY <1>1, <1>2 DEF IInv

LEMMA StutterInv ==
    ASSUME IInv, UNCHANGED vars
    PROVE  IInv'
<1>1. TypeOK' /\ Known' /\ Told'
  BY DEF IInv, TypeOK, Known, Told, vars
<1>2. Refused' /\ IntentFollowsToken' /\ Consumed' /\ ReauthMeansDead'
  BY DEF IInv, Refused, IntentFollowsToken, Consumed, ReauthMeansDead, vars, history
<1> QED BY <1>1, <1>2 DEF IInv

LEMMA NextInv == IInv /\ [Next]_vars => IInv'
<1> SUFFICES ASSUME IInv, [Next]_vars PROVE IInv'
  OBVIOUS
<1>1. ASSUME NEW p \in Procs, RefreshStep(p) PROVE IInv'
  BY <1>1, ReloadInv, CheckInv, BeginInv, SendInv, NoTokensInv, UpdateTokensInv, UnsavedInv,
     FaultInv, TimeoutInv DEF RefreshStep
<1>2. CASE ProviderStep
  BY <1>2, ProviderInv DEF ProviderStep
<1>3. CASE LoseLock \/ Relogin \/ ClearExchangeIntent \/ AutoResetExchangeIntent \/ TokensLost \/ Tick
  BY <1>3, FaultInv, ReloginInv, OperatorInv, TickInv
<1>4. CASE UNCHANGED vars
  BY <1>4, StutterInv
<1>5. ASSUME NEW t \in refused, MarkPermanentFailure(t) PROVE IInv'
  BY <1>5, ReportInv
<1> QED BY <1>1, <1>2, <1>3, <1>4, <1>5 DEF Next

-----------------------------------------------------------------------------
(* Theorems *)

\* The inductive invariant.
THEOREM Invariance == Spec => []IInv
  BY InitInv, NextInv, PTL DEF Spec

\* Type correctness; among others, resets stay within their number.
THEOREM TypeCorrect == Spec => []TypeOK
<1>1. IInv => TypeOK
  BY DEF IInv
<1> QED BY <1>1, Invariance, PTL

\* An account asks for a new login only when its stored token is dead, however
\* late the answers of overlapping exchanges come (auth_exchange, update_status),
\* or when a caller reported the refusal of an earlier token, which is the only
\* way to a wrong one (mark_permanent_failure).
THEOREM ReauthIsJustified == Spec => []ReauthMeansDead
<1>1. IInv => ReauthMeansDead
  BY DEF IInv
<1> QED BY <1>1, Invariance, PTL

\* The intent is always the one of the stored token (update_tokens, the logins).
THEOREM IntentIsCurrent == Spec => []IntentFollowsToken
<1>1. IInv => IntentFollowsToken
  BY DEF IInv
<1> QED BY <1>1, Invariance, PTL

\* No step replaces the stored token by one that was issued earlier
\* (update_tokens, the conditional store).
THEOREM TokensOnlyAdvance == Spec => NewestTokenWins
<1>1. ASSUME IInv, [Next]_vars PROVE acct'.token >= acct.token
  <2>0. acct.token \in Nat /\ issued \in Nat /\ acct.token <= issued
    BY <1>1 DEF IInv, TypeOK, Known, Tokens
  <2>1. ASSUME NEW p \in Procs, RefreshStep(p) PROVE acct'.token >= acct.token
    <3>1. CASE UpdateTokens(p)
      BY <1>1, <2>0, <3>1 DEF UpdateTokens, IInv, Told, Tokens, database
    <3>2. CASE ~UpdateTokens(p)
      <4>1. proc[p].token \in Nat
        BY <1>1 DEF IInv, TypeOK, Refreshes, Tokens
      <4>2. acct'.token = acct.token
        BY <1>1, <2>1, <3>2, <4>1, RowsTyped
           DEF RefreshStep, Reload, NoIntent, OtherIntent, SameIntent, BeginExchange, BeginFails, Send,
               AnswerTimeout, AbortExchange, RestoreStatus, AbortDead, RequireReauth,
               MarkExchangeUncertain, NotSaved, MarkExchangeUnsaved, Crash, database, Statuses
      <4> QED BY <2>0, <4>2
    <3> QED BY <3>1, <3>2
  <2>2. CASE Relogin
    BY <2>0, <2>2 DEF Relogin
  <2>3. CASE ProviderStep \/ LoseLock \/ ClearExchangeIntent \/ AutoResetExchangeIntent \/ TokensLost
             \/ Tick \/ UNCHANGED vars
    <3>1. acct'.token = acct.token
      BY <1>1, <2>3 DEF ProviderStep, ProviderExchanges, ProviderRefuses, Answered, LoseLock, ClearExchangeIntent,
         AutoResetExchangeIntent, TokensLost, UpdateStatus, Tick, database, vars, IInv, TypeOK
    <3> QED BY <2>0, <3>1
  <2>4. ASSUME NEW t \in refused, MarkPermanentFailure(t) PROVE acct'.token >= acct.token
    <3>1. acct'.token = acct.token
      BY <1>1, <2>4 DEF MarkPermanentFailure, IInv, TypeOK
    <3> QED BY <2>0, <3>1
  <2> QED BY <1>1, <2>1, <2>2, <2>3, <2>4 DEF Next
<1> QED BY <1>1, Invariance, PTL DEF Spec, NewestTokenWins

-----------------------------------------------------------------------------
(* One exchange at a time. *)

\* A refresh whose exchange is not over: its intent is written, and neither
\* the successor nor the end of the exchange is.
Active(q) == q.pc \in {"ready", "sent", "answered", "unsaved"}

\* A token is in one exchange: of one refresh, with one request.  The request
\* outlives what its refresh waits for only after a timeout.
Single(pr, wr) ==
    /\ \A p, q \in Procs : Active(pr[p]) /\ Active(pr[q]) /\ pr[p].token = pr[q].token => p = q
    /\ \A v, w \in wr : v.token = w.token => v = w
    /\ \A w \in wr, p \in Procs : Active(pr[p]) /\ pr[p].token = w.token =>
         /\ w.by = p /\ w.at = pr[p].at
         /\ pr[p].pc = "sent" \/ (pr[p].pc = "answered" /\ pr[p].answer = "ambiguous")

\* No exchange takes longer than Longest.
InTime(pr, wr, t) ==
    /\ \A p \in Procs : Active(pr[p]) => t <= pr[p].at + Longest
    /\ \A w \in wr : t <= w.at + Longest

\* An exchange of the stored token has an intent that is at least as young;
\* no token is exchanged before it was stored.
Cover(token, at, a, i) ==
    /\ token <= a.token
    /\ token = a.token => i # None /\ at <= i.started_at

Covered(pr, wr, a, i) ==
    /\ \A p \in Procs : Active(pr[p]) => Cover(pr[p].token, pr[p].at, a, i)
    /\ \A w \in wr : Cover(w.token, w.at, a, i)

\* A token marked unsaved is an old one, or its intent says so and nobody
\* exchanges it.
Spent(pr, a, i, u) ==
    \A t \in u :
        /\ t <= a.token
        /\ t = a.token => /\ i # None /\ i.reason = "unsaved"
                          /\ \A p \in Procs : Active(pr[p]) => pr[p].token # t

OneExchange ==
    /\ Single(proc, wire) /\ InTime(proc, wire, now)
    /\ Covered(proc, wire, acct, intent) /\ Spent(proc, acct, intent, unsaved)

LEMMA TypesOf ==
    ASSUME IInv
    PROVE  /\ now \in Nat /\ Longest \in Nat /\ acct.token \in Nat
           /\ \A p \in Procs : /\ proc[p] \in Refreshes /\ proc[p].token \in Nat
                               /\ proc[p].at \in Nat /\ proc[p].new \in Nat
           /\ \A w \in wire : w.token \in Nat /\ w.at \in Nat /\ w.by \in Procs
           /\ intent # None => intent \in Intents /\ intent.started_at \in Nat
           /\ \A t \in unsaved : t \in Nat
           /\ intent # None => intent.token = acct.token
  BY ExchangeAssumption
     DEF IInv, TypeOK, Refreshes, Tokens, Requests, Intents, IntentFollowsToken

\* A refresh that stops exchanging, or did not, keeps the intent or removes
\* the one of its own exchange.
LEMMA EndsSingle ==
    ASSUME IInv, OneExchange, NEW p \in Procs,
           \A q \in Procs \ {p} : proc'[q] = proc[q], ~Active(proc'[p]),
           UNCHANGED <<now, wire, unsaved>>, acct'.token = acct.token,
           \/ intent # None => /\ intent' # None /\ intent'.started_at = intent.started_at
                               /\ intent.reason = "unsaved" => intent'.reason = "unsaved"
           \/ /\ Active(proc[p]) /\ proc[p].token = acct.token
              /\ \A w \in wire : w.token # acct.token
    PROVE  OneExchange'
<1>1. \A q \in Procs : Active(proc'[q]) => q # p /\ Active(proc[q]) /\ proc'[q] = proc[q]
  OBVIOUS
<1>2. Single(proc', wire')
  BY <1>1 DEF OneExchange, Single
<1>3. InTime(proc', wire', now')
  BY <1>1 DEF OneExchange, InTime
<1>4. CASE intent # None => /\ intent' # None /\ intent'.started_at = intent.started_at
                            /\ intent.reason = "unsaved" => intent'.reason = "unsaved"
  <2>1. Covered(proc', wire', acct', intent')
    BY <1>1, <1>4 DEF OneExchange, Covered, Cover
  <2>2. Spent(proc', acct', intent', unsaved')
    BY <1>1, <1>4 DEF OneExchange, Spent
  <2> QED BY <1>2, <1>3, <2>1, <2>2 DEF OneExchange
<1>5. CASE /\ Active(proc[p]) /\ proc[p].token = acct.token
           /\ \A w \in wire : w.token # acct.token
  <2>1. \A q \in Procs : Active(proc'[q]) => proc[q].token # acct.token
    BY <1>1, <1>5 DEF OneExchange, Single
  <2>2. Covered(proc', wire', acct', intent')
    BY <1>1, <1>5, <2>1 DEF OneExchange, Covered, Cover
  <2>3. Spent(proc', acct', intent', unsaved')
    BY <1>1, <1>5 DEF OneExchange, Spent
  <2> QED BY <1>2, <1>3, <2>2, <2>3 DEF OneExchange
<1> QED BY <1>4, <1>5

\* A refresh that goes on exchanging the same token.
LEMMA MovesSingle ==
    ASSUME IInv, OneExchange, NEW p \in Procs,
           \A q \in Procs \ {p} : proc'[q] = proc[q], Active(proc[p]), Active(proc'[p]),
           proc'[p].token = proc[p].token, proc'[p].at = proc[p].at,
           UNCHANGED <<now, acct, intent, unsaved>>, wire' \subseteq wire,
           \A w \in wire' : w.token = proc[p].token =>
               proc'[p].pc = "sent" \/ (proc'[p].pc = "answered" /\ proc'[p].answer = "ambiguous")
    PROVE  OneExchange'
<1>1. \A q \in Procs : /\ Active(proc'[q]) => Active(proc[q])
                       /\ proc'[q].token = proc[q].token /\ proc'[q].at = proc[q].at
                       /\ q # p => proc'[q] = proc[q]
  <2>1. \A q \in Procs : q # p => proc'[q] = proc[q]
    OBVIOUS
  <2> QED BY <2>1
<1>2. Single(proc', wire')
  BY <1>1 DEF OneExchange, Single
<1>3. InTime(proc', wire', now')
  BY <1>1 DEF OneExchange, InTime
<1>4. Covered(proc', wire', acct', intent')
  BY <1>1 DEF OneExchange, Covered, Cover
<1>5. Spent(proc', acct', intent', unsaved')
  BY <1>1 DEF OneExchange, Spent
<1> QED BY <1>2, <1>3, <1>4, <1>5 DEF OneExchange

\* Nobody moves, and the intent is the same exchange's.
LEMMA StillSingle ==
    ASSUME IInv, OneExchange, UNCHANGED <<now, proc, unsaved>>, wire' \subseteq wire,
           acct'.token = acct.token,
           intent # None => /\ intent' # None /\ intent'.started_at = intent.started_at
                            /\ intent.reason = "unsaved" => intent'.reason = "unsaved"
    PROVE  OneExchange'
<1>1. Single(proc', wire')
  BY DEF OneExchange, Single
<1>2. InTime(proc', wire', now')
  BY DEF OneExchange, InTime
<1>3. Covered(proc', wire', acct', intent')
  BY DEF OneExchange, Covered, Cover
<1>4. Spent(proc', acct', intent', unsaved')
  BY DEF OneExchange, Spent
<1> QED BY <1>1, <1>2, <1>3, <1>4 DEF OneExchange

\* The refresh reads, gives up or ends; the intent and the token stay.
LEMMA QuietMoves ==
    ASSUME IInv, NEW p \in Procs,
           \/ Reload(p) \/ NoIntent(p) \/ OtherIntent(p) \/ SameIntent(p) \/ BeginFails(p)
           \/ RestoreStatus(p) \/ RequireReauth(p) \/ MarkExchangeUncertain(p) \/ Crash(p)
    PROVE  /\ \A q \in Procs \ {p} : proc'[q] = proc[q]
           /\ proc'[p].pc \in {"checking", "begin", "idle"}
           /\ acct'.token = acct.token /\ intent' = intent
           /\ UNCHANGED <<now, wire, unsaved>>
<1>0. proc \in [Procs -> Refreshes] /\ proc[p].token \in Nat
  BY TypesOf DEF IInv, TypeOK
<1>1. /\ \A q \in Procs \ {p} : proc'[q] = proc[q]
      /\ proc'[p].pc \in {"checking", "begin", "idle"}
  <2>1. ASSUME NEW s, proc' = [proc EXCEPT ![p] = s]
        PROVE  \A q \in Procs \ {p} : proc'[q] = proc[q] /\ proc'[p] = s
    BY <1>0, <2>1
  <2>2. CASE Reload(p)
    BY <1>0, <2>2 DEF Reload, Idle
  <2>3. ASSUME Done(p) PROVE /\ \A q \in Procs \ {p} : proc'[q] = proc[q]
                             /\ proc'[p].pc = "idle"
    BY <1>0, <2>3 DEF Done, Idle
  <2>4. ASSUME Goes(p, "begin") PROVE /\ \A q \in Procs \ {p} : proc'[q] = proc[q]
                                      /\ proc'[p].pc = "begin"
    BY <1>0, <2>4 DEF Goes, Refreshes
  <2>5. ASSUME proc' = [proc EXCEPT ![p].pc = "begin", ![p].replay = TRUE]
        PROVE  /\ \A q \in Procs \ {p} : proc'[q] = proc[q]
               /\ proc'[p].pc = "begin"
    BY <1>0, <2>5 DEF Refreshes
  <2> QED BY <2>2, <2>3, <2>4, <2>5
        DEF NoIntent, OtherIntent, SameIntent, BeginFails, RestoreStatus, RequireReauth,
            MarkExchangeUncertain, Crash
<1>2. UNCHANGED <<now, wire, unsaved>>
  BY DEF Reload, NoIntent, OtherIntent, SameIntent, BeginFails, RestoreStatus, RequireReauth,
         MarkExchangeUncertain, Crash, provider, history
<1>3. acct'.token = acct.token
  BY <1>0, RowsTyped
     DEF Reload, NoIntent, OtherIntent, SameIntent, BeginFails, RestoreStatus, RequireReauth,
         MarkExchangeUncertain, Crash, database, Statuses
<1>4. intent' = intent
  <2>1. CASE OtherIntent(p)
    BY <2>1, TypesOf DEF OtherIntent, IntentFor
  <2> QED BY <2>1
        DEF Reload, NoIntent, SameIntent, BeginFails, RestoreStatus, RequireReauth,
            MarkExchangeUncertain, Crash, database
<1> QED BY <1>1, <1>2, <1>3, <1>4

LEMMA QuietSingle ==
    ASSUME IInv, OneExchange, NEW p \in Procs,
           \/ Reload(p) \/ NoIntent(p) \/ OtherIntent(p) \/ SameIntent(p) \/ BeginFails(p)
           \/ RestoreStatus(p) \/ RequireReauth(p) \/ MarkExchangeUncertain(p) \/ Crash(p)
    PROVE  OneExchange'
<1>1. ~Active(proc'[p])
  BY QuietMoves DEF Active
<1> QED BY <1>1, QuietMoves, EndsSingle

\* An exchange that did not take place ends with its intent.
LEMMA AbortSingle ==
    ASSUME IInv, OneExchange, NEW p \in Procs, AbortExchange(p) \/ AbortDead(p)
    PROVE  OneExchange'
<1>0. proc \in [Procs -> Refreshes] /\ proc[p].token \in Nat
  BY TypesOf DEF IInv, TypeOK
<1>1. /\ \A q \in Procs \ {p} : proc'[q] = proc[q]
      /\ proc'[p].pc \in {"restoring", "failing", "idle"}
  <2>1. ASSUME NEW pc \in {"restoring", "failing"}, Goes(p, pc)
        PROVE  (\A q \in Procs \ {p} : proc'[q] = proc[q]) /\ proc'[p].pc = pc
    BY <1>0, <2>1 DEF Goes, Refreshes
  <2>2. ASSUME Done(p) PROVE (\A q \in Procs \ {p} : proc'[q] = proc[q]) /\ proc'[p].pc = "idle"
    BY <1>0, <2>2 DEF Done, Idle
  <2> QED BY <2>1, <2>2 DEF AbortExchange, AbortDead
<1>2. /\ UNCHANGED <<now, wire, unsaved, acct>> /\ intent' = Aborted(proc[p].token)
      /\ Active(proc[p])
      /\ proc[p].pc = "ready" \/ (proc[p].pc = "answered" /\ proc[p].answer # "ambiguous")
  BY DEF AbortExchange, AbortDead, provider, history, Active
<1>3. \A w \in wire : w.token # proc[p].token
  BY <1>2 DEF OneExchange, Single
<1>4. ~Active(proc'[p])
  BY <1>1 DEF Active
<1>5. CASE proc[p].token = acct.token
  BY <1>1, <1>2, <1>3, <1>4, <1>5, EndsSingle
<1>6. CASE proc[p].token # acct.token
  <2>1. intent' = intent
    BY <1>2, <1>6, TypesOf DEF Aborted, IntentFor
  <2> QED BY <1>1, <1>2, <1>4, <2>1, EndsSingle
<1> QED BY <1>5, <1>6

\* The intent is written: nobody else exchanges the token.
LEMMA BeginSingle ==
    ASSUME IInv, OneExchange, NEW p \in Procs, BeginExchange(p)
    PROVE  /\ OneExchange'
           /\ proc[p].token \notin unsaved
<1>0. /\ proc \in [Procs -> Refreshes] /\ acct.token = proc[p].token /\ proc[p].pc = "begin"
      /\ UNCHANGED <<now, wire, unsaved, acct>>
  BY DEF BeginExchange, CanBegin, IInv, TypeOK, provider, history
<1>1. /\ \A q \in Procs \ {p} : proc'[q] = proc[q]
      /\ proc'[p].pc = "ready" /\ proc'[p].token = acct.token /\ proc'[p].at = now
  BY <1>0 DEF BeginExchange, Refreshes
<1>2. intent' # None /\ intent'.started_at = now /\ intent'.reason = "none"
  BY BeginIntent, NoIntentAssumption
<1>3. /\ \A q \in Procs : Active(proc[q]) => proc[q].token # acct.token
      /\ \A w \in wire : w.token # acct.token
      /\ acct.token \notin unsaved
  <2>1. CASE intent = None
    BY <2>1 DEF OneExchange, Covered, Cover, Spent
  <2>2. CASE intent # None
    <3>1. /\ now >= intent.started_at + Timeout + Margin /\ intent.reason # "unsaved"
      BY <2>2 DEF BeginExchange, CanBegin, Ready, MayReplay, ResetReasons
    <3>2. Timeout \in Nat /\ Margin \in Nat /\ Longest < Timeout + Margin
      BY ExchangeAssumption
    <3>3. \A x \in Nat : now <= x + Longest => ~(x <= intent.started_at)
      BY <2>2, <3>1, <3>2, TypesOf
    <3>4. /\ \A q \in Procs : Active(proc[q]) => proc[q].token # acct.token
          /\ \A w \in wire : w.token # acct.token
      BY <3>3, TypesOf DEF OneExchange, InTime, Covered, Cover
    <3> QED BY <3>1, <3>4 DEF OneExchange, Spent
  <2> QED BY <2>1, <2>2
<1>4. Single(proc', wire')
  BY <1>0, <1>1, <1>3 DEF OneExchange, Single
<1>5. InTime(proc', wire', now')
  BY <1>0, <1>1, TypesOf DEF OneExchange, InTime
<1>6. Covered(proc', wire', acct', intent')
  BY <1>0, <1>1, <1>2, <1>3, TypesOf DEF OneExchange, Covered, Cover
<1>7. Spent(proc', acct', intent', unsaved')
  BY <1>0, <1>1, <1>3 DEF OneExchange, Spent
<1> QED BY <1>0, <1>3, <1>4, <1>5, <1>6, <1>7 DEF OneExchange

LEMMA SendSingle ==
    ASSUME IInv, OneExchange, NEW p \in Procs, Send(p)
    PROVE  OneExchange'
<1> DEFINE new == [token |-> proc[p].token, at |-> proc[p].at, by |-> p]
<1>0. /\ proc \in [Procs -> Refreshes] /\ proc[p].pc = "ready" /\ wire' = wire \cup {new}
      /\ UNCHANGED <<now, unsaved, acct, intent>> /\ Active(proc[p])
  BY DEF Send, IInv, TypeOK, database, history, Active
<1>1. /\ \A q \in Procs \ {p} : proc'[q] = proc[q]
      /\ proc'[p].pc = "sent" /\ proc'[p].token = proc[p].token /\ proc'[p].at = proc[p].at
  BY <1>0 DEF Send, Goes, Refreshes
<1>2. \A w \in wire : w.token # proc[p].token
  BY <1>0 DEF OneExchange, Single
<1>3. new.token = proc[p].token /\ new.at = proc[p].at /\ new.by = p
  OBVIOUS
<1> HIDE DEF new
<1>4. \A q \in Procs : /\ Active(proc'[q]) => Active(proc[q])
                       /\ proc'[q].token = proc[q].token /\ proc'[q].at = proc[q].at
                       /\ q # p => proc'[q] = proc[q]
  <2>1. \A q \in Procs : q # p => proc'[q] = proc[q]
    BY <1>1
  <2> QED BY <1>0, <1>1, <2>1
<1>5. Single(proc', wire')
  <2>1. \A q, r \in Procs : Active(proc'[q]) /\ Active(proc'[r]) /\ proc'[q].token = proc'[r].token
          => q = r
    BY <1>4 DEF OneExchange, Single
  <2>2. \A v, w \in wire' : v.token = w.token => v = w
    BY <1>0, <1>2, <1>3 DEF OneExchange, Single
  <2>3. ASSUME NEW w \in wire', NEW q \in Procs, Active(proc'[q]), proc'[q].token = w.token
        PROVE  /\ w.by = q /\ w.at = proc'[q].at
               /\ proc'[q].pc = "sent" \/ (proc'[q].pc = "answered" /\ proc'[q].answer = "ambiguous")
    <3>1. CASE w = new
      <4>1. q = p
        BY <1>0, <1>3, <1>4, <2>3, <3>1 DEF OneExchange, Single
      <4> QED BY <1>1, <1>3, <3>1, <4>1
    <3>2. CASE w \in wire
      <4>1. q # p
        BY <1>1, <1>2, <2>3, <3>2
      <4> QED BY <1>4, <2>3, <3>2, <4>1 DEF OneExchange, Single
    <3> QED BY <1>0, <3>1, <3>2
  <2> QED BY <2>1, <2>2, <2>3 DEF Single
<1>6. InTime(proc', wire', now')
  BY <1>0, <1>3, <1>4 DEF OneExchange, InTime
<1>7. Covered(proc', wire', acct', intent')
  BY <1>0, <1>3, <1>4 DEF OneExchange, Covered, Cover
<1>8. Spent(proc', acct', intent', unsaved')
  BY <1>0, <1>4 DEF OneExchange, Spent
<1> QED BY <1>5, <1>6, <1>7, <1>8 DEF OneExchange

\* The successor is stored, or there is nothing to store it for.
LEMMA StoreSingle ==
    ASSUME IInv, OneExchange, NEW p \in Procs, UpdateTokens(p)
    PROVE  OneExchange'
<1>0. /\ proc \in [Procs -> Refreshes] /\ UNCHANGED <<now, wire, unsaved>>
      /\ proc[p].pc = "answered" /\ proc[p].answer = "tokens" /\ Active(proc[p])
  BY DEF UpdateTokens, IInv, TypeOK, provider, history, Active
<1>1. \A w \in wire : w.token # proc[p].token
  BY <1>0 DEF OneExchange, Single
<1>2. ASSUME Done(p) PROVE (\A q \in Procs \ {p} : proc'[q] = proc[q]) /\ ~Active(proc'[p])
  BY <1>0, <1>2 DEF Done, Idle, Active
<1>3. CASE acct.token = proc[p].token /\ IntentFor(proc[p].token)
  <2>1. /\ acct'.token = proc[p].new /\ Done(p)
        /\ proc[p].new \in Nat /\ proc[p].new > acct.token
    BY <1>0, <1>3, TypesOf DEF UpdateTokens, IInv, Told
  <2>2. \A q \in Procs : Active(proc'[q]) => q # p /\ Active(proc[q]) /\ proc'[q] = proc[q]
    BY <1>2, <2>1
  <2>3. Single(proc', wire')
    BY <1>0, <2>2 DEF OneExchange, Single
  <2>4. InTime(proc', wire', now')
    BY <1>0, <2>2 DEF OneExchange, InTime
  <2>5. \A x \in Nat : x <= acct.token => x <= acct'.token /\ x # acct'.token
    BY <2>1, TypesOf
  <2>6. Covered(proc', wire', acct', intent')
    BY <1>0, <2>2, <2>5, TypesOf DEF OneExchange, Covered, Cover
  <2>7. Spent(proc', acct', intent', unsaved')
    BY <1>0, <2>5, TypesOf DEF OneExchange, Spent
  <2> QED BY <2>3, <2>4, <2>6, <2>7 DEF OneExchange
<1>4. CASE acct.token # proc[p].token
  BY <1>0, <1>2, <1>4, EndsSingle DEF UpdateTokens, database
<1>5. CASE acct.token = proc[p].token /\ ~IntentFor(proc[p].token)
  <2>1. Goes(p, "unsaved") /\ UNCHANGED <<acct, intent>>
    BY <1>5 DEF UpdateTokens, database
  <2>2. /\ \A q \in Procs \ {p} : proc'[q] = proc[q]
        /\ proc'[p].pc = "unsaved" /\ proc'[p].token = proc[p].token /\ proc'[p].at = proc[p].at
    BY <1>0, <2>1 DEF Goes, Refreshes
  <2>3. Active(proc'[p])
    BY <2>2 DEF Active
  <2> QED BY <1>0, <1>1, <2>1, <2>2, <2>3, MovesSingle
<1> QED BY <1>3, <1>4, <1>5

\* The successor is not stored, or the refresh stops waiting for it.
LEMMA GiveUpSingle ==
    ASSUME IInv, OneExchange, NEW p \in Procs, NotSaved(p) \/ AnswerTimeout(p)
    PROVE  OneExchange'
<1>0. proc \in [Procs -> Refreshes]
  BY DEF IInv, TypeOK
<1>1. CASE NotSaved(p)
  <2>1. /\ Active(proc[p]) /\ UNCHANGED <<now, acct, intent, unsaved, wire>>
        /\ \A w \in wire : w.token # proc[p].token
    BY <1>1 DEF NotSaved, Active, database, provider, history, OneExchange, Single
  <2>2. /\ \A q \in Procs \ {p} : proc'[q] = proc[q]
        /\ proc'[p].pc = "unsaved" /\ proc'[p].token = proc[p].token /\ proc'[p].at = proc[p].at
    BY <1>0, <1>1 DEF NotSaved, Goes, Refreshes
  <2>3. Active(proc'[p])
    BY <2>2 DEF Active
  <2> QED BY <2>1, <2>2, <2>3, MovesSingle
<1>2. CASE AnswerTimeout(p)
  <2>1. Active(proc[p]) /\ UNCHANGED <<now, acct, intent, unsaved, wire>>
    BY <1>2 DEF AnswerTimeout, Active, database, provider, history
  <2>2. /\ \A q \in Procs \ {p} : proc'[q] = proc[q]
        /\ proc'[p].pc = "answered" /\ proc'[p].answer = "ambiguous"
        /\ proc'[p].token = proc[p].token /\ proc'[p].at = proc[p].at
    BY <1>0, <1>2 DEF AnswerTimeout, Refreshes
  <2>3. Active(proc'[p])
    BY <2>2 DEF Active
  <2> QED BY <2>1, <2>2, <2>3, MovesSingle
<1> QED BY <1>1, <1>2

\* The mark is on the intent of the stored token, and its exchange is over.
LEMMA MarkSingle ==
    ASSUME IInv, OneExchange, NEW p \in Procs, MarkExchangeUnsaved(p)
    PROVE  OneExchange'
<1>0. /\ proc \in [Procs -> Refreshes] /\ UNCHANGED <<now, wire>>
      /\ proc[p].pc = "unsaved" /\ Active(proc[p]) /\ proc[p].token \in Nat /\ Done(p)
  BY TypesOf DEF MarkExchangeUnsaved, IInv, TypeOK, provider, Active
<1>1. (\A q \in Procs \ {p} : proc'[q] = proc[q]) /\ ~Active(proc'[p])
  BY <1>0 DEF Done, Idle, Active
<1>2. acct'.token = acct.token
  BY <1>0, RowsTyped DEF MarkExchangeUnsaved, Statuses
<1>3. CASE IntentFor(proc[p].token) /\ acct.token = proc[p].token
  <2>1. /\ intent' = [intent EXCEPT !.reason = "unsaved"] /\ unsaved' = unsaved \cup {acct.token}
        /\ intent \in Intents
    BY <1>3, TypesOf DEF MarkExchangeUnsaved, MarkUnsaved, IntentFor
  <2>2. intent' \in Intents /\ intent'.started_at = intent.started_at /\ intent'.reason = "unsaved"
    BY <2>1 DEF Intents, Reasons
  <2>3. intent' # None /\ intent # None
    BY <2>1, <2>2, NoIntentAssumption
  <2>4. \A q \in Procs : Active(proc'[q]) => q # p /\ Active(proc[q]) /\ proc'[q] = proc[q]
    BY <1>1
  <2>5. \A q \in Procs : Active(proc'[q]) => proc'[q].token # acct.token
    BY <1>0, <1>3, <2>4 DEF OneExchange, Single
  <2>6. Single(proc', wire')
    BY <1>0, <2>4 DEF OneExchange, Single
  <2>7. InTime(proc', wire', now')
    BY <1>0, <2>4 DEF OneExchange, InTime
  <2>8. Covered(proc', wire', acct', intent')
    BY <1>0, <1>2, <2>2, <2>3, <2>4 DEF OneExchange, Covered, Cover
  <2>9. Spent(proc', acct', intent', unsaved')
    BY <1>2, <2>1, <2>2, <2>3, <2>5, TypesOf DEF OneExchange, Spent
  <2> QED BY <2>6, <2>7, <2>8, <2>9 DEF OneExchange
<1>4. CASE ~(IntentFor(proc[p].token) /\ acct.token = proc[p].token)
  <2>1. UNCHANGED <<intent, unsaved>>
    BY <1>4 DEF MarkExchangeUnsaved, MarkUnsaved
  <2> QED BY <1>0, <1>1, <1>2, <2>1, EndsSingle
<1> QED BY <1>3, <1>4

\* The provider answers: the request is done with.
LEMMA AnsweredSingle ==
    ASSUME IInv, OneExchange, NEW w \in wire, NEW answer, NEW n, Answered(w, answer, n)
    PROVE  OneExchange'
<1> DEFINE p == w.by
<1>0. /\ proc \in [Procs -> Refreshes] /\ UNCHANGED <<now, acct, intent, unsaved>>
      /\ p \in Procs /\ wire' = wire \ {w}
  BY TypesOf DEF Answered, IInv, TypeOK, database, history
<1>1. CASE ~Waiting(w)
  BY <1>0, <1>1, StillSingle DEF Answered
<1>2. CASE Waiting(w)
  <2>1. /\ Active(proc[p]) /\ proc[p].token = w.token
        /\ proc' = [proc EXCEPT ![p].pc = "answered", ![p].answer = answer, ![p].new = n]
    BY <1>2 DEF Answered, Waiting, Active
  <2>2. \A v \in wire' : v.token # proc[p].token
    BY <1>0, <2>1 DEF OneExchange, Single
  <2>3. /\ \A q \in Procs \ {p} : proc'[q] = proc[q]
        /\ proc'[p].pc = "answered" /\ proc'[p].token = proc[p].token /\ proc'[p].at = proc[p].at
    BY <1>0, <2>1 DEF Refreshes
  <2>4. Active(proc'[p])
    BY <2>3 DEF Active
  <2> QED BY <1>0, <2>1, <2>2, <2>3, <2>4, MovesSingle
<1> QED BY <1>1, <1>2

\* A new login leaves every exchange and every mark behind.
LEMMA ReloginSingle ==
    ASSUME IInv, OneExchange, Relogin
    PROVE  OneExchange'
<1>1. UNCHANGED <<now, proc, wire, unsaved>> /\ acct'.token = issued + 1
  BY DEF Relogin
<1>2. \A x \in Nat : x <= acct.token => x <= acct'.token /\ x # acct'.token
  <2>1. issued \in Nat /\ acct.token \in Nat /\ acct.token <= issued
    BY TypesOf DEF IInv, TypeOK, Known, Tokens
  <2> QED BY <1>1, <2>1
<1>3. Single(proc', wire') /\ InTime(proc', wire', now')
  BY <1>1 DEF OneExchange
<1>4. Covered(proc', wire', acct', intent')
  BY <1>1, <1>2, TypesOf DEF OneExchange, Covered, Cover
<1>5. Spent(proc', acct', intent', unsaved')
  BY <1>1, <1>2, TypesOf DEF OneExchange, Spent
<1> QED BY <1>3, <1>4, <1>5 DEF OneExchange

\* Lost locks, resets and the clock: the clock waits for the exchanges.
LEMMA OthersSingle ==
    ASSUME IInv, OneExchange,
           \/ LoseLock \/ ClearExchangeIntent \/ AutoResetExchangeIntent \/ TokensLost \/ Tick
           \/ UNCHANGED vars
    PROVE  OneExchange'
<1>1. CASE LoseLock
  BY <1>1, StillSingle DEF LoseLock, database, provider
<1>2. CASE ClearExchangeIntent \/ AutoResetExchangeIntent \/ TokensLost
  <2>1. intent' # None /\ intent'.started_at = intent.started_at
    BY <1>2, OperatorIntent, NoIntentAssumption
  <2>2. intent.reason = "unsaved" => intent'.reason = "unsaved"
    BY <1>2, OperatorIntent
  <2>3. acct'.token = acct.token /\ UNCHANGED <<now, proc, unsaved, wire>>
    BY <1>2 DEF ClearExchangeIntent, AutoResetExchangeIntent, TokensLost, UpdateStatus,
                provider, history, IInv, TypeOK
  <2> QED BY <2>1, <2>2, <2>3, StillSingle
<1>3. CASE Tick
  <2>1. UNCHANGED <<proc, wire, acct, intent, unsaved>> /\ now' = now + 1
    BY <1>3 DEF Tick, database, provider, history
  <2>2. InTime(proc', wire', now')
    <3>1. \A p \in Procs : Active(proc[p]) => now < proc[p].at + Longest
      BY <1>3 DEF Tick, Active, Exchanging
    <3>2. \A x \in Nat : now < x + Longest => now + 1 <= x + Longest
      BY TypesOf
    <3> QED BY <1>3, <2>1, <3>1, <3>2, TypesOf DEF Tick, InTime
  <2> QED BY <2>1, <2>2 DEF OneExchange
<1>4. CASE UNCHANGED vars
  BY <1>4, StillSingle DEF vars
<1> QED BY <1>1, <1>2, <1>3, <1>4

\* A report touches neither the token nor the intent.
LEMMA ReportSingle ==
    ASSUME IInv, OneExchange, NEW t \in refused, MarkPermanentFailure(t)
    PROVE  OneExchange'
<1>1. UNCHANGED <<now, proc, unsaved, wire, intent>> /\ acct'.token = acct.token
  BY DEF MarkPermanentFailure, provider, IInv, TypeOK
<1> QED BY <1>1, StillSingle

LEMMA NextSingle == IInv /\ OneExchange /\ [Next]_vars => OneExchange'
<1> SUFFICES ASSUME IInv, OneExchange, [Next]_vars PROVE OneExchange'
  OBVIOUS
<1>1. ASSUME NEW p \in Procs, RefreshStep(p) PROVE OneExchange'
  BY <1>1, QuietSingle, AbortSingle, BeginSingle, SendSingle, StoreSingle, GiveUpSingle, MarkSingle
     DEF RefreshStep
<1>2. CASE ProviderStep
  BY <1>2, AnsweredSingle DEF ProviderStep, ProviderExchanges, ProviderRefuses
<1>3. CASE Relogin
  BY <1>3, ReloginSingle
<1>4. CASE LoseLock \/ ClearExchangeIntent \/ AutoResetExchangeIntent \/ TokensLost \/ Tick
           \/ UNCHANGED vars
  BY <1>4, OthersSingle
<1>5. ASSUME NEW t \in refused, MarkPermanentFailure(t) PROVE OneExchange'
  BY <1>5, ReportSingle
<1> QED BY <1>1, <1>2, <1>3, <1>4, <1>5 DEF Next

LEMMA InitSingle == Init => OneExchange
  BY DEF Init, Idle, Active, OneExchange, Single, InTime, Covered, Cover, Spent

LEMMA ExchangesAreSingle == Spec => []OneExchange
  BY InitSingle, NextSingle, Invariance, PTL DEF Spec

\* A token is in at most one exchange at a time, whatever crashes and whichever
\* locks are lost, as long as an exchange is over within the window that a
\* replay waits (begin_exchange).
THEOREM OneSender == Spec => []SingleSender
<1>1. IInv /\ OneExchange => SingleSender
  BY DEF OneExchange, Single, Active, SingleSender
<1> QED BY <1>1, Invariance, ExchangesAreSingle, PTL

\* A token whose successor was lost is never sent again, whatever operators and
\* the scheduler reset (mark_exchange_unsaved).
THEOREM LostTokensStayUnused == Spec => UnsavedNotReplayed
<1>1. ASSUME IInv, OneExchange, [Next]_vars, NEW p \in Procs,
             proc[p].pc = "begin", proc'[p].pc = "ready"
      PROVE  proc[p].token \notin unsaved
  <2>0. proc \in [Procs -> Refreshes]
    BY <1>1 DEF IInv, TypeOK
  <2>1. ASSUME NEW q \in Procs, NEW s, proc' = [proc EXCEPT ![q] = s], q # p \/ s.pc # "ready"
        PROVE  FALSE
    BY <1>1, <2>0, <2>1
  <2>2. ASSUME NEW q \in Procs, NEW pc, Goes(q, pc), pc # "ready"
        PROVE  FALSE
    BY <1>1, <2>0, <2>2 DEF Goes, Refreshes
  <2>3. ASSUME NEW q \in Procs, Done(q)
        PROVE  FALSE
    BY <2>1, <2>3 DEF Done, Idle
  <2>4. ASSUME NEW q \in Procs, RefreshStep(q) PROVE proc[p].token \notin unsaved
    <3>1. CASE BeginExchange(q)
      <4>1. q = p
        BY <1>1, <2>0, <3>1 DEF BeginExchange
      <4> QED BY <1>1, <3>1, <4>1, BeginSingle
    <3>2. CASE Reload(q)
      BY <2>1, <3>2 DEF Reload, Idle
    <3>3. CASE SameIntent(q) \/ AnswerTimeout(q)
      BY <1>1, <2>0, <2>3, <3>3 DEF SameIntent, AnswerTimeout, Refreshes
    <3>4. CASE \/ NoIntent(q) \/ OtherIntent(q) \/ BeginFails(q) \/ Send(q) \/ AbortExchange(q)
               \/ RestoreStatus(q) \/ AbortDead(q) \/ RequireReauth(q) \/ MarkExchangeUncertain(q)
               \/ UpdateTokens(q) \/ NotSaved(q) \/ MarkExchangeUnsaved(q) \/ Crash(q)
      BY <2>2, <2>3, <3>4
         DEF NoIntent, OtherIntent, BeginFails, Send, AbortExchange, RestoreStatus, AbortDead,
             RequireReauth, MarkExchangeUncertain, UpdateTokens, NotSaved, MarkExchangeUnsaved, Crash
    <3> QED BY <2>4, <3>1, <3>2, <3>3, <3>4 DEF RefreshStep
  <2>5. CASE ProviderStep
    <3>1. PICK w \in wire, answer \in Answers, n \in Nat : Answered(w, answer, n)
      <4>1. issued + 1 \in Nat /\ 0 \in Nat
        BY <1>1 DEF IInv, TypeOK, Tokens
      <4> QED BY <2>5, <4>1 DEF ProviderStep, ProviderExchanges, ProviderRefuses, Answers
    <3> QED BY <1>1, <2>0, <3>1, TypesOf DEF Answered, Refreshes
  <2>6. CASE \/ LoseLock \/ Relogin \/ ClearExchangeIntent \/ AutoResetExchangeIntent \/ TokensLost
             \/ Tick \/ UNCHANGED vars
    BY <1>1, <2>6 DEF LoseLock, Relogin, ClearExchangeIntent, AutoResetExchangeIntent, TokensLost,
       Tick, vars
  <2>7. ASSUME NEW t \in refused, MarkPermanentFailure(t) PROVE proc[p].token \notin unsaved
    BY <1>1, <2>7 DEF MarkPermanentFailure
  <2> QED BY <1>1, <2>4, <2>5, <2>6, <2>7 DEF Next
<1>2. ASSUME IInv, OneExchange, [Next]_vars
      PROVE  \A p \in Procs : proc[p].pc = "begin" /\ proc'[p].pc = "ready"
                              => proc[p].token \notin unsaved
  BY <1>1, <1>2
<1> QED BY <1>2, Invariance, ExchangesAreSingle, PTL DEF Spec, UnsavedNotReplayed

-----------------------------------------------------------------------------
(* An uncertain exchange can be recovered from. *)

\* While no lock was lost, one refresh runs at a time, and a first exchange
\* runs on an account that is not uncertain.
Locked ==
    faults.losses = 0 =>
        \A p \in Procs :
            /\ proc[p].pc # "idle" => lock = p
            /\ Active(proc[p]) /\ ~proc[p].replay /\ proc[p].token = acct.token =>
                   acct.status # "exchange_uncertain"

Settles(q, t) == q.pc \in {"restoring", "failing"} /\ q.token = t

Recoverable == Locked /\ UncertainRecoverable

\* A step of a refresh while it holds the lock, or takes it: no other refresh
\* runs.  A first exchange finds and leaves the account certain.
LEMMA LockKept ==
    ASSUME IInv, Locked, NEW p \in Procs, proc[p].pc # "idle" \/ lock = None,
           \A q \in Procs \ {p} : proc'[q] = proc[q], UNCHANGED faults,
           proc'[p].pc # "idle" => lock' = p \/ (proc[p].pc # "idle" /\ lock' = lock),
           Active(proc'[p]) /\ ~proc'[p].replay /\ proc'[p].token = acct'.token =>
               acct'.status # "exchange_uncertain" \/ faults.losses # 0
    PROVE  Locked'
<1> SUFFICES ASSUME faults'.losses = 0, NEW q \in Procs
             PROVE  /\ proc'[q].pc # "idle" => lock' = q
                    /\ Active(proc'[q]) /\ ~proc'[q].replay /\ proc'[q].token = acct'.token =>
                           acct'.status # "exchange_uncertain"
  BY DEF Locked
<1>1. faults.losses = 0
  OBVIOUS
<1>2. CASE q = p
  BY <1>1, <1>2 DEF Locked
<1>3. CASE q # p
  <2>1. proc[q].pc = "idle"
    BY <1>1, <1>3, ExchangeAssumption DEF Locked
  <2>2. proc'[q].pc = "idle"
    BY <1>3, <2>1
  <2> QED BY <2>2 DEF Active
<1> QED BY <1>2, <1>3

\* The intent stays, and only an account with an intent becomes uncertain; the
\* refresh that moves was not to settle the status, or did.
LEMMA KeepsRecoverable ==
    ASSUME IInv, UncertainRecoverable, NEW p \in Procs,
           \A q \in Procs \ {p} : proc'[q] = proc[q], UNCHANGED faults,
           acct'.token = acct.token, stranded => stranded',
           IntentFor(acct.token) => intent' # None /\ intent'.token = acct.token,
           acct'.status = "exchange_uncertain" =>
               acct.status = "exchange_uncertain" \/ IntentFor(acct.token),
           Settles(proc[p], acct.token) =>
               acct'.status # "exchange_uncertain" \/ stranded' \/ Settles(proc'[p], acct.token)
    PROVE  UncertainRecoverable'
<1> SUFFICES ASSUME acct'.status = "exchange_uncertain", faults'.losses = 0, ~stranded'
             PROVE  \/ intent' # None /\ intent'.token = acct'.token
                    \/ \E q \in Procs : Settles(proc'[q], acct'.token)
  BY DEF UncertainRecoverable, IntentFor, Settles
<1>1. CASE IntentFor(acct.token)
  BY <1>1
<1>2. CASE ~IntentFor(acct.token)
  <2>1. PICK q \in Procs : Settles(proc[q], acct.token)
    BY <1>2 DEF UncertainRecoverable, Settles
  <2>2. Settles(proc'[q], acct'.token)
    <3>1. CASE q = p
      BY <2>1, <3>1
    <3>2. CASE q # p
      <4>1. proc'[q] = proc[q]
        BY <3>2
      <4> QED BY <2>1, <4>1
    <3> QED BY <3>1, <3>2
  <2> QED BY <2>2
<1> QED BY <1>1, <1>2

\* Steps of a refresh that read or end, without a word on the intent.
LEMMA QuietRecoverable ==
    ASSUME IInv, Recoverable, NEW p \in Procs,
           \/ Reload(p) \/ NoIntent(p) \/ OtherIntent(p) \/ SameIntent(p) \/ BeginFails(p)
           \/ RestoreStatus(p) \/ RequireReauth(p) \/ MarkExchangeUncertain(p)
    PROVE  Recoverable'
<1>1. /\ \A q \in Procs \ {p} : proc'[q] = proc[q]
      /\ proc'[p].pc \in {"checking", "begin", "idle"}
      /\ acct'.token = acct.token /\ intent' = intent
  BY QuietMoves
<1>2. UNCHANGED <<faults, stranded>>
  BY DEF Reload, NoIntent, OtherIntent, SameIntent, BeginFails, RestoreStatus, RequireReauth,
         MarkExchangeUncertain, history
<1>3. proc[p].pc # "idle" \/ lock = None
  BY DEF Reload, NoIntent, OtherIntent, SameIntent, BeginFails, RestoreStatus, RequireReauth,
         MarkExchangeUncertain
<1>4. proc'[p].pc # "idle" => lock' = p \/ (proc[p].pc # "idle" /\ lock' = lock)
  <2>1. ASSUME Done(p) PROVE proc'[p].pc = "idle"
    BY <2>1 DEF Done, Idle, IInv, TypeOK
  <2> QED BY <2>1
        DEF Reload, NoIntent, OtherIntent, SameIntent, BeginFails, RestoreStatus, RequireReauth,
            MarkExchangeUncertain, Goes
<1>5. Locked'
  BY <1>1, <1>2, <1>3, <1>4, LockKept DEF Recoverable, Active
<1>6. /\ acct'.status = "exchange_uncertain" =>
           acct.status = "exchange_uncertain" \/ IntentFor(acct.token)
      /\ Settles(proc[p], acct.token) => acct'.status # "exchange_uncertain"
  BY DEF Reload, NoIntent, OtherIntent, SameIntent, BeginFails, RestoreStatus, RequireReauth,
         MarkExchangeUncertain, MarkUncertain, UpdateStatus, database, Settles, IInv, TypeOK
<1>7. UncertainRecoverable'
  BY <1>1, <1>2, <1>6, KeepsRecoverable DEF Recoverable, IntentFor
<1> QED BY <1>5, <1>7 DEF Recoverable

\* The exchange goes on, or its outcome is stored or lost.
LEMMA ExchangeRecoverable ==
    ASSUME IInv, Recoverable, NEW p \in Procs,
           \/ BeginExchange(p) \/ Send(p) \/ AnswerTimeout(p) \/ UpdateTokens(p) \/ NotSaved(p)
           \/ MarkExchangeUnsaved(p)
    PROVE  Recoverable'
<1>0. /\ proc \in [Procs -> Refreshes] /\ UNCHANGED <<faults, stranded>>
      /\ proc[p].pc \in {"begin", "ready", "sent", "answered", "unsaved"}
      /\ ~Settles(proc[p], acct.token) /\ proc[p].pc # "idle"
      /\ acct \in [token: Tokens, status: Statuses]
  BY DEF BeginExchange, Send, AnswerTimeout, UpdateTokens, NotSaved, MarkExchangeUnsaved, history,
         Settles, IInv, TypeOK
<1>1. ASSUME Done(p) PROVE (\A q \in Procs \ {p} : proc'[q] = proc[q]) /\ proc'[p].pc = "idle"
  BY <1>0, <1>1 DEF Done, Idle
<1>2. ASSUME NEW pc, Goes(p, pc)
      PROVE  /\ \A q \in Procs \ {p} : proc'[q] = proc[q]
             /\ proc'[p].token = proc[p].token /\ proc'[p].replay = proc[p].replay /\ lock' = lock
  BY <1>0, <1>2 DEF Goes, Refreshes
<1>3. CASE BeginExchange(p)
  <2>1. /\ UNCHANGED <<lock, acct>>
        /\ ~proc[p].replay => acct.status # "exchange_uncertain"
        /\ proc'[p].token = acct.token
        /\ \A q \in Procs \ {p} : proc'[q] = proc[q]
        /\ proc'[p].replay = proc[p].replay
    BY <1>0, <1>3 DEF BeginExchange, CanBegin, Refreshes
  <2>2. Locked'
    BY <1>0, <2>1, LockKept DEF Recoverable
  <2>3. intent' # None /\ intent'.token = acct.token
    BY <1>3, BeginIntent, NoIntentAssumption DEF BeginExchange, CanBegin
  <2>4. UncertainRecoverable'
    BY <2>1, <2>3 DEF UncertainRecoverable, IntentFor
  <2> QED BY <2>2, <2>4 DEF Recoverable
<1>4. CASE Send(p) \/ AnswerTimeout(p) \/ NotSaved(p) \/ (UpdateTokens(p) /\ UNCHANGED database)
  <2>1. Active(proc[p]) /\ UNCHANGED <<acct, intent>>
    BY <1>4 DEF Send, AnswerTimeout, NotSaved, UpdateTokens, database, Active
  <2>2. /\ \A q \in Procs \ {p} : proc'[q] = proc[q]
        /\ \/ /\ proc'[p].token = proc[p].token /\ proc'[p].replay = proc[p].replay
              /\ lock' = lock
           \/ proc'[p].pc = "idle"
    <3>1. CASE Send(p) \/ NotSaved(p)
      BY <1>2, <3>1 DEF Send, NotSaved
    <3>2. CASE AnswerTimeout(p)
      BY <1>0, <3>2 DEF AnswerTimeout, Refreshes
    <3>3. CASE UpdateTokens(p)
      BY <1>1, <1>2, <3>3 DEF UpdateTokens
    <3> QED BY <1>4, <3>1, <3>2, <3>3
  <2>3. Locked'
    BY <1>0, <2>1, <2>2, LockKept DEF Recoverable, Locked, Active
  <2>4. UncertainRecoverable'
    BY <1>0, <2>1, <2>2, KeepsRecoverable DEF Recoverable, IntentFor
  <2> QED BY <2>3, <2>4 DEF Recoverable
<1>5. CASE UpdateTokens(p) /\ ~UNCHANGED database
  <2>1. Done(p) /\ acct'.status = "active"
    BY <1>5 DEF UpdateTokens
  <2>2. Locked'
    BY <1>0, <1>1, <2>1, LockKept DEF Recoverable, Active
  <2> QED BY <2>1, <2>2 DEF Recoverable, UncertainRecoverable
<1>6. CASE MarkExchangeUnsaved(p)
  <2>1. Done(p) /\ acct'.token = acct.token
    BY <1>0, <1>6 DEF MarkExchangeUnsaved, MarkUncertain, UpdateStatus
  <2>2. Locked'
    BY <1>0, <1>1, <2>1, LockKept DEF Recoverable, Active
  <2>3. IntentFor(acct.token) => intent' # None /\ intent'.token = acct.token
    <3>1. intent \in Intents =>
            [intent EXCEPT !.reason = "unsaved"] \in Intents
            /\ [intent EXCEPT !.reason = "unsaved"].token = intent.token
      BY DEF Intents, Reasons
    <3> QED BY <1>6, <3>1, NoIntentAssumption, TypesOf
          DEF MarkExchangeUnsaved, MarkUnsaved, IntentFor
  <2>4. acct'.status = "exchange_uncertain" =>
          acct.status = "exchange_uncertain" \/ IntentFor(acct.token)
    BY <1>6 DEF MarkExchangeUnsaved, MarkUncertain, UpdateStatus
  <2>5. UncertainRecoverable'
    BY <1>0, <1>1, <2>1, <2>3, <2>4, KeepsRecoverable DEF Recoverable
  <2> QED BY <2>2, <2>5 DEF Recoverable
<1> QED BY <1>3, <1>4, <1>5, <1>6

\* Where an abort removes the intent of an uncertain account, the refresh is
\* about to settle the status.
LEMMA AbortRecoverable ==
    ASSUME IInv, Recoverable, NEW p \in Procs, AbortExchange(p) \/ AbortDead(p)
    PROVE  Recoverable'
<1>0. /\ proc \in [Procs -> Refreshes] /\ UNCHANGED <<faults, stranded, acct>>
      /\ Active(proc[p]) /\ proc[p].pc # "idle" /\ ~Settles(proc[p], acct.token)
      /\ intent' = Aborted(proc[p].token)
  BY DEF AbortExchange, AbortDead, history, Active, Settles, IInv, TypeOK
<1>1. /\ \A q \in Procs \ {p} : proc'[q] = proc[q]
      /\ \/ /\ proc'[p].pc \in {"restoring", "failing"} /\ proc'[p].token = proc[p].token
            /\ lock' = lock
         \/ proc'[p].pc = "idle" /\ ~proc[p].replay
  <2>1. ASSUME NEW pc \in {"restoring", "failing"}, Goes(p, pc)
        PROVE  /\ \A q \in Procs \ {p} : proc'[q] = proc[q]
               /\ proc'[p].pc = pc /\ proc'[p].token = proc[p].token /\ lock' = lock
    BY <1>0, <2>1 DEF Goes, Refreshes
  <2>2. ASSUME Done(p) PROVE (\A q \in Procs \ {p} : proc'[q] = proc[q]) /\ proc'[p].pc = "idle"
    BY <1>0, <2>2 DEF Done, Idle
  <2> QED BY <2>1, <2>2 DEF AbortExchange, AbortDead
<1>2. Locked'
  BY <1>0, <1>1, LockKept DEF Recoverable, Active
<1>3. CASE proc[p].token # acct.token
  <2>1. intent' = intent
    BY <1>0, <1>3, TypesOf DEF Aborted, IntentFor
  <2> QED BY <1>0, <1>1, <1>2, <2>1, KeepsRecoverable DEF Recoverable, IntentFor
<1>4. CASE proc[p].token = acct.token
  <2>1. CASE Settles(proc'[p], acct.token)
    BY <1>0, <1>2, <2>1 DEF Recoverable, UncertainRecoverable, Settles
  <2>2. CASE ~Settles(proc'[p], acct.token)
    <3>1. faults'.losses = 0 => acct'.status # "exchange_uncertain"
      BY <1>0, <1>1, <1>4, <2>2 DEF Settles, Recoverable, Locked
    <3> QED BY <1>2, <3>1 DEF Recoverable, UncertainRecoverable
  <2> QED BY <2>1, <2>2
<1> QED BY <1>3, <1>4

\* A crash forgets the refresh that was to settle the status: stranded.
LEMMA FaultRecoverable ==
    ASSUME IInv, Recoverable, (\E p \in Procs : Crash(p)) \/ LoseLock
    PROVE  Recoverable'
<1>1. ASSUME NEW p \in Procs, Crash(p) PROVE Recoverable'
  <2>1. /\ \A q \in Procs \ {p} : proc'[q] = proc[q]
        /\ proc'[p].pc = "idle" /\ UNCHANGED <<acct, intent>>
        /\ faults'.losses = faults.losses /\ proc[p].pc # "idle"
        /\ lock' = (IF lock = p THEN None ELSE lock)
    BY <1>1 DEF Crash, Done, Idle, database, IInv, TypeOK
  <2>2. (stranded \/ Settles(proc[p], acct.token)) => stranded'
    BY <1>1 DEF Crash, Settles
  <2>3. Locked'
    <3>1. \A q \in Procs : faults.losses = 0 /\ q # p => proc'[q].pc = "idle"
      BY <2>1 DEF Recoverable, Locked
    <3> QED BY <2>1, <3>1 DEF Locked, Active
  <2>4. UncertainRecoverable'
    <3> SUFFICES ASSUME acct.status = "exchange_uncertain", faults.losses = 0, ~stranded',
                        ~IntentFor(acct.token)
                 PROVE  \E q \in Procs : Settles(proc'[q], acct.token)
      BY <2>1 DEF UncertainRecoverable, IntentFor, Settles
    <3>1. PICK q \in Procs : Settles(proc[q], acct.token)
      BY <2>2 DEF Recoverable, UncertainRecoverable, Settles
    <3>2. q # p
      BY <2>2, <3>1
    <3>3. Settles(proc'[q], acct.token)
      BY <2>1, <3>1, <3>2
    <3> QED BY <3>3
  <2> QED BY <2>3, <2>4 DEF Recoverable
<1>2. CASE LoseLock
  <2>1. faults'.losses # 0
    <3>1. faults.losses \in Nat /\ faults'.losses = faults.losses + 1
      BY <1>2 DEF LoseLock, IInv, TypeOK
    <3> QED BY <3>1
  <2> QED BY <2>1 DEF Recoverable, Locked, UncertainRecoverable
<1> QED BY <1>1, <1>2

\* The provider's answers reach only a refresh that waits.
LEMMA ProviderRecoverable ==
    ASSUME IInv, Recoverable, NEW w \in wire, NEW answer, NEW n, Answered(w, answer, n)
    PROVE  Recoverable'
<1> DEFINE p == w.by
<1>0. /\ proc \in [Procs -> Refreshes] /\ UNCHANGED <<lock, faults, stranded, acct, intent>>
      /\ p \in Procs
  BY TypesOf DEF Answered, IInv, TypeOK, database, history
<1>1. CASE ~Waiting(w)
  BY <1>0, <1>1 DEF Answered, Recoverable, Locked, UncertainRecoverable, IntentFor
<1>2. CASE Waiting(w)
  <2>1. /\ proc[p].pc = "sent"
        /\ proc' = [proc EXCEPT ![p].pc = "answered", ![p].answer = answer, ![p].new = n]
    BY <1>2 DEF Answered, Waiting
  <2>2. /\ \A q \in Procs \ {p} : proc'[q] = proc[q]
        /\ proc'[p].token = proc[p].token /\ proc'[p].replay = proc[p].replay
    BY <1>0, <2>1 DEF Refreshes
  <2>3. Active(proc[p]) /\ ~Settles(proc[p], acct.token) /\ proc[p].pc # "idle"
    BY <2>1 DEF Active, Settles
  <2>4. Locked'
    BY <1>0, <2>2, <2>3, LockKept DEF Recoverable, Locked
  <2>5. UncertainRecoverable'
    BY <1>0, <2>2, <2>3, KeepsRecoverable DEF Recoverable, IntentFor
  <2> QED BY <2>4, <2>5 DEF Recoverable
<1> QED BY <1>1, <1>2

\* Logins, resets and the clock.
LEMMA OthersRecoverable ==
    ASSUME IInv, Recoverable,
           \/ Relogin \/ ClearExchangeIntent \/ AutoResetExchangeIntent \/ TokensLost \/ Tick
           \/ UNCHANGED vars
    PROVE  Recoverable'
<1>1. CASE Relogin \/ ClearExchangeIntent \/ TokensLost
  <2>1. UNCHANGED <<proc, lock, faults>> /\ acct'.status # "exchange_uncertain"
    BY <1>1 DEF Relogin, ClearExchangeIntent, TokensLost, UpdateStatus, history, IInv, TypeOK
  <2> QED BY <2>1 DEF Recoverable, Locked, UncertainRecoverable
<1>2. CASE AutoResetExchangeIntent
  <2>1. UNCHANGED <<proc, lock, acct, faults, stranded>>
    BY <1>2 DEF AutoResetExchangeIntent, history
  <2>2. intent' # None /\ intent'.token = acct.token
    BY <1>2, OperatorIntent, NoIntentAssumption DEF AutoResetExchangeIntent, IntentFor
  <2> QED BY <2>1, <2>2 DEF Recoverable, Locked, UncertainRecoverable, IntentFor
<1>3. CASE Tick \/ UNCHANGED vars
  BY <1>3 DEF Tick, vars, database, history, Recoverable, Locked, UncertainRecoverable, IntentFor
<1> QED BY <1>1, <1>2, <1>3

\* A report is about an account that is not uncertain.
LEMMA ReportRecoverable ==
    ASSUME IInv, Recoverable, NEW t \in refused, MarkPermanentFailure(t)
    PROVE  Recoverable'
<1>1. UNCHANGED <<proc, lock, faults>> /\ acct'.status # "exchange_uncertain"
  BY DEF MarkPermanentFailure, IInv, TypeOK
<1> QED BY <1>1 DEF Recoverable, Locked, UncertainRecoverable

LEMMA NextRecoverable == IInv /\ Recoverable /\ [Next]_vars => Recoverable'
<1> SUFFICES ASSUME IInv, Recoverable, [Next]_vars PROVE Recoverable'
  OBVIOUS
<1>1. ASSUME NEW p \in Procs, RefreshStep(p) PROVE Recoverable'
  BY <1>1, QuietRecoverable, ExchangeRecoverable, AbortRecoverable, FaultRecoverable DEF RefreshStep
<1>2. CASE ProviderStep
  BY <1>2, ProviderRecoverable DEF ProviderStep, ProviderExchanges, ProviderRefuses
<1>3. CASE LoseLock
  BY <1>3, FaultRecoverable
<1>4. CASE Relogin \/ ClearExchangeIntent \/ AutoResetExchangeIntent \/ TokensLost \/ Tick
           \/ UNCHANGED vars
  BY <1>4, OthersRecoverable
<1>5. ASSUME NEW t \in refused, MarkPermanentFailure(t) PROVE Recoverable'
  BY <1>5, ReportRecoverable
<1> QED BY <1>1, <1>2, <1>3, <1>4, <1>5 DEF Next

LEMMA InitRecoverable == Init => Recoverable
  BY DEF Init, Idle, Active, Recoverable, Locked, UncertainRecoverable

\* As long as locks are kept, an account whose exchange is uncertain has the
\* intent that a replay or a reset needs, or a refresh is about to settle its
\* status; a crash between the two writes of an abort is the only exception
\* (abort_exchange, update_status).
THEOREM UncertainHasAWayOut == Spec => []UncertainRecoverable
<1>1. Recoverable => UncertainRecoverable
  BY DEF Recoverable
<1> QED BY <1>1, InitRecoverable, NextRecoverable, Invariance, PTL DEF Spec

=============================================================================
