------------------------------ MODULE OwnerLease ------------------------------
(***************************************************************************)
(* What the durable table promises about a bridge session key, whatever    *)
(* the instances do: a key has at most one owning instance, and whoever    *)
(* takes a key that it does not own takes it under a later token, so that  *)
(* a token never names two owners.  Who gives a key up has looked and      *)
(* found itself the owner, under the token of that moment; only a release  *)
(* that was overtaken between its look and its write takes the row from a  *)
(* later owner.  A token is a pair: which row it is (a purged row is       *)
(* inserted again under a new id) and the owner epoch within the row.      *)
(***************************************************************************)
EXTENDS Naturals

CONSTANTS Keys, Instances, None

VARIABLES
  owner,    \* the owning instance of a key
  token,    \* the token it holds the key under
  leaving   \* the releases that have looked and not yet written
leaseVars == <<owner, token, leaving>>

Tokens == Nat \X Nat

Later(t, u) == t[1] > u[1] \/ (t[1] = u[1] /\ t[2] > u[2])

Init == /\ owner = [k \in Keys |-> None]
        /\ token = [k \in Keys |-> <<0, 0>>]
        /\ leaving = {}

(* An instance takes a key from nobody or from another instance.           *)
Take(k, i) ==
  /\ owner[k] # i
  /\ owner' = [owner EXCEPT ![k] = i]
  /\ token'[k] \in Tokens
  /\ Later(token'[k], token[k])
  /\ token' = [token EXCEPT ![k] = token'[k]]
  /\ UNCHANGED leaving

(* An owner claims its own key once more under a later token; a claim that *)
(* keeps the token changes nothing here.                                   *)
TakeAgain(k, i) ==
  /\ owner[k] = i
  /\ token'[k] \in Tokens
  /\ Later(token'[k], token[k])
  /\ token' = [token EXCEPT ![k] = token'[k]]
  /\ UNCHANGED <<owner, leaving>>

(* An owner finds that it is one, and means to give the key up.            *)
Leave(k, i) ==
  /\ owner[k] = i
  /\ leaving' = leaving \cup {[key |-> k, by |-> i, token |-> token[k]]}
  /\ UNCHANGED <<owner, token>>

(* What was looked at is written, if it is still the same row; two         *)
(* releases of one instance may have looked under the same token.          *)
Yield(w) ==
  /\ token[w.key][1] = w.token[1]
  /\ owner' = [owner EXCEPT ![w.key] = None]
  /\ leaving' \in {leaving, leaving \ {w}}
  /\ UNCHANGED token

(* The write fails, or the row is gone.                                    *)
Forgo(w) ==
  /\ leaving' = leaving \ {w}
  /\ UNCHANGED <<owner, token>>

(* A step concerns one key: also a shutdown, which marks all rows at once, *)
(* gives them up one at a time.                                            *)
Next ==
  \/ \E k \in Keys, i \in Instances : Take(k, i) \/ TakeAgain(k, i) \/ Leave(k, i)
  \/ \E w \in leaving : Yield(w) \/ Forgo(w)

Spec == Init /\ [][Next]_leaseVars
===============================================================================
