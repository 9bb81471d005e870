-------------------------- MODULE MCAccountLeases --------------------------
(* Instances of AccountLeases for TLC. *)
EXTENDS AccountLeases

CONSTANTS a1, a2, r1, r2

\* Every request streams.
AllStream == [r \in Requests |-> "stream"]

\* Different estimates, so that a wrong lease shows in the token sums.
Estimates == [r \in Requests |-> IF r = r1 THEN 2 ELSE 1]

\* All accounts are of one provider and serve everything.
EveryAccount == [r \in Requests |-> Accounts]

\* One request sees only the first account: the token of the other, a mirror,
\* had expired when it loaded.
FirstOnly == [r \in Requests |-> IF r = r1 THEN {a1} ELSE Accounts]

OnePerKind == [k \in Kinds |-> 1]

=============================================================================
