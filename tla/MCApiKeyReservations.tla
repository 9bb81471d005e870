------------------------ MODULE MCApiKeyReservations ------------------------
(* Instances of ApiKeyReservations for TLC. *)
EXTENDS ApiKeyReservations

CONSTANTS r1, r2, global, scoped

\* The requests compete for the global limit; a model-scoped limit, where
\* there is one, applies to all requests but the first.
EveryLimit == [r \in Reservations |-> Limits]
ScopedToLater == [r \in Reservations |-> IF r = r1 THEN {global} ELSE Limits]

=============================================================================
