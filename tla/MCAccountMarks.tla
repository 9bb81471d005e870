--------------------------- MODULE MCAccountMarks ---------------------------
(* The instance of AccountMarks for TLC. *)
EXTENDS AccountMarks

CONSTANTS a1, r1, r2, kimi

\* All accounts are Kimi's, and all requests ask for them.
AccountsOfKimi == [a \in Accounts |-> kimi]
RequestsForKimi == [r \in Requests |-> kimi]

ShortBackoff == [n \in 1..MaxErrors |-> 1]
=============================================================================
