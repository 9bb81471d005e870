------------------------- MODULE MCAccountTransfers -------------------------
(* Instances of AccountTransfers for TLC. *)
EXTENDS AccountTransfers

CONSTANTS o1, o2

\* Nothing is claimed of what follows a torn transaction: TLC stops there.
Untorn == ~torn
=============================================================================
