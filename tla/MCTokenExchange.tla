-------------------------- MODULE MCTokenExchange --------------------------
(* Instances of TokenExchange for TLC. *)
EXTENDS TokenExchange, TLC

CONSTANTS p1, p2

AnyProcess == Permutations(Procs)
=============================================================================
