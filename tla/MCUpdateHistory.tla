--------------------------- MODULE MCUpdateHistory ---------------------------
(* UpdateHistory on a small instance. *)
EXTENDS UpdateHistory

CONSTANTS a1, a2

\* Addresses are only compared for equality.
Symmetry == Permutations(Addrs)
=============================================================================
