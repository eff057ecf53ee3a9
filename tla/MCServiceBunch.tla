--------------------------- MODULE MCServiceBunch ---------------------------
(* ServiceBunch on small instances. *)
EXTENDS BunchContract

CONSTANTS a1, a2

\* Addresses are only compared for equality.
Symmetry == Permutations(Addrs)
=============================================================================
