-------------------------- MODULE MCManagedService --------------------------
(* ManagedService on small instances. *)
EXTENDS ManagedService

CONSTANTS a1, a2

\* The text of the first address is part of the second's.
Nested == {<<a1, a2>>}
=============================================================================
