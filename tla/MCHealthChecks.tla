---------------------------- MODULE MCHealthChecks ----------------------------
(* HealthChecks on small instances. *)
EXTENDS HealthChecks

CONSTANTS a1, a2
=============================================================================
