---------------------------- MODULE BunchContract ----------------------------
(***************************************************************************)
(* A service bunch keeps the promise stated in Supervisor.  A unit is kept *)
(* while its connection is in one of the two vectors; it is told of as     *)
(* gone by UnitReplaced and UnitsDespawned (UnitDespawned names the        *)
(* address of another unit, mod.rs:350, and promises nothing).             *)
(***************************************************************************)
EXTENDS ServiceBunch

\* Where the bunch stands, as its controller may see it.
Mode ==
    IF pc = "new" THEN "off"
    ELSE IF ~Alive THEN "over"
    ELSE IF run_ok /\ state \in {"Running", "Updating"} THEN "up"
    ELSE "down"

Told == UNION {m.old : m \in {n \in outbox :
                                 n.type \in {"UnitReplaced", "UnitsDespawned"}}}

Contract == INSTANCE Supervisor WITH
                Units    <- Units,
                Needed   <- InstancesCount,
                mode     <- Mode,
                kept     <- Registered,
                released <- DOMAIN units \ Registered,
                told     <- Told

\* Whatever fails, is checked, updated or stopped, in any order: every step of
\* a bunch is one of the contract, or none.  No handler may retire a unit
\* before its replacement is there, take a unit back that it let go of, report
\* one that it keeps, or lose units without giving up.
ImplementsSupervisor == Contract!Spec
=============================================================================
