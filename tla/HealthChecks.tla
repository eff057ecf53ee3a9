----------------------------- MODULE HealthChecks -----------------------------
(***************************************************************************)
(* The tasks that check the health of one service's units: which of them   *)
(* the controller starts, and to which bunch they report.                  *)
(*                                                                         *)
(* A task is bound to an address and to the bunch that was listed first    *)
(* when it was started.  It runs until its command fails once, and is      *)
(* never cancelled: not when its unit is replaced, nor when its bunch      *)
(* ends.  Whether a unit is watched is thus a matter of numbers: an        *)
(* address with two units needs two tasks.                                 *)
(***************************************************************************)
EXTENDS Naturals, FiniteSets, Bags, SequencesExt

CONSTANTS
    Addrs,        \* addresses of units
    Instances,    \* what instances_count may be
    MaxStarts,    \* bound: units that commands start
    MaxIncidents  \* bound: starts after the first, units that exit or sicken, updates
                  \* requested or given up, checks that cannot be run, together

ASSUME InstancesAssumption == Instances \subseteq Nat \ {0}
ASSUME MaxIncidentsAssumption == MaxIncidents \in Nat

VARIABLES
    instances_count, \* how many units are configured
    connections, \* bunch_connections of the service, as bunches
    bunches,     \* every bunch ever made
    reports,     \* the bag of reports on the way to the controller
    checks,      \* the bag of tasks that check
    failed,      \* the bag of HealthCheckFailed on the way to a bunch
    excused,     \* history: see WatchedOrExcused
    incidents    \* what was spent of the bound

vars == <<instances_count, connections, bunches, reports, checks, failed, excused,
          incidents>>

\* Things that are bounded happen, n of them.
Incidents(n) == incidents + n <= MaxIncidents /\ incidents' = incidents + n

Incident == Incidents(1)

-----------------------------------------------------------------------------
(* Data. *)

\* A check of a unit that is "failing" fails; a unit that is "silent" lets the check
\* connect and never answers, and the check, which has no time limit, does not end.
Unit == [addr : Addrs, health : {"well", "failing", "silent"}]

NewUnit(a) == [addr |-> a, health |-> "well"]

\* unheard: units retired after they had exited, whose error is still to come.
Bunch == [at : {"running", "rolling", "over"}, stable : Seq(Unit), new : Seq(Unit),
          unheard : Nat]

Report == [from : Nat, came : SUBSET Addrs]
Task   == [addr : Addrs, to : Nat]

Up(b) == bunches[b].at # "over"

At(units, a) == {i \in DOMAIN units : units[i].addr = a}

InUse(bs, b, a) == At(bs[b].stable, a) # {} \/ At(bs[b].new, a) # {}

\* An address is excused as long as it is in use.
Excuse(some) ==
    excused' = {e \in excused \cup some : InUse(bunches', e[1], e[2])}

Tell(b, came) == reports' = reports (+) SetToBag({[from |-> b, came |-> came]})

Tasks(addrs, b) == SetToBag({[addr |-> a, to |-> b] : a \in addrs})

-----------------------------------------------------------------------------
(* The controller. *)

\* Variant: whether there is a connection is not looked at.
start_health_check_tasks_Blind(addrs) ==
    checks' = checks (+) Tasks(addrs, IF connections = <<>> THEN 0
                                      ELSE Head(connections))

\* A task for each address, if the service is listed; they report to the bunch
\* that is listed first.  (Tasks of a bunch that is over can reach nobody, and are
\* left out.)
start_health_check_tasks(addrs) ==
    checks' = IF connections = <<>> \/ ~Up(Head(connections)) THEN checks
              ELSE checks (+) Tasks(addrs, Head(connections))

\* Within the bounds a command may start the service, listed or not.
MayStart == /\ (Len(bunches) + 1) * instances_count <= MaxStarts
            /\ IF bunches = <<>> THEN UNCHANGED incidents ELSE Incident

\* spawn: run finds an address for every unit and sends UnitsSpawned; the checks
\* are started, before the connection is pushed.  Or a connection to the control
\* socket cuts the wait for the update script short, and the bunch is dropped.
Start ==
    /\ MayStart
    /\ \E addrs \in [1..instances_count -> Addrs] :
          LET b == Len(bunches) + 1
              units == [i \in DOMAIN addrs |-> NewUnit(addrs[i])]
          IN
          /\ IsInjective(addrs)
          /\ start_health_check_tasks(ToSet(addrs))
          /\ Tell(b, ToSet(addrs))
          /\ \/ /\ bunches' = Append(bunches, [at |-> "running", stable |-> units,
                                               new |-> <<>>, unheard |-> 0])
                /\ connections' = Append(connections, b)
             \/ /\ bunches' = Append(bunches, [at |-> "over", stable |-> <<>>,
                                               new |-> <<>>, unheard |-> 0])
                /\ UNCHANGED connections
    /\ UNCHANGED <<instances_count, failed, excused>>

\* run fails: there is no address, or a process cannot be spawned.  The bunch is
\* listed all the same, and ends, once the units spawned before are asked to stop.
StartFails ==
    /\ MayStart
    /\ bunches' = Append(bunches, [at |-> "over", stable |-> <<>>, new |-> <<>>,
                                   unheard |-> 0])
    /\ connections' = Append(connections, Len(bunches) + 1)
    /\ UNCHANGED <<instances_count, reports, checks, failed, excused>>

\* despawn: the oldest connection is taken from the list.  (Its bunch ends.)
Stop ==
    /\ connections # <<>>
    /\ connections' = Tail(connections)
    /\ UNCHANGED <<instances_count, bunches, reports, checks, failed, excused,
                   incidents>>

\* UnitSpawned, UnitsSpawned or UnitReplaced.
TakeReport(r) ==
    /\ BagIn(r, reports)
    /\ reports' = reports (-) SetToBag({r})
    /\ start_health_check_tasks(r.came)
    /\ UNCHANGED <<instances_count, connections, bunches, failed, incidents>>
    /\ Excuse(IF connections # <<>> /\ Head(connections) = r.from THEN {}
              ELSE {<<r.from, a>> : a \in r.came})

-----------------------------------------------------------------------------
(* The tasks. *)

\* The command fails: this is reported, and the task ends.
CheckFails(c) ==
    /\ BagIn(c, checks)
    /\ checks' = checks (-) SetToBag({c})
    /\ failed' = failed (+) SetToBag({c})
    /\ UNCHANGED <<instances_count, connections, bunches, reports, excused,
                   incidents>>

\* It cannot be run, or not be waited for: the task ends.
CheckBreaks(c) ==
    /\ BagIn(c, checks)
    /\ Incident
    /\ checks' = checks (-) SetToBag({c})
    /\ UNCHANGED <<instances_count, connections, bunches, reports, failed>>
    /\ Excuse({<<c.to, c.addr>>})

-----------------------------------------------------------------------------
(* The bunches (mod.rs). *)

\* Variant: the last unit with that address.
FirstAt_Last(units, a) == CHOOSE i \in At(units, a) : \A j \in At(units, a) : i >= j

\* stable_connections.iter().find(addr).
FirstAt(units, a) == CHOOSE i \in At(units, a) : \A j \in At(units, a) : i <= j

\* Variant: the new unit is not reported.
Replace_Silent(b, i, a) ==
    /\ bunches' = [bunches EXCEPT
          ![b].stable = Append(RemoveAt(@, i), NewUnit(a))]
    /\ UNCHANGED reports

\* Another unit is started in place of a stable one, and UnitReplaced is sent.
Replace(b, i, a) ==
    /\ bunches' = [bunches EXCEPT
          ![b].stable = Append(RemoveAt(@, i), NewUnit(a))]
    /\ Tell(b, {a})

\* A stable unit exits with an error.
UnitExits(b) ==
    /\ bunches[b].at = "running"
    /\ Incident
    /\ \E i \in DOMAIN bunches[b].stable : \E a \in Addrs : Replace(b, i, a)
    /\ Excuse({})
    /\ UNCHANGED <<instances_count, connections, checks, failed>>

\* The error of a unit that is not stable: one that was retired, or one of an
\* update that was given up.  It is restarted too, in place of nothing, and the
\* new unit is reported to nobody.
UnlistedExits(b) ==
    /\ bunches[b].at = "running"
    /\ \E a \in Addrs :
          /\ \/ /\ bunches[b].unheard > 0
                /\ bunches' = [bunches EXCEPT ![b].stable = Append(@, NewUnit(a)),
                                              ![b].unheard = @ - 1]
                /\ UNCHANGED incidents
             \/ /\ bunches[b].new # <<>>
                /\ Incident
                /\ bunches' = [bunches EXCEPT ![b].stable = Append(@, NewUnit(a))]
          /\ Excuse({<<b, a>>})
    /\ UNCHANGED <<instances_count, connections, reports, checks, failed>>

\* HealthCheckFailed: a unit left over from an update only stops that update; a
\* stable one is replaced; or there is none any more.
HandleFailed(b, m) ==
    /\ bunches[b].at = "running"
    /\ m.to = b
    /\ BagIn(m, failed)
    /\ failed' = failed (-) SetToBag({m})
    /\ LET stable == bunches[b].stable IN
       \/ /\ At(bunches[b].new, m.addr) # {}
          /\ UNCHANGED <<bunches, reports>>
          /\ Excuse({<<b, m.addr>>})
       \/ /\ At(bunches[b].new, m.addr) = {}
          /\ At(stable, m.addr) # {}
          /\ \E a \in Addrs : Replace(b, FirstAt(stable, m.addr), a)
          /\ Excuse({})
       \/ /\ ~InUse(bunches, b, m.addr)
          /\ UNCHANGED <<bunches, reports, excused>>
    /\ UNCHANGED <<instances_count, connections, checks, incidents>>

\* start_update, up to its sleep.
StartUpdate(b) ==
    /\ bunches[b].at = "running"
    /\ Incident
    /\ \E a \in Addrs :
          /\ bunches' = [bunches EXCEPT ![b].at = "rolling",
                                        ![b].new = Append(@, NewUnit(a))]
          /\ Tell(b, {a})
    /\ UNCHANGED <<instances_count, connections, checks, failed, excused>>

\* From sleep to sleep, or to the end of the update, which may be given up; the
\* unit that is retired may have exited before.  (UnitDespawned starts no check.)
Roll(b) ==
    /\ bunches[b].at = "rolling"
    /\ LET stable == bunches[b].stable
           rest == Front(stable)
           new == bunches[b].new
       IN
       \E gone \in {0, 1} :
          \/ /\ Len(stable) > 1
             /\ Incidents(gone)
             /\ \E a \in Addrs :
                   /\ bunches' = [bunches EXCEPT
                         ![b].stable = rest, ![b].new = Append(@, NewUnit(a)),
                         ![b].unheard = @ + gone]
                   /\ Tell(b, {a})
          \/ /\ Len(stable) > 1
             /\ Incidents(gone + 1)
             /\ bunches' = [bunches EXCEPT
                   ![b].stable = rest, ![b].at = "running", ![b].unheard = @ + gone]
             /\ UNCHANGED reports
          \/ /\ Len(stable) = 1
             /\ Incidents(gone)
             /\ bunches' = [bunches EXCEPT
                   ![b].stable = new, ![b].new = <<>>, ![b].at = "running",
                   ![b].unheard = @ + gone]
             /\ UNCHANGED reports
    /\ Excuse({})
    /\ UNCHANGED <<instances_count, connections, checks, failed>>

\* Shutdown, failures beyond the limit, or a panic.  A bunch that ended by itself
\* stays listed.
End(b) ==
    /\ Up(b)
    /\ bunches' = [bunches EXCEPT ![b] = [at |-> "over", stable |-> <<>>,
                                          new |-> <<>>, unheard |-> 0]]
    /\ failed' = [m \in {n \in DOMAIN failed : n.to # b} |-> failed[m]]
    /\ checks' = [c \in {d \in DOMAIN checks : d.to # b} |-> checks[c]]
    /\ Excuse({})
    /\ UNCHANGED <<instances_count, connections, reports, incidents>>

\* A unit no longer does what it should.
Sicken(b) ==
    /\ Incident
    /\ \E health \in {"failing", "silent"} :
          \/ \E i \in DOMAIN bunches[b].stable :
                bunches' = [bunches EXCEPT ![b].stable[i].health = health]
          \/ \E i \in DOMAIN bunches[b].new :
                bunches' = [bunches EXCEPT ![b].new[i].health = health]
    /\ UNCHANGED <<instances_count, connections, reports, checks, failed, excused>>

\* Nothing has to happen: everything that was reported is handled.
Rest ==
    /\ reports = EmptyBag
    /\ failed = EmptyBag
    /\ UNCHANGED vars

-----------------------------------------------------------------------------
Init ==
    /\ instances_count \in Instances
    /\ connections = <<>>
    /\ bunches = <<>>
    /\ reports = EmptyBag
    /\ checks = EmptyBag
    /\ failed = EmptyBag
    /\ excused = {}
    /\ incidents = 0

Controller ==
    Start \/ StartFails \/ Stop \/ (\E r \in BagToSet(reports) : TakeReport(r))

Check(c) == CheckFails(c) \/ CheckBreaks(c)

BunchTask(b) == \/ UnitExits(b) \/ UnlistedExits(b) \/ StartUpdate(b) \/ Roll(b)
                \/ End(b) \/ Sicken(b)
                \/ \E m \in BagToSet(failed) : HandleFailed(b, m)

Next == \/ Controller
        \/ \E c \in BagToSet(checks) : Check(c)
        \/ \E b \in DOMAIN bunches : BunchTask(b)
        \/ Rest

Spec == Init /\ [][Next]_vars

\* What there can be to be fair about.
Numbers == 1..MaxStarts
AllTasks == [addr : Addrs, to : Numbers]
AllReports == [from : Numbers, came : (SUBSET Addrs) \ {{}}]

\* A unit of b at a has that health.
Has(b, a, health) ==
    \/ \E i \in At(bunches[b].stable, a) : bunches[b].stable[i].health = health
    \/ \E i \in At(bunches[b].new, a) : bunches[b].new[i].health = health

\* A unit of b at a fails its checks, and no unit of any bunch holds them there.
FailingAt(b, a) ==
    /\ b \in DOMAIN bunches
    /\ Has(b, a, "failing")
    /\ \A c \in DOMAIN bunches : ~Has(c, a, "silent")

(***************************************************************************)
(* Fairness.  Reports arrive and are handled, updates come to an end, and  *)
(* failed checks are looked at.  The command is run again and again, and   *)
(* fails in the end where a unit is failing; but not where one is silent:  *)
(* the task waits for the command without a limit, and the command of this *)
(* repository waits for its answer without one.                            *)
(***************************************************************************)
FairSpec ==
    /\ Spec
    /\ \A r \in AllReports : WF_vars(TakeReport(r))
    /\ \A m \in AllTasks : WF_vars(m.to \in DOMAIN bunches /\ HandleFailed(m.to, m))
    /\ WF_vars(\E c \in AllTasks : FailingAt(c.to, c.addr) /\ CheckFails(c))
    /\ WF_vars(\E b \in DOMAIN bunches : Roll(b))

-----------------------------------------------------------------------------
(* Type invariant. *)

TypeOK ==
    /\ instances_count \in Instances
    /\ bunches \in Seq(Bunch)
    /\ connections \in Seq(DOMAIN bunches)
    /\ IsABag(reports) /\ IsABag(checks) /\ IsABag(failed)
    /\ \A r \in BagToSet(reports) : r \in Report /\ r.from \in DOMAIN bunches
    /\ \A c \in BagToSet(checks) \cup BagToSet(failed) :
          c \in Task /\ c.to \in DOMAIN bunches
    /\ excused \subseteq (DOMAIN bunches) \X Addrs
    /\ incidents \in 0..MaxIncidents

(* Safety. *)

Copies(x, bag) == IF BagIn(x, bag) THEN bag[x] ELSE 0

\* Reports, copy by copy, that will start a task for an address.
Coming(b, a) == {copy \in UNION {{r} \X (1..reports[r]) : r \in DOMAIN reports} :
                    copy[1].from = b /\ a \in copy[1].came}

\* How many ways lead from an address to a unit of b being replaced: tasks that
\* check it, failures on their way, reports that will start a task.
Watches(b, a) ==
    LET task == [addr |-> a, to |-> b] IN
    Copies(task, checks) + Copies(task, failed) + Cardinality(Coming(b, a))

(***************************************************************************)
(* Every unit of a bunch is watched by a task of its own, or one is about  *)
(* to be started, or its failure is on its way, unless its address is      *)
(* excused, that is, while it was in use                                   *)
(*   - a report of its unit was handled while another bunch of the service *)
(*     was listed first (a duplicate, one that has ended, or none),        *)
(*   - its unit was started for one that was not listed, and not reported, *)
(*   - a failure was spent on a unit that an update had left in            *)
(*     new_connections, or                                                 *)
(*   - the command could not be run.                                       *)
(* Tasks that outlive their unit, failures that come late, restarts at the *)
(* same address and updates lose no check.                                 *)
(***************************************************************************)
WatchedOrExcused ==
    \A b \in DOMAIN bunches : \A a \in Addrs :
       (Up(b) /\ <<b, a>> \notin excused) =>
          Cardinality(At(bunches[b].stable, a)) + Cardinality(At(bunches[b].new, a))
             <= Watches(b, a)

(* Liveness. *)

\* Units that fail their checks, which no silent unit holds, at an address that is
\* not excused.
Neglected(b) == \E a \in Addrs : FailingAt(b, a) /\ <<b, a>> \notin excused

\* A unit that fails its checks is replaced, also if others share its address, or its
\* bunch ends, or its address is excused, or a silent unit at its address holds the
\* check.  (Units sicken only so often, so that none is left again and again.)
FailingGoes == \A b \in Numbers : []<>~Neglected(b)
=============================================================================
