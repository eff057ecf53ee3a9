---------------------------- MODULE ServiceBunch ----------------------------
(***************************************************************************)
(* A service bunch: the task that runs the instances ("units") of one      *)
(* service, restarts those that fail, stops everything when they fail too  *)
(* often, and replaces them one at a time in a rolling update.  With it    *)
(* are modelled the unit tasks it owns (service_unit.rs), the detached     *)
(* tasks that deliver termination requests, and what the bunch's           *)
(* environment (controller, health-check tasks, the processes themselves)  *)
(* can do to it.                                                           *)
(*                                                                         *)
(* A unit is named by the order of its spawn, which stands for its process *)
(* id.  Everything a handler does before its next await is one step; the   *)
(* awaits of a rolling update (the sleep, the send of UpdateFinished) and  *)
(* the drop of the bunch separate steps, because other tasks run there.    *)
(***************************************************************************)
EXTENDS Naturals, FiniteSets, SequencesExt, StateBox

CONSTANTS
    InstancesCount, \* addresses found for config.instances_count units
    FailsLimit,     \* config.fails_limit
    Transport,      \* config.connect_addr: "tcp" or "unix"
    HealthChecks,   \* config.health_check_exec is set
    Addrs,          \* the addresses a unit can be told to listen on
    MaxUnits,       \* bound: processes spawned; beyond it a spawn fails
    RxCapacity      \* capacity of the bunch's channel (100 in the code)

ASSUME InstancesCountAssumption == InstancesCount \in Nat \ {0}
ASSUME FailsLimitAssumption == FailsLimit \in Nat
ASSUME TransportAssumption == Transport \in {"tcp", "unix"}
ASSUME HealthChecksAssumption == HealthChecks \in BOOLEAN
ASSUME MaxUnitsAssumption == MaxUnits \in Nat \ {0}
ASSUME RxCapacityAssumption == RxCapacity \in Nat \ {0}

VARIABLES
    pc,                 \* where the bunch's task is
    state,              \* ServiceBunch.state
    stable_connections, \* ServiceBunch.stable_connections, as units
    new_connections,    \* ServiceBunch.new_connections, as units
    failure_count,      \* ServiceBunch.failure_count
    minute_over,        \* last_check_time.elapsed() > 60 s
    run_ok,             \* ServiceBunch::run returned Ok
    result,             \* how wait_on ended
    controller_rx,      \* messages queued for the bunch
    senders,            \* who still holds a sender of controller_rx
    outbox,             \* every message for the controller so far
    to_stop,            \* units detached tasks have still to ask to terminate
    units               \* every unit ever spawned

vars == <<pc, state, stable_connections, new_connections, failure_count,
          minute_over, run_ok, result, controller_rx, senders, outbox,
          to_stop, units>>

bunchVars  == <<pc, state, stable_connections, new_connections>>
countVars  == <<failure_count, minute_over>>
envVars    == <<controller_rx, senders>>

-----------------------------------------------------------------------------
(* Data. *)

Units == 1..MaxUnits

\* A unit: its address, the executable it runs, its process ("stopped": it has
\* exited or was sent SIGTERM), its task in the bunch's join_set, whether a
\* termination request is in its channel, and whether its health check has
\* failed (a check ends with its first failure).
UnitVersion == {"Stable", "New"}
Process == {"running", "stopped"}
UnitTask == {"waiting", "ok", "err", "joined", "aborted"}
Unit == [addr : Addrs, version : UnitVersion, proc : Process,
         task : UnitTask, term : BOOLEAN, unhealthy : BOOLEAN]

\* What the bunch can receive.  A health-check failure carries an address.
Notice == [type : {"StartUpdate", "Shutdown"}]
          \cup [type : {"HealthCheckFailed"}, addr : Addrs]

\* What the bunch tells the controller: units gone and units arrived.  Each
\* message is sent by a detached task, so it arrives at any later time and in
\* any order: outbox is the set of those handed over.
Message == [type : {"UnitSpawned", "UnitsSpawned", "UnitDespawned",
                    "UnitsDespawned", "UnitReplaced", "UpdateFinished"},
            old : SUBSET Units, new : SUBSET Units]

Tell(type, old, new) == [type |-> type, old |-> old, new |-> new]

\* The bunch's task has not returned or panicked.
Alive == pc \notin {"dropping", "gone"}

Registered == ToSet(stable_connections) \cup ToSet(new_connections)

-----------------------------------------------------------------------------
(* Addresses. *)

\* find_available_addresses, n of them.  Which addresses are free is not
\* followed here: other programs hold ports too, a process that does not listen
\* yet does not protect its port, and unix names come from the sockN files of a
\* directory.
AddressLists(n) == Injection(1..n, Addrs)

\* Only the read of the socket directory can fail.
AddressLookupFails == Transport = "unix"

-----------------------------------------------------------------------------
(* Units and connections. *)

\* ServiceUnit::new, run, and the join_set task that waits on it.
NewUnit(addr, version) ==
    [addr |-> addr, version |-> version, proc |-> "running",
     task |-> "waiting", term |-> FALSE, unhealthy |-> FALSE]

NextUnit == Len(units) + 1
CanSpawn == Len(units) < MaxUnits

\* Variant: the connection is found and left in the vector.
take_from_vec_Keeps(vector, u) == vector

\* take_from_vec_with_pid.  No pid occurs twice in a list (SingleOwner).
take_from_vec_with_pid(vector, u) ==
    IF u \in ToSet(vector)
    THEN RemoveAt(vector, CHOOSE i \in DOMAIN vector : vector[i] = u)
    ELSE vector

\* join_next yields the result of u.
Join(us, u) == [us EXCEPT ![u].task = "joined"]

\* The sender of u's channel is held by a list or by a detached task.
Held(u) == \/ u \in Registered
           \/ u \in to_stop

\* term_rx.recv() returns: a message, or every sender is gone.
TermReady(u) == units[u].term \/ ~Held(u)

-----------------------------------------------------------------------------
(* Failure accounting. *)

is_stable_pid(u) == u \notin ToSet(new_connections)

\* The failure is counted: its pid is found among the stable connections.
\* A pid found nowhere is reported and not counted.
Counted(u) == u \in ToSet(stable_connections) /\ is_stable_pid(u)

\* reg_new_failure_and_is_limit_exceeded: what it returns ...
LimitExceeded(u) ==
    /\ u \in ToSet(stable_connections)
    /\ is_stable_pid(u) => (~minute_over /\ failure_count + 1 > FailsLimit)

\* ... and what it does: failure_add, then failures_reset if the minute is over.
RegisterFailure(u) ==
    IF Counted(u)
    THEN /\ failure_count' = IF minute_over THEN 0 ELSE failure_count + 1
         /\ minute_over' = FALSE
    ELSE UNCHANGED countVars

-----------------------------------------------------------------------------
(* Pieces of handlers. *)

\* Variant: the detached task gets a copy of the stable connections.
terminate_Clones ==
    /\ state' = Update(state, "StopRequest")
    /\ UNCHANGED stable_connections
    /\ to_stop' = to_stop \cup ToSet(stable_connections)
    /\ outbox' = outbox \cup
          {Tell("UnitsDespawned", ToSet(stable_connections), {})}

\* ServiceBunch::terminate.  It takes the stable connections only; a detached
\* task sends to each and then reports them.
terminate ==
    /\ state' = Update(state, "StopRequest")
    /\ stable_connections' = <<>>
    /\ to_stop' = to_stop \cup ToSet(stable_connections)
    /\ outbox' = outbox \cup
          {Tell("UnitsDespawned", ToSet(stable_connections), {})}

\* The replacement of u is pushed, then the connection of u is taken out.
Replaced_Unlisted(u) == take_from_vec_with_pid(stable_connections, u) \* variant
Replaced(u) ==
    take_from_vec_with_pid(Append(stable_connections, NextUnit), u)

\* What the controller is told of it.
Replacement_Swapped(u) == Tell("UnitReplaced", {NextUnit}, {u}) \* variant
Replacement(u) == Tell("UnitReplaced", {u}, {NextUnit})

\* A detached task terminates a unit whose health check failed.
Retire_Forgets(u) == UNCHANGED to_stop \* variant
Retire(u) == to_stop' = to_stop \cup {u}

\* wait_on returns or panics: the task's future is dropped, and with it the
\* bunch.  Its connections go first, the join_set after them (AbortAll).
Leave(how) ==
    /\ pc' = "dropping"
    /\ result' = how
    /\ new_connections' = <<>>

\* spawn_unit_service fails in a handler, and expect or unreachable! panics.
\* In Starting it terminates the bunch before it returns the error.
SpawnPanics ==
    /\ Leave("Panic")
    /\ IF state = "Starting"
       THEN terminate
       ELSE /\ state' = IF state = "Updating"
                        THEN Update(state, "UpdatingFailed") ELSE state
            /\ stable_connections' = <<>>
            /\ UNCHANGED <<to_stop, outbox>>

\* get_single_address or find_available_addresses fails, and expect panics.
LookupPanics ==
    /\ AddressLookupFails
    /\ Leave("Panic")
    /\ stable_connections' = <<>>
    /\ UNCHANGED <<state, to_stop, outbox>>

-----------------------------------------------------------------------------
(* Service::run of the bunch.  The controller goes on to wait_on whether or *)
(* not it succeeds.                                                         *)

Run ==
    /\ pc = "new"
    /\ \E as \in AddressLists(InstancesCount) :
          /\ Len(as) <= MaxUnits
          /\ units' = [i \in 1..Len(as) |-> NewUnit(as[i], "Stable")]
          /\ stable_connections' = [i \in 1..Len(as) |-> i]
          /\ outbox' = outbox \cup {Tell("UnitsSpawned", {}, 1..Len(as))}
    /\ state' = Update(state, "ServicesEstablished")
    /\ run_ok' = TRUE
    /\ pc' = "select"
    /\ UNCHANGED <<new_connections, countVars, result, envVars, to_stop>>

\* The spawn after k successful ones fails: the bunch is still Starting, so
\* the units that did start are terminated.
RunSpawnFails ==
    /\ pc = "new"
    /\ \E as \in AddressLists(InstancesCount), k \in 0..MaxUnits :
          /\ k < Len(as)
          /\ units' = [i \in 1..k |-> NewUnit(as[i], "Stable")]
          /\ to_stop' = 1..k
          /\ outbox' = {Tell("UnitsDespawned", 1..k, {})}
    /\ state' = Update(state, "StopRequest")
    /\ pc' = "select"
    /\ UNCHANGED <<stable_connections, new_connections, countVars, run_ok,
                   result, envVars>>

RunNoAddress ==
    /\ pc = "new"
    /\ AddressLookupFails
    /\ pc' = "select"
    /\ UNCHANGED <<state, stable_connections, new_connections, countVars,
                   run_ok, result, envVars, outbox, to_stop, units>>

-----------------------------------------------------------------------------
(* wait_on, the join_next branch of select!. *)

\* Some(Ok(Ok(()))): only logged.  The connection of the unit stays listed.
JoinOk ==
    /\ pc = "select"
    /\ \E u \in DOMAIN units :
          /\ units[u].task = "ok"
          /\ units' = Join(units, u)
    /\ UNCHANGED <<bunchVars, countVars, run_ok, result, envVars, outbox,
                   to_stop>>

\* Some(Ok(Err(ExitError))): the unit failed once too often.  A pid of the
\* new version would only stop the update.
JoinErrLimit(u) ==
    /\ LimitExceeded(u)
    /\ IF is_stable_pid(u)
       THEN terminate
       ELSE /\ state' = Update(state, "UpdatingFailed")
            /\ UNCHANGED <<stable_connections, to_stop, outbox>>
    /\ units' = Join(units, u)
    /\ UNCHANGED <<pc, new_connections, result>>

\* ... or it is started again, with the stable executable.  The controller
\* hears of it if the failed pid was a stable connection.
JoinErrRestart(u) ==
    /\ ~LimitExceeded(u)
    /\ CanSpawn
    /\ \E a \in Addrs :
          units' = Append(Join(units, u), NewUnit(a, "Stable"))
    /\ stable_connections' = Replaced(u)
    /\ outbox' = IF u \in ToSet(stable_connections)
                 THEN outbox \cup {Replacement(u)}
                 ELSE outbox
    /\ UNCHANGED <<pc, state, new_connections, result, to_stop>>

JoinErrPanics(u) ==
    /\ ~LimitExceeded(u)
    /\ SpawnPanics \/ LookupPanics
    /\ units' = Join(units, u)

\* Variant: failures are left alone while the bunch stops.
Failed_Heeded(u) == units[u].task = "err" /\ state # "Stopping"

Failed(u) == units[u].task = "err"

\* handle_service_unit_error, ExitError.
JoinErr ==
    /\ pc = "select"
    /\ \E u \in DOMAIN units :
          /\ Failed(u)
          /\ RegisterFailure(u)
          /\ \/ JoinErrLimit(u)
             \/ JoinErrRestart(u)
             \/ JoinErrPanics(u)
    /\ UNCHANGED <<run_ok, envVars>>

\* None: every task was joined.  The normal exit of the loop.
JoinNone ==
    /\ pc = "select"
    /\ \A u \in DOMAIN units : units[u].task = "joined"
    /\ Leave("Drained")
    /\ stable_connections' = <<>>
    /\ UNCHANGED <<state, countVars, run_ok, envVars, outbox, to_stop,
                   units>>

-----------------------------------------------------------------------------
(* wait_on, the controller_rx branch of select!. *)

Received(type) ==
    /\ pc = "select"
    /\ controller_rx # <<>>
    /\ Head(controller_rx).type = type
    /\ controller_rx' = Tail(controller_rx)
    /\ UNCHANGED senders

\* start_update up to its loop.
RecvStartUpdate ==
    /\ Received("StartUpdate")
    /\ state' = Update(state, "UpdateRequest")
    /\ pc' = "loop"
    /\ UNCHANGED <<stable_connections, new_connections, countVars, run_ok,
                   result, outbox, to_stop, units>>

\* Variant: after terminate the loop goes on until the join_set is empty.
RecvShutdown_NoReturn ==
    /\ Received("Shutdown")
    /\ terminate
    /\ UNCHANGED <<pc, new_connections, result, countVars, run_ok, units>>

RecvShutdown ==
    /\ Received("Shutdown")
    /\ terminate
    /\ Leave("Shutdown")
    /\ UNCHANGED <<countVars, run_ok, units>>

\* Every sender is gone and the queue is empty.
RecvNone ==
    /\ pc = "select"
    /\ controller_rx = <<>>
    /\ senders = "none"
    /\ terminate
    /\ Leave("ControllerConnectionDropped")
    /\ UNCHANGED <<countVars, run_ok, envVars, units>>

\* handle_service_unit_error, HealthCheckFailed: the stable unit u, the first
\* listed with that address, is put down and another one started.
CheckLimit(u) ==
    /\ LimitExceeded(u)
    /\ terminate
    /\ UNCHANGED <<pc, new_connections, result, units>>

CheckReplace(u) ==
    /\ ~LimitExceeded(u)
    /\ CanSpawn
    /\ \E a \in Addrs : units' = Append(units, NewUnit(a, "Stable"))
    /\ stable_connections' = Replaced(u)
    /\ Retire(u)
    /\ outbox' = outbox \cup {Replacement(u)}
    /\ UNCHANGED <<pc, state, new_connections, result>>

CheckPanics(u) ==
    /\ ~LimitExceeded(u)
    /\ SpawnPanics \/ LookupPanics
    /\ UNCHANGED units

\* The position of the first connection of a list with address a, or none.
At(list, a) == {i \in DOMAIN list : /\ units[list[i]].addr = a
                                    /\ \A j \in 1..(i - 1) :
                                          units[list[j]].addr # a}

RecvHealthCheckFailed ==
    /\ Received("HealthCheckFailed")
    /\ LET a == Head(controller_rx).addr IN
       IF At(new_connections, a) # {}
       THEN /\ state' = Update(state, "UpdatingFailed")
            /\ UNCHANGED <<pc, stable_connections, new_connections, countVars,
                           result, outbox, to_stop, units>>
       ELSE IF At(stable_connections, a) = {}
       THEN UNCHANGED <<bunchVars, countVars, result, outbox, to_stop,
                        units>>
       ELSE \E i \in At(stable_connections, a) :
               LET u == stable_connections[i] IN
               /\ RegisterFailure(u)
               /\ CheckLimit(u) \/ CheckReplace(u) \/ CheckPanics(u)
    /\ UNCHANGED run_ok

-----------------------------------------------------------------------------
(* start_update. *)

\* Variants: the loop does not look at the vector; an if instead of a while.
KeepUpdating_AnyVector == state = "Updating"
KeepUpdating_Once ==
    stable_connections # <<>> /\ new_connections = <<>> /\ state = "Updating"

KeepUpdating == stable_connections # <<>> /\ state = "Updating"

\* One more unit of the new version; then the sleep.
UpdateSpawn ==
    /\ pc = "loop"
    /\ KeepUpdating
    /\ CanSpawn
    /\ \E a \in Addrs : units' = Append(units, NewUnit(a, "New"))
    /\ new_connections' = Append(new_connections, NextUnit)
    /\ outbox' = outbox \cup {Tell("UnitSpawned", {}, {NextUnit})}
    /\ pc' = "rolling"
    /\ UNCHANGED <<state, stable_connections, countVars, run_ok, result,
                   envVars, to_stop>>

\* Variants: the connection is pushed before the spawn is known to have
\* succeeded; the new connections are dropped with the update.
FailUpdate_Pushes == /\ state' = Update(state, "UpdatingFailed")
                     /\ new_connections' = Append(new_connections, NextUnit)
FailUpdate_Drops  == /\ state' = Update(state, "UpdatingFailed")
                     /\ new_connections' = <<>>

\* The update stops; units of both versions stay.
FailUpdate == /\ state' = Update(state, "UpdatingFailed")
              /\ UNCHANGED new_connections

UpdateSpawnFails ==
    /\ pc = "loop"
    /\ KeepUpdating
    /\ FailUpdate
    /\ pc' = "select"
    /\ UNCHANGED <<stable_connections, countVars, run_ok, result, envVars,
                   outbox, to_stop, units>>

\* get_single_address()? returns at once: the bunch stays Updating.
UpdateNoAddress ==
    /\ pc = "loop"
    /\ KeepUpdating
    /\ AddressLookupFails
    /\ pc' = "select"
    /\ UNCHANGED <<state, stable_connections, new_connections, countVars,
                   run_ok, result, envVars, outbox, to_stop, units>>

\* A unit takes the request from its channel; a finished unit has none.
Request(us, requested) ==
    [u \in DOMAIN us |-> IF u \in requested /\ us[u].task = "waiting"
                         THEN [us[u] EXCEPT !.term = TRUE] ELSE us[u]]

\* After the sleep one stable unit is retired.  If its task is finished its
\* channel is closed, and unwrap panics.  The controller is told the address
\* of the unit just started.
RollStep ==
    /\ pc = "rolling"
    /\ LET u == Last(stable_connections) IN
       IF units[u].task # "waiting"
       THEN /\ Leave("Panic")
            /\ stable_connections' = <<>>
            /\ UNCHANGED <<state, outbox, units>>
       ELSE /\ stable_connections' = Front(stable_connections)
            /\ outbox' = outbox \cup
                  {Tell("UnitDespawned", {Last(new_connections)}, {})}
            /\ IF state = "Updating"
               THEN /\ units' = Request(units, {u})
                    /\ pc' = "loop"
                    /\ UNCHANGED new_connections
               ELSE /\ units' = Request(units, {u} \cup ToSet(new_connections))
                    /\ pc' = "select"
                    /\ new_connections' = <<>>
            /\ UNCHANGED <<state, result>>
    /\ UNCHANGED <<countVars, run_ok, envVars, to_stop>>

\* Variant: take instead of swap.
Swap_Takes == /\ stable_connections' = new_connections
              /\ new_connections' = <<>>

Swap == /\ stable_connections' = new_connections
        /\ new_connections' = stable_connections

\* The loop ends; swap and ServicesEstablished, then UpdateFinished is sent.
LoopExit ==
    /\ pc = "loop"
    /\ ~KeepUpdating
    /\ Swap
    /\ state' = Update(state, "ServicesEstablished")
    /\ pc' = "announcing"
    /\ UNCHANGED <<countVars, run_ok, result, envVars, outbox, to_stop,
                   units>>

\* Variant: the update is only announced if the bunch is still Updating.
Announce_Updating ==
    /\ pc = "announcing"
    /\ state = "Updating"
    /\ outbox' = outbox \cup {Tell("UpdateFinished", {}, {})}
    /\ state' = Update(state, "UpdatingFinished")
    /\ pc' = "select"
    /\ UNCHANGED <<stable_connections, new_connections, countVars, run_ok,
                   result, envVars, to_stop, units>>

\* The controller's channel took UpdateFinished.
Announce ==
    /\ pc = "announcing"
    /\ outbox' = outbox \cup {Tell("UpdateFinished", {}, {})}
    /\ state' = Update(state, "UpdatingFinished")
    /\ pc' = "select"
    /\ UNCHANGED <<stable_connections, new_connections, countVars, run_ok,
                   result, envVars, to_stop, units>>

\* The join_set is dropped: unit tasks still waiting are aborted, and nobody
\* waits for or signals their processes again.
AbortAll ==
    /\ pc = "dropping"
    /\ units' = [u \in DOMAIN units |->
                    IF units[u].task = "waiting"
                    THEN [units[u] EXCEPT !.task = "aborted"] ELSE units[u]]
    /\ pc' = "gone"
    /\ UNCHANGED <<state, stable_connections, new_connections, countVars,
                   run_ok, result, envVars, outbox, to_stop>>

-----------------------------------------------------------------------------
(* Detached tasks. *)

\* A termination request is sent; send errors are ignored.
RequestSent ==
    \E u \in to_stop :
       /\ units' = Request(units, {u})
       /\ to_stop' = to_stop \ {u}
       /\ UNCHANGED <<bunchVars, countVars, run_ok, result, envVars, outbox>>

-----------------------------------------------------------------------------
(* Unit tasks (ServiceUnit::wait_on) and their processes. *)

\* child.wait() returns, and the exit code decides.
SeeExit(u) ==
    /\ units[u].task = "waiting"
    /\ units[u].proc = "stopped"
    /\ \E r \in {"ok", "err"} :
          units' = [units EXCEPT ![u].task = r, ![u].term = FALSE]
    /\ UNCHANGED <<bunchVars, countVars, run_ok, result, envVars, outbox,
                   to_stop>>

\* ServiceUnit::terminate: the process gets SIGTERM, if there is one.
terminate_unit_NoSignal(us, u) == us \* variant
terminate_unit(us, u) == [us EXCEPT ![u].proc = "stopped"]

\* term_rx.recv() returns: the process is terminated, the task ends with Ok.
SeeTerm(u) ==
    /\ units[u].task = "waiting"
    /\ TermReady(u)
    /\ units' = terminate_unit([units EXCEPT ![u].task = "ok",
                                             ![u].term = FALSE], u)
    /\ UNCHANGED <<bunchVars, countVars, run_ok, result, envVars, outbox,
                   to_stop>>

\* The process exits of its own accord.
Exit(u) ==
    /\ units[u].proc = "running"
    /\ units' = [units EXCEPT ![u].proc = "stopped"]
    /\ UNCHANGED <<bunchVars, countVars, run_ok, result, envVars, outbox,
                   to_stop>>

-----------------------------------------------------------------------------
(* The environment: controller, health-check tasks, clock. *)

\* A message enters the queue.  The controller keeps the bunch's sender only
\* after run has returned.
Send(notice) ==
    /\ Alive /\ pc # "new"
    /\ Len(controller_rx) < RxCapacity
    /\ controller_rx' = Append(controller_rx, notice)
    /\ UNCHANGED <<bunchVars, countVars, run_ok, result, outbox, to_stop>>

\* send_update_message.
SendStartUpdate ==
    /\ senders = "controller"
    /\ Send([type |-> "StartUpdate"])
    /\ UNCHANGED <<senders, units>>

\* despawn: the controller gives up its sender with the Shutdown it sends.
SendShutdown ==
    /\ senders = "controller"
    /\ Send([type |-> "Shutdown"])
    /\ senders' = "checks"
    /\ UNCHANGED units

\* start_health_check_tasks: every unit the controller is told of gets a task
\* that checks its address.  Checks are never cancelled: the unit may be long
\* gone when its check fails, and another one may have its address.
SendHealthCheckFailed ==
    /\ HealthChecks
    /\ senders # "none"
    /\ \E u \in UNION {m.new : m \in outbox} :
          /\ ~units[u].unhealthy
          /\ Send([type |-> "HealthCheckFailed", addr |-> units[u].addr])
          /\ units' = [units EXCEPT ![u].unhealthy = TRUE]
    /\ UNCHANGED senders

\* The controller is dropped, and no health check is left.
CloseChannel ==
    /\ Alive /\ pc # "new"
    /\ senders # "none"
    /\ senders' = "none"
    /\ UNCHANGED <<bunchVars, countVars, run_ok, result, controller_rx, outbox,
                   to_stop, units>>

MinutePasses ==
    /\ Alive
    /\ ~minute_over
    /\ minute_over' = TRUE
    /\ UNCHANGED <<bunchVars, failure_count, run_ok, result, envVars, outbox,
                   to_stop, units>>

\* Nothing is left to happen.
Finished ==
    /\ pc = "gone"
    /\ to_stop = {}
    /\ \A u \in DOMAIN units : /\ units[u].proc = "stopped"
                               /\ units[u].task # "waiting"
    /\ UNCHANGED vars

-----------------------------------------------------------------------------
Init ==
    /\ pc = "new"
    /\ state = InitialState
    /\ stable_connections = <<>>
    /\ new_connections = <<>>
    /\ failure_count = 0
    /\ minute_over = FALSE
    /\ run_ok = FALSE
    /\ result = "none"
    /\ controller_rx = <<>>
    /\ senders = "controller"
    /\ outbox = {}
    /\ to_stop = {}
    /\ units = <<>>

JoinNext == JoinOk \/ JoinErr \/ JoinNone
Receive  == RecvStartUpdate \/ RecvShutdown \/ RecvNone \/ RecvHealthCheckFailed
StartUpdate == UpdateSpawn \/ UpdateSpawnFails \/ UpdateNoAddress \/ RollStep
               \/ LoopExit \/ Announce

Bunch == Run \/ RunSpawnFails \/ RunNoAddress \/ JoinNext \/ Receive
         \/ StartUpdate \/ AbortAll

UnitTaskStep(u) == u \in DOMAIN units /\ (SeeExit(u) \/ SeeTerm(u))

UnitStep == \E u \in DOMAIN units :
               UnitTaskStep(u) \/ Exit(u)

Environment == SendStartUpdate \/ SendShutdown \/ SendHealthCheckFailed
               \/ CloseChannel \/ MinutePasses

Next == Bunch \/ RequestSent \/ UnitStep \/ Environment \/ Finished

Spec == Init /\ [][Next]_vars

(***************************************************************************)
(* Fairness.  The runtime polls every task that can go on.  select! picks  *)
(* at random among its ready branches, so a branch that is ready again and *)
(* again is taken (strong fairness).  The controller goes on reading its   *)
(* channel, so that Announce and the detached tasks are not held up.       *)
(* Nothing is assumed of the processes, the clock or the senders.          *)
(***************************************************************************)
Fairness ==
    /\ WF_vars(Bunch)
    /\ SF_vars(JoinNext)
    /\ SF_vars(Receive)
    /\ WF_vars(RequestSent)
    /\ \A u \in Units : WF_vars(UnitTaskStep(u))

FairSpec == Spec /\ Fairness

-----------------------------------------------------------------------------
(* Type invariant. *)

TypeOK ==
    /\ pc \in {"new", "select", "loop", "rolling", "announcing", "dropping",
               "gone"}
    /\ state \in State
    /\ stable_connections \in Seq(DOMAIN units)
    /\ new_connections \in Seq(DOMAIN units)
    /\ failure_count \in Nat
    /\ minute_over \in BOOLEAN
    /\ run_ok \in BOOLEAN
    /\ result \in {"none", "Drained", "Shutdown", "Panic",
                   "ControllerConnectionDropped"}
    /\ controller_rx \in Seq(Notice)
    /\ senders \in {"controller", "checks", "none"}
    /\ outbox \subseteq Message
    /\ to_stop \subseteq DOMAIN units
    /\ units \in Seq(Unit)
    /\ Len(units) <= MaxUnits

\* Before run, nothing has happened but the passing of time.
Untouched ==
    pc = "new" => /\ state = InitialState /\ ~run_ok /\ result = "none"
                  /\ stable_connections = <<>> /\ new_connections = <<>>
                  /\ failure_count = 0
                  /\ outbox = {} /\ to_stop = {} /\ units = <<>>

\* A bunch whose run succeeded has left Starting, and nothing leads back.
Established == run_ok => state # "Starting"

(* Safety. *)

\* Each connection has one owner.  A unit is in one list at one place, or in
\* the hands of one detached task; and once asked to terminate it is in none
\* of them.  (Every handler moves connections between the vectors, detached
\* tasks and nowhere; a unit in two places would be retired twice or restarted
\* after it was stopped.)
SingleOwner ==
    /\ IsInjective(stable_connections) /\ IsInjective(new_connections)
    /\ ToSet(stable_connections) \cap ToSet(new_connections) = {}
    /\ to_stop \cap Registered = {}
    /\ \A u \in DOMAIN units : units[u].term => ~Held(u)

\* While the bunch runs, no unit slips out of its hands: each unit task that
\* waits is listed, is about to be asked to terminate, or has been asked.
NoLostUnit ==
    Alive => \A u \in DOMAIN units :
                units[u].task = "waiting" => Held(u) \/ units[u].term

\* A bunch that started and was not stopped keeps at least as many instances
\* listed as configured, through restarts, failed updates and retries; and in
\* a rolling update the replacement is there before an instance is retired.
CapacityKept ==
    (Alive /\ run_ok /\ state \in {"Running", "Updating"}) =>
        Len(stable_connections) + Len(new_connections) >=
            InstancesCount + (IF pc = "rolling" THEN 1 ELSE 0)

\* start_update's sleep is only entered in Updating, nothing leaves Updating
\* during it, and there is an instance to pop after it: unwrap of pop() is
\* safe and the interruption branch after it is never taken.
RollingOnlyInUpdating ==
    pc = "rolling" => /\ state = "Updating"
                      /\ stable_connections # <<>>
                      /\ new_connections # <<>>

\* When the loop of wait_on ends by itself, no process is left that nobody
\* waits for or has signalled (against Shutdown, where this fails).
DrainedLeavesNoProcess ==
    result = "Drained" =>
        \A u \in DOMAIN units : units[u].proc = "stopped"

\* What the controller is told of as arrived was spawned.
ArrivedWereSpawned == \A m \in outbox : m.new \subseteq DOMAIN units

\* The controller is told that a unit is gone (UnitReplaced, UnitsDespawned)
\* only when it is, and for good: no such unit is listed again.
GoneStaysGone ==
    /\ \A m \in outbox : m.type \in {"UnitReplaced", "UnitsDespawned"} =>
                            m.old \cap Registered = {}
    /\ ArrivedWereSpawned

(* Action properties. *)

\* Stopping is final: no retry, no late message and no end of an update revives
\* the bunch.
StoppingIsFinal ==
    [][state = "Stopping" => state' = "Stopping"]_vars

(* Liveness. *)

\* A Shutdown that reached the queue ends the bunch, also in an update.
ShutdownServed ==
    (\E i \in DOMAIN controller_rx : controller_rx[i].type = "Shutdown")
        ~> (pc = "gone")

\* The result of every unit that failed is taken from the join_set, unless the
\* bunch ends before.
FailureHandled ==
    \A u \in Units : (u \in DOMAIN units /\ units[u].task = "err")
                       ~> (pc = "gone" \/ (u \in DOMAIN units /\ units[u].task = "joined"))

\* A rolling update comes to an end.
UpdateEnds == (pc \in {"loop", "rolling", "announcing"})
                 ~> (pc \in {"select", "gone"})

(* What comments of the code say, and the code does not do. *)

\* mod.rs:280, "Stop all underlying ServiceUnit instances": when the bunch has
\* ended after a Shutdown and every detached task is done, no process runs
\* that was not told to stop.
ShutdownStopsAll ==
    (pc = "gone" /\ result = "Shutdown" /\ to_stop = {}) =>
        \A u \in DOMAIN units : units[u].proc = "stopped"

\* mod.rs:280-283: after terminate the join_set runs empty, "and then this
\* ServiceBunch will return control to the parent type".
StopReturnsControl == (state = "Stopping") ~> (pc = "gone")
=============================================================================
