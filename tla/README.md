# A formal model of buzz-operator

buzz-operator is a daemon that keeps a configured number of instances ("units")
of each service running, restarts those that fail, gives up on a service that
fails too often, and replaces instances one at a time when a new executable
appears. This directory holds TLA+ modules of its core, TLC configurations that
check them on small instances, and TLAPS proofs of theorems for all instances.
Paths below are relative to the repository; `mod.rs` is
`src/service/service_bunch/mod.rs`.

## 1. The system

| Component | State | Operations | Talks to |
|---|---|---|---|
| **ServiceBunch** (`mod.rs`) | `stable_connections`, `new_connections`, `join_set`, `StateBox`, `failure_count`, `last_check_time`, two channel ends | `run`, `wait_on` (a `select!` over `join_set.join_next()` and `controller_rx.recv()`), `handle_service_unit_error`, `start_update`, `terminate`, `spawn_unit_service` | units through one termination channel each; controller through `controller_tx`/`controller_rx` |
| **StateBox** (`state_machine.rs`) | Starting, Running, Updating, Stopping | `update(event)`: an event without a transition is ignored | part of a bunch |
| **Failure limiter** (`mod.rs:105-159`) | `failure_count`, `last_check_time` | `failure_add`, `failures_reset`, `reg_new_failure_and_is_limit_exceeded` | part of a bunch |
| **ServiceUnit** (`service_unit.rs`) | child process, termination channel | `run`, `wait_on` (child exit or termination request), `terminate` (SIGTERM) | result to the bunch's `join_set` |
| **Addresses** (`mod.rs:382-388`, `538-629`) | none (probes ports, reads a directory) | `find_available_addresses`, `get_single_address` | operating system |
| **BunchController** (`bunch_controller.rs`) | list of bunch connections, `bunches_join`, channels | commands (start, stop, restart, exit), messages of the bunches, file events | bunches, health checks, update script |
| **Health-check tasks** (`bunch_controller.rs:531-611`) | one detached task per address | run a command until it fails once, then send `HealthCheckFailed(addr)` | the bunch's channel |
| **Update script, executables** (`bunch_controller.rs:419-526`) | load-balancer configuration, executable files | `run_update_script`, `replace_stable_exec` | external programs, files |
| **File-system watcher** (`fs_watcher.rs`) | notify watcher | forwards creation events | controller |
| **Daemon and CLI** (`main.rs`) | control socket | accept, `exec_command` | controller's command channel |
| **Configuration** (`configuration.rs`, `connect_addr.rs`) | none | deserialisation, formatting | all |

What makes it hard:

* `wait_on` takes whichever branch of `select!` is ready. An update runs *inside*
  a branch, so for its whole length neither exits nor messages are looked at.
* A unit's connection (the sender of its termination channel) moves between two
  vectors, detached tasks and nowhere. When the last sender is dropped, the unit's
  task sees its channel closed and terminates the process.
* Every message to the controller and every termination request outside
  `start_update` is sent by a detached task, hence later and in any order.
* A bunch ends by returning from `wait_on`, by a panic (`expect`, `unwrap`,
  `unreachable!`), or by being dropped; then its `join_set` aborts the unit tasks.
* Health checks are bound to an address and never cancelled; addresses are reused.

What makes each component correct:

* ServiceBunch: every unit is owned once and none is lost; capacity survives
  restarts and failed updates; a finished update has replaced each stable instance
  by one new one; stopping is final, ends, and leaves no process; the controller is
  told only what is true.
* Failure limiter: never stops a service without cause, and bounds the failures a
  service can get away with.
* ServiceUnit: its task ends only with its process stopped.
* Addresses: as many as asked for, distinct, not in use.
* BunchController: one bunch per service, commands and messages reach the right
  bunch, it does not block for ever against a bunch or itself, the load balancer's
  view converges to the units listed.
* Health checks: every unit is checked, and replaced when its check fails.

## 2. The modules

| Module | Models | Role |
|---|---|---|
| `StateBox` | `state_machine.rs` | the transition table as the operator `Update(state, event)`; no variables |
| `ServiceBunch` | `mod.rs`, `service_unit.rs`, `unit_connection.rs`, `message.rs`, and what `bunch_controller.rs` does to one bunch | state machine, properties |
| `UpdateHistory` | | `ServiceBunch` with a history variable, what an update found in the vectors, and the property about whole updates |
| `Supervisor` | | what a bunch promises to its controller, without saying how: the abstract specification |
| `BunchContract` | | the refinement mapping under which `ServiceBunch` implements `Supervisor` |
| `MCServiceBunch`, `MCUpdateHistory` | | addresses as model values, symmetry, for TLC |
| `ServiceBunchProofs` | | theorems about `ServiceBunch`: types, state |
| `OwnershipProofs` | | theorems about `ServiceBunch` and `UpdateHistory`: who holds a unit, how many are listed, what is reported, no process left behind, what an update leaves |
| `ContractProofs` | | the theorem that `ServiceBunch` implements `Supervisor` |
| `FailureWindow` | `mod.rs:105-159` against a numeric clock | state machine, properties |
| `FailureWindowProofs` | | theorems about `FailureWindow` |
| `Addresses` | `find_available_addresses`, `get_single_address`, `get_sockets_paths`, `find_min_not_occupied`, `is_port_available` (`mod.rs`) | state machine, properties |
| `AddressesProofs` | | theorems about `Addresses`: the port scan, the numbers of sockets |
| `Controller` | `run_and_wait`, `run_command`, `spawn`, `despawn`, `send_update_message` (`bunch_controller.rs`), the `select!` of `main.rs`, and several bunches as the controller sees them | the composition of daemon, controller and bunches; state machine, properties |
| `MCController` | | services as model values, for TLC |
| `ControllerProofs` | | theorems about `Controller` |
| `ManagedService` | `run_update_script`, `replace_stable_exec` (`bunch_controller.rs`), `bash/nginx-update`, `examples/nginx-update.rs`, with a bunch reduced to its addresses | the composition of one bunch, the controller, update scripts and files; state machine, properties |
| `MCManagedService` | | addresses as model values, which of them is part of another in text |
| `ManagedServiceProofs` | | theorems about `ManagedService`: types, the executables, what the load balancer serves |
| `HealthChecks` | `start_health_check_tasks` (`bunch_controller.rs`), its callers in `spawn` and `run_and_wait`, and `handle_service_unit_error`, with bunches reduced to the addresses of their units | the composition of controller, checking tasks and the bunches of one service; state machine, properties |
| `MCHealthChecks` | | addresses as model values |
| `HealthChecksProofs` | | theorems about `HealthChecks`: types, who watches a unit |

```
             Supervisor
                 ^ implemented by (BunchContract)
ServiceBunch  -- StateBox            one bunch in full
UpdateHistory -- ServiceBunch        with what its update found
FailureWindow                        its limiter against a clock
Addresses                            where its units' addresses come from
Controller                           many bunches, reduced to their messages
ManagedService                       one bunch, reduced to its addresses
HealthChecks                         bunches of one service, reduced to addresses and
                                     who checks them
```

The bunch in full, with more than one of it and everything around it, is far out
of TLC's reach, so the compositions reduce it to what the other side can tell of it.
`Controller` takes for granted, as fairness, what the run `bunch_live` shows: that a
bunch serves Shutdown and ends its updates. The bunch of `ManagedService` sends the
reports that `ServiceBunch` sends at the same steps, with the same addresses in them;
so do the bunches of `HealthChecks`, where only the addresses that came matter.

Operators marked "variant" are plausible mistakes in the operator that follows
them. They are not part of any specification; substituting one for its original
must break a property, which shows that the property depends on that code.

### ServiceBunch: state

`pc` is the await at which the bunch's task is suspended: `new` (before `run`),
`select` (the `select!` of `wait_on`), `loop` (the head of the loop of
`start_update`, where it does not await but is kept as a step of its own),
`rolling` (its two-second sleep), `announcing` (the send of `UpdateFinished`),
`dropping` (the future is being dropped: connections are gone, the `join_set` not
yet) and `gone`. `state`, `stable_connections`, `new_connections` and
`failure_count` are the fields of that name. `minute_over` is
`last_check_time.elapsed() > 60 s`. `run_ok` and `result` remember how `run` and
`wait_on` ended. `units` lists every unit ever spawned, with its address, the
executable it runs, its process, its task in the `join_set`, whether a termination
request is in its channel (`term`), and whether its health check has failed. A unit
is named by the order of its spawn, in place of its pid: the pid of a process that
was waited for is not reused within a behaviour. `to_stop` holds the units whose
request a detached task has still to send, `outbox` every message handed over for
the controller, `controller_rx` the bunch's queue, `senders` who still holds a
sender of it.

### ServiceBunch: actions

Whatever a handler does up to its next await is one action.

| Action | Code |
|---|---|
| `Run`, `RunSpawnFails`, `RunNoAddress` | `run` with its two error returns (the controller calls `wait_on` in any case, `bunch_controller.rs:269-279`) |
| `JoinOk`, `JoinErr`, `JoinNone` | the branches of `join_next`; `JoinErr` is `handle_service_unit_error(ExitError)`: limit exceeded, restart, or a failed lookup or spawn and the panic of `expect` / `unreachable!` |
| `RecvStartUpdate`, `RecvHealthCheckFailed`, `RecvShutdown`, `RecvNone` | the branches of `controller_rx.recv()` |
| `UpdateSpawn`, `UpdateSpawnFails`, `UpdateNoAddress`, `RollStep`, `LoopExit`, `Announce` | `start_update`, cut at its awaits |
| `AbortAll` | the drop of the `join_set` |
| `RequestSent` | a detached task sends a termination request |
| `SeeExit`, `SeeTerm` | the two branches of `ServiceUnit::wait_on` |
| `Exit` | a process ends by itself |
| `SendStartUpdate`, `SendShutdown`, `SendHealthCheckFailed`, `CloseChannel` | the controller and the health-check tasks |
| `MinutePasses` | the clock |

### UpdateHistory

`found` holds the two vectors as the update under way found them. It is set when a
StartUpdate is taken, forgotten when the loop is left, and restricts no step: `HSpec`
has the behaviours of `Spec`, and the run `bunch_update` checks the properties of
`ServiceBunch` under it.

### FailureWindow

The limiter alone: `now` and `last_check_time` are numbers, `failure_count` wraps
around at `MaxCount + 1` like a `u16` of a release build. `failures`, `period` and
`previous` are history variables that say when failures happened and where
counting periods began. `ServiceBunch` and this module model the same lines; the
former keeps of the clock only whether the minute is over.

### Supervisor and its mapping

A `Supervisor` is off, up, down or over; it keeps units, has released others and has
told of some that they are gone. While it is up it keeps at least as many as needed:
it lets go of a unit in exchange for another, or when it has more than it needs. It
gives up as a whole, and takes nothing back. `BunchContract` maps: units kept are
those in the two vectors, released the others ever spawned, told the `old` units of
`UnitReplaced` and `UnitsDespawned` in the `outbox` (`UnitDespawned` names the wrong
address, `mod.rs:350`, and promises nothing); the bunch is up after a successful
`run` while Running or Updating, down when it stops or its `run` failed, over when its
task ended.

### Addresses

`connect_addr` says which of the two halves is in use, "tcp" for an address of this
host, "remote" for one that is not, "unix" for a directory. `is_port_available` is a
bind that succeeds: the port is not in `used`, the host is this one, and there is a
descriptor left (`refused`); `Available` are the ports for which it does. Over TCP,
`scan[b]` is the call of `find_available_addresses` of bunch `b`: the next port, those
found, and the history by which its result is judged, namely how many probes were
made, and which ports were available all the time (`calm`) or at some time (`ever`)
since it began. `Begin`, `Probe` (one `is_port_available`, and the increment that
wraps around as in a release build), `Listen` (a unit takes a port found, if nobody
did), `Others` (programs that take and release ports and descriptors). Over unix
sockets nothing happens between reading the directory and the result, so `LookUp`
computes it: `looked` holds the directory, who asked, and what was handed out.

### Controller

`future` is the await at which the main task is suspended: the `select!` of
`run_and_wait`; `executing` a command read from the control socket; `spawning`, the
update script awaited in `spawn` with a bunch in hand (`at_bunch`); `script`, the one
awaited for a message; `sending`, the StartUpdate awaited by
`send_update_message`; `blocked`, the send of `exec_command` (`main.rs:228`) when the
command queue is full. `connections` is `bunch_connections`, `bunches` every bunch ever
made with its place, its queue, the reports its detached tasks hold, the Shutdown
that a detached task of `despawn` holds, and whether health-check tasks hold a sender
of its queue. `messages` and `commands` are the channels.

| Action | Code |
|---|---|
| `Accept`, `Execute`, `ExecuteNothing` | `start_daemon`, `exec_command`: the accepting branch of `select!` drops the future of `run_and_wait` |
| `TakeCommand`, `SpawnDone` | `run_command` with `spawn` and `despawn` |
| `JoinBunch`, `TakeMessage`, `ScriptExits` | the branches of `run_and_wait`, `handle_bunch_message` |
| `FileCreated`, `SendUpdate` | a file event, `send_update_message` |
| `BunchReceives`, `UpdateOver`, `Announce`, `Report`, `EndsAlone` | what a bunch does, as seen from here |
| `SendReport`, `SendShutdown`, `CheckFails` | detached tasks; the last is a health check that fails and sends `HealthCheckFailed`, before or behind a Shutdown |
| `Stuck` | nothing can happen to the main task: it waits for room in the queue only it empties (`Blocked`), or for a bunch that waits for it (`MutualWait`) |

### ManagedService

`units` and `fresh` are the addresses in the two vectors of a bunch, `outbox` the bag
of its reports, taken in any order. `scripts` are the processes of the update script:
each has read, written or tested the configuration `conf`; `waited` is whether the
main task still waits for it. A script that has truncated the file and not yet written
all of it (`writing`, `reverting`) leaves `conf` without what it will contain; another
that reads meanwhile finds any part of that. `stable` and `new` are the versions in
the two files, 0 for none. `bak` is the backup of the bash script, which all its runs
share.

| Action | Code |
|---|---|
| `Start`, `TakeReport` | `spawn`, `handle_bunch_message`; both with `Scripted`, that is `run_update_script` |
| `Read`, `Overwrite`, `Write`, `TestOk`, `TestFails`, `Reverted` | the two scripts: read, truncate, write, test, revert |
| `Skip`, `Abort` | a command of the bash script fails and it goes on; an `expect` of the Rust one panics, before, while or after it truncated the file |
| `RemoveStable`, `Rename` | `replace_stable_exec`, between whose file operations other threads run and the daemon may be killed |
| `Restart`, `Stop`, `StartUpdate`, `Roll` | `mod.rs`, as far as addresses, reports and the executable go |
| `RollPanics` | the unit to be retired is dead already: `terminate().unwrap()` (`mod.rs:344`) panics and ends the bunch |
| `RestartUnlisted` | the error of a unit that is not stable: it had exited before it was retired (`unheard` counts those), or is left over from an update; another is started in place of nothing and reported to nobody (`mod.rs:195`) |
| `RestartPanics` | a restart without a stable executable, which ends the bunch |
| `EventDropped` | a file event without a connection |
| `Accept`, `DropFile`, `Crash`, `Boot` | a connection, a new executable, the daemon killed and started again |

### HealthChecks

`connections` lists the bunches of one service, ended ones too, in the order in which
they were pushed. A bunch has the units in its two vectors, each with its address and
its health: `well`, `failing` (its checks fail) or `silent` (it accepts a check and never
answers). `checks`, `failed` and `reports` are bags, since tasks at one address
are alike and nothing orders them: the tasks that check, the `HealthCheckFailed` on
their way to a bunch, and the reports on their way to the controller.

| Action | Code |
|---|---|
| `Start`, `StartFails`, `Stop` | `spawn`, where the tasks are started before the connection is pushed, and `despawn` |
| `TakeReport` | a message about units that came; as in `Start`, `start_health_check_tasks` binds a task to the connection listed first |
| `CheckFails`, `CheckBreaks` | a task: its command fails, or cannot be run |
| `HandleFailed` | a failed check: only the update is stopped, or the first unit at the address is replaced, or there is none |
| `UnitExits`, `UnlistedExits`, `StartUpdate`, `Roll`, `End` | the bunch, as far as addresses and reports go |
| `Sicken` | a process that runs and fails its checks, or does not answer them |

## 3. What is checked

| Run | Instance | Shows |
|---|---|---|
| `bunch_update` | 2 instances, unix sockets, limit 1, 4 units, queue of 2 | all safety properties, and what an update makes of the units it finds, through restarts, failed lookups and spawns, two updates in a row, stops |
| `bunch_checks` | 1 instance, TCP, health checks, 2 addresses, 3 units | ownership, capacity and messages when checks, stale ones too, replace units |
| `bunch_live` | 1 instance, unix sockets, 3 units, queue of 2 | liveness under fairness, failed lookups and spawns among the rest; the refinement: the bunch implements `Supervisor` |
| `shutdown_orphans`, `stop_never_returns` | 2 and 1 instances | two comments of `mod.rs` that the code does not live up to (section 6) |
| `window` | window 2, limit 2, time to 9 | the limiter's guarantees |
| `controller` | 2 services, one with a script, queues of 2 (bunches), 1 (messages) and 1 (commands), 2 connections, 3 file events, 1 failed check, 1 further report | commands, cancelled waits, duplicate spawns, failed checks and full channels: control, order and liveness |
| `stop_stops` | 1 service, 3 connections, no file events | a documented rule that the controller breaks (section 6) |
| `addresses` | 4 ports, 2 scans, 1 change by others; directories of up to 3 files numbered up to 4 | what lookups find, and that they end |
| `managed_service` | 1 or 2 units on 2 addresses, one within the other in text, 2 units started by commands, 2 incidents, both scripts | what the load balancer knows of units in service, and what becomes of the executables |
| `health_checks` | 1 or 2 units on 2 addresses, 2 units started by commands, 2 incidents | that units are checked, and replaced when their checks fail, through shared addresses, updates and duplicate spawns |
| `gone_not_removed` | 1 unit, 1 incident | the removal of a replaced address that does not happen (section 6) |

Safety properties (`ServiceBunch`):

* `TypeOK`.
* `SingleOwner`: a unit is in one vector at one place, or with one detached task,
  and once asked to terminate in none.
* `NoLostUnit`: while the bunch runs, every unit task still waiting is listed, about
  to be asked, or has been asked to terminate.
* `CapacityKept`: a bunch that started and was not stopped lists at least the
  configured number of units, and one more during the sleep of an update.
* `RollingOnlyInUpdating`: nothing leaves Updating during the sleep of an update and
  there is a unit to pop after it; so `pop().unwrap()` is safe, and the branch
  "Exited from `Updating` state" (`mod.rs:355-362`) is dead code.
* `DrainedLeavesNoProcess`: when `wait_on` ends because the `join_set` is empty, no
  process is left unsignalled.
* `GoneStaysGone`: a unit reported as replaced or despawned is listed no more; one
  reported as arrived was spawned.
* `UpdateReplacesAll` (action, of `UpdateHistory`): in a bunch whose `run` succeeded, an
  update that gets to the end of its loop has replaced the stable units it found one for
  one. None of them is listed, there is exactly one new unit for each, and the units that
  an update given up earlier had left in `new_connections` are still there beside them.
  All run the path of the new executable; whether an older file was there when an earlier
  update started one of those left over, the model does not know (section 6).
* `StoppingIsFinal` (action).
* `ImplementsSupervisor` (refinement, run `bunch_live`): every step is one of
  `Supervisor`'s, or none.

Liveness: `ShutdownServed`, `FailureHandled`, `UpdateEnds`.

`FailureWindow`: `StopJustified` (a stop is preceded by `fails_limit + 1` failures
within one window) and `SlackBounded` (a service that goes on had at most
`2 * fails_limit + 1` failures in any window).

`Controller`:

* `UnderControl`: a running bunch is listed, or a Shutdown is on its way or in its
  queue; a bunch is without a task exactly while `spawn` holds it, so that none can be
  left behind by a wait that was cut short elsewhere.
* `ShutdownIsLast`: once a Shutdown is on its way, no name leads to the bunch any more,
  nothing waits to be sent to it, and behind the Shutdown there are only failed checks,
  whose tasks hold senders of their own.
* `CommandsServed`, `DespawnedEnds` (liveness): commands are carried out, and a despawned
  bunch ends and is joined, also with full queues, unless the main task comes to wait
  for itself (`Blocked`) or for a bunch that waits for it (`MutualWait`). Both waits are
  reached in the run; the properties say that there is no third.

`Addresses`:

* `ScanFinds`: a scan that has not come round finds distinct ports in order, each
  available at some time during it, and passes over none that stayed available. It
  does *not* follow that they are free now, and two scans may find the same.
* `RoundOnlyIfFull`: a scan comes round, and may hand out a port twice, only if
  fewer ports than it was asked for stayed available.
* `SocketsFresh`: the numbers that `get_sockets_paths` adds to a directory's are new and
  distinct, and the least such if every number occurs once and none is 0. A replacement
  gets one of these; `run` gets them behind the directory's own, and the handler of a
  failed health check takes the first of the directory's own if it has any, of which
  nothing is claimed (section 6).
* `ScanEnds` (liveness): a scan ends, with ports taken before it and a number that wraps
  around, unless at some time nothing can be bound at all.

`ManagedService`:

* `ServedOrExcused`: with all reports handled, every unit of a running bunch is with
  the load balancer, unless its address is `excused`: removed while in use by a late
  report or by `UnitDespawned`; added by a script that could not be spawned, was refused,
  panicked, failed, found it within another address, or ran beside another; lost with a
  file that a script left half-written, or that another script read half-written and
  wrote back; or given to a unit started for one that was listed no more. Without the
  history variable the property is false; with it, it says which of the code's paths
  lose a unit, and that the order of reports, restarts that reuse addresses, a test that
  fails and a crash are not among them.
* `ExecutableKept`: the stable file is missing only between removal and renaming, or
  after a crash just there, and the last version delivered is in one of the files.

`HealthChecks`:

* `WatchedOrExcused`: every unit has a task of its own that checks its address for its
  bunch, or one is about to be started, or a failure is on its way, unless its address
  is `excused`: a report was handled while another bunch was listed first, the unit was
  never reported, a failure was spent on a unit left over from an update, or the
  command could not be run. It is a matter of numbers: two units that came to share an
  address need two tasks, since each failure replaces the first of them only.
* `FailingGoes` (liveness): units that fail their checks are replaced, whichever of those
  at their address is taken first, or their bunch ends, or the address is excused, or a
  silent unit at that address holds the check. It is stated as: again and again no unit
  is left so, which says the same as long as units sicken only so often. Of silent units
  nothing is claimed: the check of one never ends.

### Bounds

* `MaxUnits` bounds the spawns of a behaviour; beyond it a spawn fails, which is an
  outcome the code handles, so the bound hides no behaviour before it. With 4
  units a bunch of two can be updated completely (2 + 2) or restart twice; with 3,
  a bunch of one can be updated twice, or restart after an update. The ownership
  properties relate at most two units and two holders.
* `RxCapacity` is 100 in the code; 1 or 2 are enough to have one message wait
  behind another. A full queue delays senders only.
* `FailsLimit` 0 and 1 in a bunch: a failure at and below the limit. 2 for the limiter
  alone: with 1 the failure that starts a period and the next always suffice.
* Two addresses: the model only compares them, and two units may share one.
* `Controller`: two connections give one command while another is carried out, on
  the same service or on two; queues of one or two places make every sender wait.
  A command queue of one place is full when the second connection comes before the first
  command is taken, which is `Blocked`. Three file events fill the queue of a bunch that
  updates and leave the controller waiting for room in it; if the bunch then waits in
  `start_update` (`mod.rs:371`) for room in the controller's queue, they wait for each
  other (`MutualWait`; the controller waits at `bunch_controller.rs:408`). A failed check
  takes a place in the queue as well. `MaxReports`, `MaxChecks` and `MaxConnections` only
  bound the length of behaviours.
* `Addresses`: four ports are enough for a scan of two to find gaps, to come round and
  to start in the middle. The one change is a port taken or released, or descriptors
  that run out or come back, at any moment of the two scans; the units that listen
  change ports besides, and the first state may be any. Probes are counted to
  `PortCount + 1`. Every directory of three files has duplicates, gaps, a 0 and any
  order among its listings.
* `ManagedService`: two incidents are a restart and a wait cut short, or a new
  version and a crash, or an update given up and the exit of what it left, or a script
  that panics and one that overlaps. Two units
  may be started: a service of two once, or a service of one twice (the second start
  counts as an incident), whose second
  bunch reuses addresses while the reports of the first are still under way. With two
  units on two addresses a replacement mostly takes an address that is known already;
  with one unit there is one to spare.
* `HealthChecks`: two incidents are a unit that moves to the address of another and
  sickens there, or an update given up and a unit of it that sickens. Two units may be
  started as above; the second start of a service of one, which counts as an incident,
  is the least for a report to be handled with another bunch listed first.
* The window of 2 and time up to 9 cover more than four periods.

Deadlock is checked in every run; `Finished`, `Done` and `Rest` are the proper ends,
and `Stuck` the two waits of `Controller`, which `CommandsServed` and `DespawnedEnds` name.

### Fairness

`FairSpec` assumes of the runtime that it polls what is ready: weak fairness of the
bunch's own steps, of the detached tasks and of each unit task. `select!` chooses
at random among its ready branches, which justifies strong fairness of either
branch. Nothing is assumed of the processes (they may run for ever), the clock, the
controller's sending or the health checks. Weak fairness of `Announce` assumes
that the controller goes on reading its channel, which the run `controller` looks into.

`FairSpec` of `Controller` only uses weak fairness: of the main task's steps, of a
bunch's, which takes its messages and ends its updates as `ShutdownServed` and
`UpdateEnds` say, and of the detached tasks. It assumes that update scripts exit; the
code has no timeout for them. Nothing is assumed of connections, file events, reports
and bunches that end by themselves. They are bounded: without bounds the choice of
`select!` would need strong fairness.

`FairSpec` of `Addresses` assumes that a thread that scans goes on. Then the scan
ends because the number wraps around, in a release build (a debug build panics at the
overflow); but only if something can be bound, which `ScanEnds` requires.

`FairSpec` of `HealthChecks` assumes that reports are handled, updates end and failed
checks are looked at, each of which `bunch_live` or `controller` looks into; and that a
task runs its command again and again (its loop has no other way out), which fails in the
end where a unit is failing and no silent unit shares its address. Nothing is assumed of a
check whose unit is well, nor of one whose unit is silent: the task waits for its command
without a limit (`bunch_controller.rs:565`), and `curl` in `bash/health-check:14, 16` waits
without one too.

`ManagedService` has safety properties only and assumes no fairness.

## 4. What is proved

For every value of the constants that satisfies the named assumptions
(`InstancesCountAssumption`, ... : naturals, a positive number of instances, units
and queue places, bounds that are naturals, and that the model value for "no file" is not a
set of addresses). Nothing is assumed beyond them and, in `FailureWindowProofs`,
`LimitFits` (the limit is below the counter's maximum) where stated.

`FailureWindowProofs`: `WindowTypeCorrect`, `StopIsJustified`, `SlackIsBounded`.
The strengthening says how the counter and the history fit together: the counter is
the number of failures since the one that started the period, all of them no later
than a window after it, and the period before contributed at most `fails_limit`
more. `LimitFits` is necessary: with the largest limit the counter wraps around
before it exceeds it.

`ServiceBunchProofs`: `TypeCorrect`, `UpdateIsNeverInterrupted`, `StoppingStays`. The
inductive invariant `BunchInv` is the conjunction of

* `TypeOK`, `RollingOnlyInUpdating`: the claims;
* `Untouched`: before `run` nothing has happened, so that `run`, which sets the
  vector of units, overwrites nothing;
* `ArrivedWereSpawned`: a health check only looks at units that exist;
* `Established`: a bunch whose `run` succeeded never returns to Starting, the one
  state in which `terminate` does not stop it (the state machine ignores a
  StopRequest there).

Lemmas come first: what push, remove and pop do to a vector, what a spawn, a join
and a request do to the units, the type of every message. Then one lemma per group
of actions for `TypeOK`, and one per remaining conjunct.

`OwnershipProofs`, over `BunchInv`: `OneOwner` (`SingleOwner`), `NoneLost`
(`NoLostUnit`), `GoneForGood` (`GoneStaysGone`), `CapacityIsKept` (`CapacityKept`).

* `SingleOwner` and `NoLostUnit` are inductive together (`OwnerInv`): a waiting unit
  that is taken from its only holder must have been asked, and one that was asked
  must have had no other. What can happen to the holders is proved once (they
  stay, the stable ones are terminated, all are dropped, one is replaced), for any
  step that is `Quiet` about the units; each action is then an instance.
* `GoneInv` adds to `GoneStaysGone` that a unit reported as gone exists. Then no
  step can list it again, because only units spawned in the step are ever added
  (`RegisteredStep`); and what a step reports is what it takes out
  (`GoneMessageStep`).
* `CapacityKept` is inductive over those: only the retirement in an update lists a
  unit less, and the update listed one more before (`ListedStep`). A
  restart never costs a place: one connection is pushed, at most one is removed.

`OwnershipProofs` also has, over `BunchInv` and `OwnerInv`, `DrainedIsClean`
(`DrainedLeavesNoProcess`) and, for `HSpec`, `UpdatesReplaceAll` (`UpdateReplacesAll`).
`UnitLife` says what one step can make of a unit: its executable never changes, its process
never comes back, and a task that ends by itself has a stopped process, whereas an aborted
one may not. `ProcessInv` adds that only `AbortAll` aborts, which comes after the result
is known, so the `join_set` that was found empty held no aborted unit. `HistoryInv` is the
invariant of the loop of `start_update`: what was left over stays among the new units, what
was found stable never gets there, and stable and new units together are as many as were
found, one more during the sleep. `VersionInv`: the new connections of a bunch that was not
stopped run the new version. It must leave out Stopping, where the loop ends at once
and the swap mixes stable units with new ones; the theorem is about updates that end in
Updating. `HistoryOfBunch` carries the invariants of `Spec` over to `HSpec`.

`ContractProofs`: `BunchImplementsSupervisor` (`Spec => ImplementsSupervisor`), over
`BunchInv`, `OwnerInv` and `CapacityKept`. The last is why a bunch that is up may
retire a unit only when it has more than it needs. First what the mapping yields: the
cardinality of the units kept is `Listed`, the name of the next unit is free. Then, for
each action of `Supervisor`, what a step of the bunch must do to be one of it; then
each action of the bunch as an instance.

`ControllerProofs`: `ControllerTypeCorrect`, `NoneEscapes` (`UnderControl`),
`ShutdownComesLast` (`ShutdownIsLast`). `ControlInv` is `TypeOK` and, for every bunch,
`Controlled`, stated over values in place of variables because Restart works on the
list and the bunches that its own despawn left. To the claims it adds that a bunch in
the hands of `spawn` is new (unlisted, not despawned, nothing in its queue), so that
pushing it keeps the list without repetitions, and that the main task sends only to
a bunch that is listed: the list does not change while it waits for room. Failed checks
come from elsewhere; `ShutdownComesLast` lets them, and only them, stand behind a Shutdown.

`AddressesProofs`, for every number of ports and scans, every directory and every number of
instances: `AddressesTypeCorrect`, `ScansFind` (`ScanFinds`), `RoundsOnlyIfFull`
(`RoundOnlyIfFull`), `SocketsAreFresh` (`SocketsFresh`).

* `ScanInv` adds to the first two that the port follows from the number of probes, that
  what was available all the time is so now and what is available now was so at some time
  (which makes a probe tell about the history), and that a scan which goes on has
  found too few.
* `SocketsFresh` is about a loop over a sorted list. `SortedProperties`: the places of the
  listings are a bijection, so sorting permutes them and puts them in order. `FreeNumber`:
  what `find_min_not_occupied` returns is in no listing, whatever 0, gap or
  repetition is there. `LongerNumbered`: a turn of the loop keeps the list free of new
  repetitions and one longer. The library's induction theorems cannot be used (they take
  an operator), so each induction is put as a least counterexample, of which the
  well-foundedness of the naturals gives one; that the recursive function of the loop
  exists (`TurnsExist`) is one of them.

`ManagedServiceProofs`: `ManagedServiceTypeCorrect`, `ExecutableIsKept`
(`ExecutableKept`), `UnitsAreServed` (`ServedOrExcused`).

* `TypeInv` adds to the types that there are at most as many unheard units and new files
  as incidents, and that an update has a unit to register when it does so.
* `ExecInv`. `OneStage` says that an update of the executable is at one of four stages
  (the file was noticed, units are being replaced, UpdateFinished is under way, the
  stable file is gone) and that meanwhile the new file is the last version. Without it
  UpdateFinished would remove the only copy. `OneWait` says that the main task waits for
  one script at most and only while it does nothing else, so that no script's exit leads
  it out of `replace_stable_exec`.
* `ServedInv` follows an address from the bunch to the configuration: one that is
  in use and not excused is `LookedAfter`. Either a report that adds it is under way, or a
  script that runs alone is adding it, or it is configured, also in the backup if there is
  one, and no script under way will take it out (`SafeFrom`), whether by removing it, by
  writing what it read before the address was there or by restoring such a
  copy. While a script has truncated the file, an address that it will write counts as
  configured (it is in `Unwritten`), and reading then excuses what was not found.
  `ScriptInv` supplies what a step from one place to the next needs: a
  script adds or removes, never both; one that never met another still runs alone, and
  what it has written is there; and the Rust script keeps no backup on disk.

`HealthChecksProofs`: `HealthChecksTypeCorrect`, `UnitsAreWatched`
(`WatchedOrExcused`), for every number of addresses, units and bunches. The
invariant is the claim with the types and finiteness of the bags. Nothing else is needed
because the claim is a balance: units at an address on one side, and on the other
the checks and failures that lead to that bunch and the reports that will start one.
Each step's lemma shows that it takes no more from the watches than from the units,
unless it excuses the address: registering a unit brings a
report with it, a report becomes a task, a task a failure, and a failure handled takes
the unit away. `OneMoreComing`, `OneLessComing` and `RemoveNumber` do the counting, by
bijections with sets, since neither bags nor vectors allow an induction here.

Only model-checked:

* the liveness properties of all modules (`ShutdownServed`, `FailureHandled`,
  `UpdateEnds`, `CommandsServed`, `DespawnedEnds`, `ScanEnds`, `FailingGoes`), which need
  fairness;
* that `ManagedService`, `HealthChecks` and `Controller` abstract `ServiceBunch`: there
  is no mapping between them; their bunches were written from the same lines.

## 5. Abstractions, and what is not modelled

* In `ServiceBunch` the addresses found are any list of `InstancesCount` distinct ones;
  a lookup can fail only over unix sockets, where a directory is read. Over unix
  sockets `InstancesCount` stands for what `get_sockets_paths` returns, which includes
  the indices already in the directory. Two later lookups may return the same
  address: a process that does not listen yet does not protect its port.
* A unit that received SIGTERM counts as stopped. A process that ignores it is not
  modelled (nothing in the code looks at it again).
* Not modelled: a `JoinError` of a unit's task (nothing in it panics), an error of
  `child.wait`, reuse of a pid, the order in which one detached task sends
  its requests, the two seconds of the sleep, log files and command lines. (The log file
  is given to the process as its stdin, `service_unit.rs:94`, where
  `buzzoperator.yaml:21` speaks of its output.)
* In `ServiceBunch` the controller is an environment: it may send what the code can
  send, at any time, and its channel is unbounded. The bounded channels are
  `Controller`'s.
* File events. At this commit the watcher is given an empty list
  (`bunch_controller.rs:89`), so no event comes and no update is ever requested. The
  models let events come (`Watched`, `DropFile`), because the handlers are there;
  the run `stop_stops` uses the list as it is.
* `Controller` leaves out the commands that nothing sends (status, all services, Exit),
  a panic of `ServiceBunch::new`, names that are not configured, `update_config`
  (never called), and what the bunches do besides taking messages, reporting and
  ending.
* `ManagedService` has one bunch at a time: a bunch that is stopping counts as off,
  and duplicate spawns are `Controller`'s and `HealthChecks`'. Health checks are left
  out, since they end in a report like any failed unit's. Files are dropped by a
  careful operator, never during an update; with another one the new file can be
  renamed half-way, which no code prevents. `nginx -t` may fail at any time. Of the
  scripts: the address-by-address edits of the bash script (`awk`, `mv`, `sed`) are
  one edit, which may be found half done or fail as a whole; its `cp` of the backup is
  taken to succeed; `sed` takes addresses literally here, although the "/" in a
  socket's path ends its expression; and its temporary file, which overlapping runs
  share, is not a variable: what it does to them is that either may find any part of
  what the other writes. A configuration mixed from the output of two scripts that
  write at the same moment is not modelled, nor is a script that is killed from
  outside, nor an error of `child.wait` (logged, and like an exit).
* `Addresses` says why a bind fails in three ways: the port is taken, the address is
  not this host's, or no descriptor is left. It leaves out errors of the directory,
  which `ServiceBunch` has (`RunNoAddress`, `UpdateNoAddress`).
* `HealthChecks`: the rate and the command are abstracted to a task that may fail at
  any time. A check of a `silent` unit may fail or stay for ever. With a rate of 0 the
  controller panics (`bunch_controller.rs:551`), which is not modelled. Tasks of a
  bunch that is over reach nobody and are left out. A bunch whose `run` fails half-way
  ends at once here; in the code a unit that it spawned before, and that exits with an
  error before it sees its request, is started again (`ServiceBunch` has this, in
  `RunSpawnFails` and `JoinErr`). Units that exit with code 0 and stay listed are
  `ServiceBunch`'s too.
* Command line, socket file, reload request, deserialisation and formatting: no state
  that a later step depends on, apart from the socket file a killed daemon leaves, at
  which the next one refuses to start.

## 6. Where code and comments disagree

Shown by a run:

* `ShutdownStopsAll`, against `mod.rs:280` ("Stop all underlying `ServiceUnit`
  instances"): on Shutdown `wait_on` returns directly after `terminate`, whose
  requests a detached task has yet to send. The `join_set` is dropped with the bunch
  and aborts the unit tasks; their processes are neither signalled nor waited for.
* `StopReturnsControl`, against `mod.rs:280-283` ("this `ServiceBunch` will return
  control to the parent type"): a unit that fails while the bunch is stopping is
  found in no list and started again; units left in `new_connections` are
  never told to stop.
* `StopStops`, against `main.rs:45` ("Stop service with name, specified in the config")
  and `bunch_controller.rs:259-260` ("already spawned, skip spawn command"): the
  second spawn is not skipped, and Stop reaches the oldest connection only, which may
  be that of a bunch long ended.
* `GoneAreRemoved`, against `bunch_controller.rs:421` and `buzzoperator.yaml:24`
  ("--remove"): when addresses come and go at once, those gone are passed with `--rm`,
  which neither script knows.

Seen while modelling, without a run of their own:

* `service/mod.rs:11-13` ("strictly follow the order"): a bunch that `spawn` has run is
  dropped before `wait_on` when a connection is accepted while the update script
  runs (the place `lost` of `Controller`).
* `mod.rs:115-117` and `mod.rs:165-167` (a limit of 1 for a unit of the new version,
  whose failure stops the update): the handler of StartUpdate runs inside a branch of
  `select!`, so no failure is looked at before the update is over, and stable units
  are retired for new ones that are dead. Then the unit is either stable, after the
  swap, or in `new_connections`, whose units the look-up at `mod.rs:120` does not
  find: it is not counted at all, and restarted. `is_stable_pid` at `mod.rs:126` never
  says otherwise (`SingleOwner`).
* `mod.rs:365`: the swap is reached with stable units in place when the request is
  handled outside Running.
* `mod.rs:313` ("until all children processes will be replaced"): units that an update
  given up had left in `new_connections` are not replaced by the next one but swapped in
  (`mod.rs:366`), also when they were started from an earlier file.
* `mod.rs:585` ("to required count") and the assertion `mod.rs:640`: over unix sockets
  `run` gets the directory's own indices besides those asked for and starts a unit for
  each (`SocketsFresh` speaks of the others). `mod.rs:538` ("available"): the first of
  the list is then a number in use, and the handler of a failed health check takes it
  (`mod.rs:231-236`).
* `mod.rs:575` ("Check if a specific TCP port is available"): `is_port_available` is
  false on every error of bind. With an address that is not this host's, or without a
  descriptor, the loop at `mod.rs:558` never ends, and neither does the `run` or restart
  that asked; `ScanEnds` excuses it.
* `buzzoperator.yaml:15` and `mod.rs:130`, a limit of failures per minute: the periods
  of the limiter do not slide, the failure that starts one is not counted (with a limit
  of 0 one passes), and failures of units that are not stable are not counted at all.
  `SlackBounded` says what the limit does guarantee.
* `bunch_controller.rs:271`: the checks of a first spawn find no connection and are not
  started until UnitsSpawned is handled; those of a second bunch report to the first,
  also if that one ended long ago, and then nobody replaces a unit that fails its checks
  (`WatchedOrExcused` names the cases).
* `mod.rs:195`: the error of a unit that is not listed starts one more unit, which nobody
  is told of.
* `mod.rs:371` and `bunch_controller.rs:408`: bunch and controller wait for room in each
  other's queue (`MutualWait`). Only the next connection to the control socket, which
  drops the controller's send, ends it.
* `main.rs:228`: the main task waits for room in the command queue that only it empties
  (`Blocked`), once a hundred commands have come before it got to its `select!`.
* `bunch_controller.rs:565`: a health check has no time limit, and neither has `curl` in
  `bash/health-check:14, 16`. A unit that accepts and does not answer is never replaced.
* `nginx-update.rs:114`: the configuration is truncated before it is written, so a script
  that overlaps reads a part of it, and a panic leaves one.
* `service_unit.rs:142-144` ("if it didn't work we send"): SIGKILL is sent if sending
  SIGTERM fails, not if the process goes on.
* The numbering of sockets starts at 1, and a 0 or a number that occurs twice among the
  files skews what `find_min_not_occupied` calls the minimum.

## 7. Plan

Done: the bunch with its limiter, addresses, controller and daemon, update script and
executables, health checks, the abstract specification with its refinement, and the
theorems above.

Left:

1. The bunches of `Controller`, `ManagedService` and `HealthChecks` as abstractions of
   `ServiceBunch`, by refinement mappings like `BunchContract`'s.
2. The two waits of `Controller`, once their repair (a `try_send`, or a detached task)
   has a form to model, and a time limit for scripts and health checks.
3. The versions of the files that units were started from, in one model with the vectors
   of the bunch, to say which units an update leaves behind.
