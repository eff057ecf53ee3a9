------------------------------ MODULE Controller ------------------------------
(***************************************************************************)
(* The daemon above its bunches: the main task, which polls run_and_wait   *)
(* of BunchController and the control socket in one select! (main.rs), the *)
(* commands start, stop and restart, the list of bunch connections, and    *)
(* the bounded channels between controller and bunches.                    *)
(*                                                                         *)
(* Accepting a connection drops the future of run_and_wait at whatever     *)
(* await it has reached.  It is made anew after the command was queued; a  *)
(* bunch that spawn holds across the wait for the update script is lost    *)
(* then.  Code between two awaits is one step.  A bunch is reduced to what *)
(* the controller can tell of it: it takes messages, updates, reports and  *)
(* ends.                                                                   *)
(***************************************************************************)
EXTENDS Naturals, FiniteSets, SequencesExt

CONSTANTS
    Services,       \* the names in the configuration
    Scripted,       \* those with an update_exec
    Watched,        \* those whose app_dir is watched for new executables
    RxCapacity,     \* capacity of a bunch's channel (100)
    MsgCapacity,    \* capacity of the controller's message channel (100)
    CmdCapacity,    \* capacity of the controller's command channel (100)
    MaxConnections, \* bound: connections accepted on the control socket
    MaxReports,     \* bound: reports of bunches besides those of their start,
                    \* their end and of failed checks
    MaxEvents,      \* bound: file creations reported
    MaxChecks       \* bound: health checks that fail

ASSUME ScriptedAssumption == Scripted \subseteq Services
ASSUME WatchedAssumption == Watched \subseteq Services
ASSUME CapacityAssumption ==
    /\ RxCapacity \in Nat \ {0}
    /\ MsgCapacity \in Nat \ {0}
    /\ CmdCapacity \in Nat \ {0}

VARIABLES
    future,      \* where the main task is suspended
    at_bunch,    \* the bunch it holds or sends to there, or 0
    commands,    \* commands_receiver
    connections, \* bunch_connections, as bunches
    bunches,     \* every bunch ever made
    messages,    \* message_receiver
    accepted,    \* connections accepted so far
    events,      \* file creations so far
    reported,    \* reports counted against MaxReports
    failed       \* failed checks so far

vars == <<future, at_bunch, commands, connections, bunches, messages,
          accepted, events, reported, failed>>

mainVars == <<future, at_bunch, commands, connections>>
bounds   == <<accepted, events, reported, failed>>

-----------------------------------------------------------------------------
(* Data. *)

Command == [do : {"Start", "Stop", "Restart"}, service : Services]

\* Where a bunch is: run and held by spawn; its wait_on task in the select!,
\* in a rolling update or at the send of UpdateFinished; ended and then taken
\* from bunches_join; or dropped before it got a task.
Active == {"serving", "updating", "announcing"}
Place == {"held", "ended", "joined", "lost"} \cup Active

\* What is sent to a bunch: by send_update_message, by the detached task of
\* despawn, and by health-check tasks.
Order == {"StartUpdate", "Shutdown", "HealthCheckFailed"}

\* reports: what its detached tasks have still to send to the controller;
\* despawned: the detached task of despawn has still to send Shutdown;
\* checked: health-check tasks hold a sender of its channel.
Bunch == [service : Services, at : Place, rx : Seq(Order), reports : Nat,
          despawned : BOOLEAN, checked : BOOLEAN]

Message == [type : {"Units", "UpdateFinished"}, from : Nat]

Listed == ToSet(connections)

\* bunch_connections.iter().find(name) in a list of connections: the place of
\* the oldest one, or none.
Oldest(s, list, all) == {i \in DOMAIN list :
                            /\ all[list[i]].service = s
                            /\ \A j \in 1..(i - 1) : all[list[j]].service # s}

\* The receiver of a bunch's channel lives, and there is room.
RxOpen(b) == bunches[b].at \in Active
RxFree(b) == Len(bunches[b].rx) < RxCapacity

-----------------------------------------------------------------------------
(* The control socket (start_daemon, exec_command). *)

\* listener.accept() is ready: run_and_wait is dropped.  The update script it
\* waited for runs on; a StartUpdate it could not place is lost.
Accept ==
    /\ future \notin {"executing", "blocked"}
    /\ accepted < MaxConnections
    /\ accepted' = accepted + 1
    /\ bunches' = IF future = "spawning"
                  THEN [bunches EXCEPT ![at_bunch].at = "lost"]
                  ELSE bunches
    /\ future' = "executing"
    /\ at_bunch' = 0
    /\ UNCHANGED <<commands, connections, messages, events, reported, failed>>

\* A command was read within the second and is queued.  If there is no room the
\* main task waits for itself: nobody else takes commands.
Execute ==
    /\ future = "executing"
    /\ IF Len(commands) < CmdCapacity
       THEN /\ \E c \in Command : commands' = Append(commands, c)
            /\ future' = "select"
       ELSE /\ future' = "blocked"
            /\ UNCHANGED commands
    /\ UNCHANGED <<at_bunch, connections, bunches, messages, bounds>>

\* What was read is no command.
ExecuteNothing ==
    /\ future = "executing"
    /\ future' = "select"
    /\ UNCHANGED <<at_bunch, commands, connections, bunches, messages, bounds>>

-----------------------------------------------------------------------------
(* run_command. *)

NewBunch(s, at) == [service |-> s, at |-> at, rx |-> <<>>, reports |-> 1,
                    despawned |-> FALSE, checked |-> FALSE]

\* start_health_check_tasks: if checks are configured, each of the addresses gets
\* a task with a sender of the oldest connection listed under the name.
ChecksStarted(s, list, all) ==
    [b \in DOMAIN all |->
        IF \E i \in Oldest(s, list, all) : list[i] = b
        THEN [all[b] EXCEPT !.checked = TRUE]
        ELSE all[b]]

\* Variant: it is dropped without a Shutdown.
Despawned_Silent(s) ==
    LET found == Oldest(s, connections, bunches) IN
    [list |-> IF found = {} THEN connections
              ELSE RemoveAt(connections, CHOOSE i \in found : TRUE),
     all  |-> bunches]

\* despawn: the oldest connection of the service is taken from the list, for a
\* detached task that sends Shutdown.
Despawned(s) ==
    LET found == Oldest(s, connections, bunches) IN
    [list |-> IF found = {} THEN connections
              ELSE RemoveAt(connections, CHOOSE i \in found : TRUE),
     all  |-> [b \in DOMAIN bunches |->
                  IF \E i \in found : connections[i] = b
                  THEN [bunches[b] EXCEPT !.despawned = TRUE]
                  ELSE bunches[b]]]

\* Variant: the connection is pushed before the wait as well.
Spawn_Early(s, list, all) ==
    LET b == Len(all) + 1 IN
    /\ connections' = Append(list, b)
    /\ \/ /\ bunches' = Append(all, NewBunch(s, "serving"))
          /\ UNCHANGED <<future, at_bunch>>
       \/ /\ s \in Scripted
          /\ bunches' = Append(all, NewBunch(s, "held"))
          /\ future' = "spawning"
          /\ at_bunch' = b

\* spawn of a service, after list and all (what despawn left, with the health
\* checks of what run started): whether one is listed already makes no
\* difference.  Without a script to wait for (none is configured, run failed,
\* or the script does not start) its task is started and its connection
\* pushed at once.
Spawn(s, list, all) ==
    LET b == Len(all) + 1 IN
    \/ /\ bunches' = Append(all, NewBunch(s, "serving"))
       /\ connections' = Append(list, b)
       /\ UNCHANGED <<future, at_bunch>>
    \/ /\ s \in Scripted
       /\ bunches' = Append(all, NewBunch(s, "held"))
       /\ connections' = list
       /\ future' = "spawning"
       /\ at_bunch' = b

\* The script that spawn waits for has exited.
SpawnDone ==
    /\ future = "spawning"
    /\ bunches' = [bunches EXCEPT ![at_bunch].at = "serving"]
    /\ connections' = Append(connections, at_bunch)
    /\ future' = "select"
    /\ at_bunch' = 0
    /\ UNCHANGED <<commands, messages, bounds>>

TakeCommand ==
    /\ future = "select"
    /\ commands # <<>>
    /\ commands' = Tail(commands)
    /\ LET c == Head(commands)
           s == c.service IN
       \/ /\ c.do = "Start"
          /\ \E all \in {bunches, ChecksStarted(s, connections, bunches)} :
                Spawn(s, connections, all)
       \/ /\ c.do = "Stop"
          /\ connections' = Despawned(s).list
          /\ bunches' = Despawned(s).all
          /\ UNCHANGED <<future, at_bunch>>
       \/ /\ c.do = "Restart"
          /\ LET list == Despawned(s).list
                 left == Despawned(s).all
             IN  \E all \in {left, ChecksStarted(s, list, left)} :
                    Spawn(s, list, all)
    /\ UNCHANGED <<messages, bounds>>

-----------------------------------------------------------------------------
(* The other branches of the controller's select!. *)

\* join_next: the result is only logged, the connection stays listed.
JoinBunch ==
    /\ future = "select"
    /\ \E b \in DOMAIN bunches :
          /\ bunches[b].at = "ended"
          /\ bunches' = [bunches EXCEPT ![b].at = "joined"]
    /\ UNCHANGED <<mainVars, messages, bounds>>

\* A message about units starts health checks of the new ones and runs the
\* update script; UpdateFinished replaces the executable, without an await.
TakeMessage ==
    /\ future = "select"
    /\ messages # <<>>
    /\ messages' = Tail(messages)
    /\ LET s == bunches[Head(messages).from].service IN
       \/ UNCHANGED <<future, bunches>>
       \/ /\ Head(messages).type = "Units"
          /\ bunches' \in {bunches, ChecksStarted(s, connections, bunches)}
          /\ \/ UNCHANGED future
             \/ /\ s \in Scripted
                /\ future' = "script"
    /\ UNCHANGED <<at_bunch, commands, connections, bounds>>

ScriptExits ==
    /\ future = "script"
    /\ future' = "select"
    /\ UNCHANGED <<at_bunch, commands, connections, bunches, messages, bounds>>

\* A file event (send_update_message): StartUpdate goes to the oldest
\* connection, which may take waiting for room.
FileCreated ==
    /\ future = "select"
    /\ events < MaxEvents
    /\ events' = events + 1
    /\ \E s \in Watched : \E i \in Oldest(s, connections, bunches) :
          at_bunch' = connections[i]
    /\ future' = "sending"
    /\ UNCHANGED <<commands, connections, bunches, messages, accepted, reported,
                   failed>>

\* Variant: the send does not notice that the bunch is gone.
SendUpdate_Blind ==
    /\ future = "sending"
    /\ RxFree(at_bunch) /\ RxOpen(at_bunch)
    /\ bunches' = [bunches EXCEPT ![at_bunch].rx = Append(@, "StartUpdate")]
    /\ future' = "select"
    /\ at_bunch' = 0
    /\ UNCHANGED <<commands, connections, messages, bounds>>

\* There is room, or the bunch is gone and the send fails.
SendUpdate ==
    /\ future = "sending"
    /\ \/ /\ RxOpen(at_bunch) /\ RxFree(at_bunch)
          /\ bunches' = [bunches EXCEPT ![at_bunch].rx = Append(@, "StartUpdate")]
       \/ /\ ~RxOpen(at_bunch)
          /\ UNCHANGED bunches
    /\ future' = "select"
    /\ at_bunch' = 0
    /\ UNCHANGED <<commands, connections, messages, bounds>>

-----------------------------------------------------------------------------
(* Bunches and detached tasks. *)

Move(b, from, to) ==
    /\ bunches[b].at = from
    /\ bunches' = [bunches EXCEPT ![b].at = to]

End(b) == [bunches[b] EXCEPT !.at = "ended", !.rx = <<>>]

\* wait_on takes a message.  Shutdown ends it, with a report; the unit whose
\* check failed is replaced, with a report, or is not listed any more.
BunchReceives(b) ==
    /\ bunches[b].at = "serving"
    /\ bunches[b].rx # <<>>
    /\ LET got  == Head(bunches[b].rx)
           left == [bunches[b] EXCEPT !.rx = Tail(bunches[b].rx)] IN
       \/ /\ got = "Shutdown"
          /\ bunches' = [bunches EXCEPT ![b] = [End(b) EXCEPT !.reports = @ + 1]]
       \/ /\ got = "StartUpdate"
          /\ bunches' = [bunches EXCEPT ![b] = [left EXCEPT !.at = "updating"]]
       \/ /\ got = "HealthCheckFailed"
          /\ \E n \in {0, 1} :
                bunches' = [bunches EXCEPT ![b] = [left EXCEPT !.reports = @ + n]]
    /\ UNCHANGED <<mainVars, messages, bounds>>

\* A rolling update is over: finished, or given up.
UpdateOver(b) ==
    /\ Move(b, "updating", "announcing") \/ Move(b, "updating", "serving")
    /\ UNCHANGED <<mainVars, messages, bounds>>

\* The bunch itself waits for room in the controller's channel.
Announce(b) ==
    /\ Len(messages) < MsgCapacity
    /\ Move(b, "announcing", "serving")
    /\ messages' = Append(messages, [type |-> "UpdateFinished", from |-> b])
    /\ UNCHANGED <<mainVars, bounds>>

\* Units are replaced, spawned or despawned.
Report(b) ==
    /\ bunches[b].at \in {"serving", "updating"}
    /\ reported < MaxReports
    /\ reported' = reported + 1
    /\ bunches' = [bunches EXCEPT ![b].reports = @ + 1]
    /\ UNCHANGED <<mainVars, messages, accepted, events, failed>>

\* It drains or panics.
EndsAlone(b) ==
    /\ bunches[b].at \in {"serving", "updating"}
    /\ bunches' = [bunches EXCEPT ![b] = End(b)]
    /\ UNCHANGED <<mainVars, messages, bounds>>

\* Variant: a report is sent again.
SendReport_Again(b) ==
    /\ Len(messages) < MsgCapacity
    /\ bunches' = [bunches EXCEPT ![b].reports = @ - 1]
    /\ messages' = Append(messages, [type |-> "Units", from |-> b])
    /\ UNCHANGED <<mainVars, bounds>>

\* A detached task of the bunch gets its report through.
SendReport(b) ==
    /\ bunches[b].reports > 0
    /\ Len(messages) < MsgCapacity
    /\ bunches' = [bunches EXCEPT ![b].reports = @ - 1]
    /\ messages' = Append(messages, [type |-> "Units", from |-> b])
    /\ UNCHANGED <<mainVars, bounds>>

\* Variant: it does not wait for room.
SendShutdown_Try(b) ==
    /\ bunches[b].despawned
    /\ bunches' = [bunches EXCEPT ![b] =
          IF RxOpen(b) /\ RxFree(b)
          THEN [@ EXCEPT !.despawned = FALSE,
                        !.rx = Append(bunches[b].rx, "Shutdown")]
          ELSE [@ EXCEPT !.despawned = FALSE]]
    /\ UNCHANGED <<mainVars, messages, bounds>>

\* The detached task of despawn places its Shutdown, or finds the bunch gone.
SendShutdown(b) ==
    /\ bunches[b].despawned
    /\ RxOpen(b) => RxFree(b)
    /\ bunches' = [bunches EXCEPT ![b] =
          IF RxOpen(b)
          THEN [@ EXCEPT !.despawned = FALSE,
                        !.rx = Append(bunches[b].rx, "Shutdown")]
          ELSE [@ EXCEPT !.despawned = FALSE]]
    /\ UNCHANGED <<mainVars, messages, bounds>>

\* A check of one of its units fails: the task sends HealthCheckFailed, when
\* there is room, and ends.  It holds its sender whatever became of the
\* connection; if the bunch is gone, nothing comes of it.
CheckFails(b) ==
    /\ bunches[b].checked
    /\ RxOpen(b) /\ RxFree(b)
    /\ failed < MaxChecks
    /\ failed' = failed + 1
    /\ bunches' = [bunches EXCEPT ![b].rx = Append(@, "HealthCheckFailed")]
    /\ UNCHANGED <<mainVars, messages, accepted, events, reported>>

-----------------------------------------------------------------------------
(* Where the daemon stops. *)

\* The main task waits for room in the queue that only it empties.
Blocked == future = "blocked"

\* It waits for room in the channel of a bunch that waits for room in its own.
\* Only a connection that is accepted, which drops the send, gets it out.
MutualWait ==
    /\ future = "sending"
    /\ bunches[at_bunch].at = "announcing"
    /\ ~RxFree(at_bunch)
    /\ Len(messages) = MsgCapacity

Stuck ==
    /\ Blocked \/ MutualWait
    /\ UNCHANGED vars

\* The daemon is idle, and no bunch has anything left to do.
Finished ==
    /\ future = "select" /\ commands = <<>> /\ messages = <<>>
    /\ accepted = MaxConnections
    /\ \A b \in DOMAIN bunches : /\ bunches[b].at \in {"joined", "lost"}
                                 /\ bunches[b].reports = 0
                                 /\ ~bunches[b].despawned
    /\ UNCHANGED vars

-----------------------------------------------------------------------------
Init ==
    /\ future = "select"
    /\ at_bunch = 0
    /\ commands = <<>>
    /\ connections = <<>>
    /\ bunches = <<>>
    /\ messages = <<>>
    /\ accepted = 0
    /\ events = 0
    /\ reported = 0
    /\ failed = 0

MainTask == Accept \/ Execute \/ ExecuteNothing \/ SpawnDone \/ TakeCommand
            \/ JoinBunch \/ TakeMessage \/ ScriptExits \/ FileCreated
            \/ SendUpdate

BunchTask(b) == BunchReceives(b) \/ UpdateOver(b) \/ Announce(b) \/ Report(b)
                \/ EndsAlone(b)

Detached(b) == SendReport(b) \/ SendShutdown(b) \/ CheckFails(b)

Next == \/ MainTask
        \/ \E b \in DOMAIN bunches : BunchTask(b) \/ Detached(b)
        \/ Stuck
        \/ Finished

Spec == Init /\ [][Next]_vars

\* Bunches are numbered as they are made, at most one for a connection.
Numbers == 1..MaxConnections

(***************************************************************************)
(* Fairness.  The runtime polls what is ready; a read from the socket ends *)
(* within a second; scripts are assumed to exit.  A bunch takes its        *)
(* messages, and its updates come to an end (ShutdownServed and UpdateEnds *)
(* of ServiceBunch).  Weak fairness is enough, because connections, files, *)
(* failing checks and reports, of which nothing is assumed, are bounded:   *)
(* without end they would need the random choice of select! and the order  *)
(* in which a channel serves its senders.                                  *)
(***************************************************************************)
Fairness ==
    /\ WF_vars(Execute \/ ExecuteNothing \/ SpawnDone \/ ScriptExits
               \/ SendUpdate)
    /\ WF_vars(TakeCommand)
    /\ WF_vars(TakeMessage)
    /\ WF_vars(JoinBunch)
    /\ \A b \in Numbers :
          /\ WF_vars(b \in DOMAIN bunches
                     /\ (BunchReceives(b) \/ UpdateOver(b) \/ Announce(b)))
          /\ WF_vars(b \in DOMAIN bunches /\ SendReport(b))
          /\ WF_vars(b \in DOMAIN bunches /\ SendShutdown(b))

FairSpec == Spec /\ Fairness

-----------------------------------------------------------------------------
(* Type invariant. *)

TypeOK ==
    /\ future \in {"select", "executing", "spawning", "script", "sending",
                  "blocked"}
    /\ commands \in Seq(Command)
    /\ bunches \in Seq(Bunch)
    /\ at_bunch \in DOMAIN bunches \cup {0}
    /\ connections \in Seq(DOMAIN bunches)
    /\ messages \in Seq(Message)
    /\ accepted \in Nat
    /\ events \in Nat
    /\ reported \in Nat
    /\ failed \in Nat

(* Safety. *)

\* No bunch escapes control: one whose task runs can be reached through the
\* list, or a Shutdown is under way to it or in its queue.  One without a task
\* is in the hands of spawn, or was lost there when a connection was accepted;
\* in no other way does a bunch vanish.
UnderControl ==
    \A b \in DOMAIN bunches :
       /\ bunches[b].at \in Active =>
             \/ b \in Listed
             \/ bunches[b].despawned
             \/ "Shutdown" \in ToSet(bunches[b].rx)
       /\ bunches[b].at = "held" <=> (future = "spawning" /\ at_bunch = b)

\* Shutdown is the controller's last word to a bunch: once it is on its way, the
\* bunch is listed no more (it was listed once, so no name leads to it, and no
\* StartUpdate is sent to it, not even one that waits for room).  Behind it in
\* the queue there can only be failed checks, whose tasks hold senders of their
\* own and know of no end.
ShutdownIsLast ==
    /\ IsInjective(connections)
    /\ \A b \in DOMAIN bunches :
          LET rx == bunches[b].rx IN
          /\ (bunches[b].despawned \/ "Shutdown" \in ToSet(rx)) =>
                /\ b \notin Listed
                /\ ~(future = "sending" /\ at_bunch = b)
          /\ \A i \in DOMAIN rx :
                rx[i] = "Shutdown" =>
                   /\ ~bunches[b].despawned
                   /\ \A j \in DOMAIN rx : j > i => rx[j] = "HealthCheckFailed"

(* Liveness. *)

\* Every command queued is carried out, also with full queues, bunches that end
\* and scripts and updates in progress, unless the daemon comes to one of two
\* waits: for room in its own queue of commands, or for a bunch that waits for
\* it.  Nothing else can keep it.
CommandsServed == (commands # <<>>) ~> (commands = <<>> \/ Blocked \/ MutualWait)

\* A bunch that was despawned ends, and its end is noticed, also when its queue
\* is full of updates and failed checks, and when it waits itself for room in
\* the controller's.  The same two waits are all that can keep it.
DespawnedEnds ==
    \A b \in Numbers :
       (b \in DOMAIN bunches /\ bunches[b].despawned)
          ~> \/ b \in DOMAIN bunches /\ bunches[b].at = "joined"
             \/ Blocked
             \/ MutualWait

(* What comments of the code say, and the code does not do. *)

\* main.rs:45, "Stop service with name, specified in the config": when the
\* controller has carried out a Stop, no bunch of that service goes on without
\* having been told to stop.  (A service listed already is spawned again all
\* the same, and a bunch that ended stays listed in front of a new one.)
StopStops ==
    [][\A s \in Services :
         (future = "select" /\ commands # <<>> /\ commands' = Tail(commands)
            /\ Head(commands) = [do |-> "Stop", service |-> s])
          => ~\E b \in ToSet(connections') :
                 bunches'[b].service = s /\ bunches'[b].at \in Active]_vars
=============================================================================
