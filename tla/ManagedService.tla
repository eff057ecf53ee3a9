--------------------------- MODULE ManagedService ---------------------------
(***************************************************************************)
(* One service as the world outside sees it: the addresses in the load     *)
(* balancer's configuration, which the update script edits, and the files  *)
(* of its executables.                                                     *)
(*                                                                         *)
(* The controller (bunch_controller.rs) handles the reports of the bunch,  *)
(* which arrive in any order, and waits for each run of the script; a      *)
(* connection to the control socket cuts that wait short, not the script.  *)
(* The scripts are the two in the repository: bash/nginx-update and        *)
(* examples/nginx-update.rs.  The daemon may be killed at any time.        *)
(*                                                                         *)
(* A bunch is reduced to the addresses in its two vectors; a bunch that is *)
(* stopping counts as off.  Files are dropped by a careful operator: never *)
(* while an update is going on.                                            *)
(***************************************************************************)
EXTENDS Naturals, FiniteSets, Bags, SequencesExt

CONSTANTS
    Addrs,          \* addresses of units
    Within,         \* pairs <<a, b>>: a's text is part of b's
    Instances,      \* what instances_count may be
    NoFile,         \* no backup file
    MaxStarts,      \* bound: units that commands start
    MaxIncidents    \* bound: starts after the first, units that fail, updates given
                    \* up, scripts that cannot be run, panic or fail half way, waits
                    \* cut short by a connection, new executables, and the daemon
                    \* killed, together

ASSUME WithinAssumption == Within \subseteq Addrs \X Addrs
ASSUME InstancesAssumption == Instances \subseteq 1..Cardinality(Addrs)
ASSUME NoFileAssumption == \A addrs \in SUBSET Addrs : NoFile # addrs
ASSUME BoundsAssumption == MaxStarts \in Nat /\ MaxIncidents \in Nat

VARIABLES
    update_exec,     \* which script is configured
    instances_count, \* how many units are
    bunch,       \* what the bunch is at
    units,       \* addresses in stable_connections
    fresh,       \* addresses in new_connections
    unheard,     \* how many units were retired whose error is still to come
    outbox,      \* the bag of reports with detached tasks, or in the channel
    event,       \* a file creation, or its StartUpdate, is under way
    main,        \* the await, or file operation, the main task is at
    scripts,     \* processes of the update script
    conf,        \* addresses in the load balancer's configuration
    bak,         \* the backup the bash script keeps of it
    stable, new, \* versions of the executables, 0 if there is no file
    excused,     \* history: see ServedOrExcused
    torn,        \* history: the daemon was killed between remove and rename
    count        \* what was spent of the bounds

configVars == <<update_exec, instances_count>>
bunchVars  == <<bunch, units, fresh, unheard>>
scriptVars == <<scripts, conf, bak, excused>>
fileVars   == <<stable, new, torn>>
vars == <<configVars, bunchVars, outbox, event, main, scriptVars, fileVars,
          count>>

\* Units are started, and n things happen that are bounded.
Spend(starts, n) ==
    /\ count.incidents + n <= MaxIncidents
    /\ count' = [count EXCEPT !.starts = @ + starts, !.incidents = @ + n]

Incidents(n) == Spend(0, n)

Incident == Incidents(1)

InUse == ToSet(units) \cup ToSet(fresh)

-----------------------------------------------------------------------------
(* The bunch (mod.rs).  A report names addresses that came and went.       *)

Report == [type : {"Spawned", "Despawned", "Replaced", "UpdateFinished"},
           came : SUBSET Addrs, went : SUBSET Addrs]

NewReport(type, came, went) == [type |-> type, came |-> came, went |-> went]

Spawned(addrs)   == NewReport("Spawned", addrs, {})
Despawned(addrs) == NewReport("Despawned", {}, addrs)
UpdateFinished   == NewReport("UpdateFinished", {}, {})

\* Variant: old and new are mixed up.
Replaced_Swapped(old, addr) == NewReport("Replaced", {old}, {addr})

Replaced(old, addr) == NewReport("Replaced", {addr}, {old})

Tell(reports) == outbox' = outbox (+) SetToBag(reports)

Off == /\ bunch' = "off"
       /\ units' = <<>>
       /\ fresh' = <<>>
       /\ unheard' = 0

\* A stable unit fails and is started again at whatever address is found.
Restart ==
    /\ bunch = "running"
    /\ stable # 0
    /\ Incident
    /\ \E i \in DOMAIN units : \E addr \in Addrs :
          /\ units' = Append(RemoveAt(units, i), addr)
          /\ Tell({Replaced(units[i], addr)})
    /\ UNCHANGED <<configVars, bunch, fresh, unheard, event, main, scriptVars,
                   fileVars>>

\* The error of a unit that is not stable, because it was retired meanwhile or is
\* left over from an update: it is started again too, in place of nothing, and
\* nobody is told.
RestartUnlisted ==
    /\ bunch = "running"
    /\ stable # 0
    /\ \/ unheard > 0 /\ unheard' = unheard - 1 /\ UNCHANGED count
       \/ fresh # <<>> /\ Incident /\ UNCHANGED unheard
    /\ \E addr \in Addrs : /\ units' = Append(units, addr)
                           /\ excused' = excused \cup {addr}
    /\ UNCHANGED <<configVars, bunch, fresh, outbox, event, main, scripts, conf,
                   bak, fileVars>>

\* Without an executable these panic, and the bunch with them.
RestartPanics ==
    /\ bunch = "running"
    /\ stable = 0
    /\ \/ Incident
       \/ unheard > 0 /\ UNCHANGED count
    /\ Off
    /\ UNCHANGED <<configVars, outbox, event, main, scriptVars, fileVars>>

\* Shutdown, or failures beyond the limit (terminate).
Stop ==
    /\ bunch = "running"
    /\ Tell({Despawned(ToSet(units))})
    /\ Off
    /\ UNCHANGED <<configVars, event, main, scriptVars, fileVars, count>>

\* start_update, up to its sleep: the first unit of the new version.  Or there is
\* no address for it.
StartUpdate ==
    /\ event
    /\ bunch = "running"
    /\ new # 0
    /\ event' = FALSE
    /\ \/ /\ bunch' = "rolling"
          /\ \E addr \in Addrs : /\ fresh' = Append(fresh, addr)
                                 /\ Tell({Spawned({addr})})
          /\ UNCHANGED count
       \/ /\ Incident
          /\ UNCHANGED <<bunch, fresh, outbox>>
    /\ UNCHANGED <<configVars, units, unheard, main, scriptVars, fileVars>>

\* Variant: UpdateFinished is sent for every unit.
Retired_Finishes == {Despawned({Last(fresh)}), UpdateFinished}

\* UnitDespawned names the unit that came.
Retired == {Despawned({Last(fresh)})}

\* From sleep to sleep: the last stable unit goes, which may have exited before, and
\* another of the new version comes, or there is no address for it and the update is
\* given up as it stands, or all are replaced: swap, and UpdateFinished.
Roll ==
    /\ bunch = "rolling"
    /\ \E gone \in {0, 1} :
          /\ unheard' = unheard + gone
          /\ \/ /\ Len(units) > 1
                /\ Incidents(gone)
                /\ units' = Front(units)
                /\ \E addr \in Addrs : /\ fresh' = Append(fresh, addr)
                                       /\ Tell(Retired \cup {Spawned({addr})})
                /\ UNCHANGED bunch
             \/ /\ Len(units) > 1
                /\ Incidents(gone + 1)
                /\ units' = Front(units)
                /\ bunch' = "running"
                /\ Tell(Retired)
                /\ UNCHANGED fresh
             \/ /\ Len(units) = 1
                /\ Incidents(gone)
                /\ units' = fresh
                /\ fresh' = <<>>
                /\ bunch' = "running"
                /\ Tell(Retired \cup {UpdateFinished})
    /\ UNCHANGED <<configVars, event, main, scriptVars, fileVars>>

\* The task of the unit to be retired has ended: terminate fails, and its unwrap.
RollPanics ==
    /\ bunch = "rolling"
    /\ Incident
    /\ Off
    /\ UNCHANGED <<configVars, outbox, event, main, scriptVars, fileVars>>

-----------------------------------------------------------------------------
(* run_update_script. *)

(***************************************************************************)
(* The arguments: --add, and the addresses passed with --remove.  If some  *)
(* come and some go, those in common are left out, and the ones to go are  *)
(* passed with --rm, which neither script knows: bash stops parsing there, *)
(* the other exits with an error.                                          *)
(***************************************************************************)
Args(came, went) ==
    LET both == came # {} /\ went # {} IN
    [add |-> came \ went, remove |-> IF both THEN {} ELSE went,
     refused |-> both /\ went \ came # {} /\ update_exec = "rust"]

\* at: the next thing the script does; old: what the report says is gone;
\* clean: it ran alone and met no error so far; waited: by the main task.
Script == [add : SUBSET Addrs, remove : SUBSET Addrs, old : SUBSET Addrs,
           at : {"read", "write", "writing", "test", "reverting"},
           saved : SUBSET Addrs, clean : BOOLEAN, waited : BOOLEAN]

\* failures: 1 if the script cannot be spawned, which is logged and no more.
Scripted(came, went, held, failures) ==
    LET args == Args(came, went)
        script == [add |-> args.add, remove |-> args.remove, old |-> went \ came,
                   at |-> "read", saved |-> {}, clean |-> scripts = <<>>,
                   waited |-> TRUE]
        others == [k \in DOMAIN scripts |-> [scripts[k] EXCEPT !.clean = FALSE]]
        mixed  == UNION {scripts[k].add : k \in DOMAIN scripts}
    IN
    IF args.refused \/ failures = 1
    THEN /\ excused' = excused \cup args.add
         /\ UNCHANGED <<scripts, conf, bak>>
         /\ main' = "select"
    ELSE /\ scripts' = Append(others, script)
         /\ excused' = excused
               \cup (args.remove \cap held)
               \cup (IF scripts = <<>> THEN {} ELSE args.add \cup mixed)
         /\ UNCHANGED <<conf, bak>>
         /\ main' = "script"

\* conf_s.contains(add) of the one; the other compares whole words.
Skipped(s) == IF update_exec = "rust"
              THEN {a \in s.add : \E b \in s.saved : <<a, b>> \in Within}
              ELSE {}

Edited(s) == (s.saved \ s.remove) \cup (s.add \ Skipped(s))

\* The file is being written, and what will be in it in the end.
Writing(s) == s.at \in {"writing", "reverting"}
Content(s) == IF s.at = "reverting" THEN s.saved ELSE Edited(s)

\* What need not be there of it yet.
Missing(s) == IF Writing(s) THEN Content(s) \ conf ELSE {}
Unwritten == UNION {Missing(scripts[k]) : k \in DOMAIN scripts}

\* The script reads the configuration, or what another has written of it so far; the
\* bash script copies it first.
Read(k) ==
    /\ scripts[k].at = "read"
    /\ \E part \in SUBSET Unwritten :
          /\ scripts' = [scripts EXCEPT ![k].at = "write", ![k].saved = conf \cup part]
          /\ bak' = IF update_exec = "bash" THEN conf \cup part ELSE bak
          /\ excused' = excused \cup (Unwritten \ part)
    /\ UNCHANGED <<configVars, bunchVars, outbox, event, main, conf, fileVars,
                   count>>

\* It truncates the file and starts to write (File::create and a BufWriter), or moves
\* one into its place that another run of it may have truncated (temp.conf).  Others
\* may find any part of what it writes there.
Overwrite(k) ==
    /\ scripts[k].at = "write"
    /\ conf' = {}
    /\ scripts' = [scripts EXCEPT ![k].at = "writing"]
    /\ UNCHANGED <<configVars, bunchVars, outbox, event, main, bak, fileVars,
                   excused, count>>

\* All is written.
Write(k) ==
    /\ scripts[k].at = "writing"
    /\ conf' = Edited(scripts[k])
    /\ scripts' = [scripts EXCEPT ![k].at = "test",
                                  ![k].add = @ \ Skipped(scripts[k]),
                                  ![k].saved = IF update_exec = "rust" THEN @
                                                                       ELSE {}]
    /\ excused' = excused \cup (Skipped(scripts[k]) \ scripts[k].saved)
    /\ UNCHANGED <<configVars, bunchVars, outbox, event, main, bak, fileVars,
                   count>>

\* awk, mv or sed fails, and the bash script goes on.
Skip(k) ==
    /\ update_exec = "bash"
    /\ scripts[k].at = "write"
    /\ Incident
    /\ scripts' = [scripts EXCEPT ![k].at = "test", ![k].clean = FALSE]
    /\ excused' = excused \cup scripts[k].add
    /\ UNCHANGED <<configVars, bunchVars, outbox, event, main, conf, bak, fileVars>>

\* The script exits; the main task goes on if it waits for it.
ExitScript(k) ==
    /\ scripts' = RemoveAt(scripts, k)
    /\ main' = IF scripts[k].waited THEN "select" ELSE main
    /\ bunch' = IF scripts[k].waited /\ bunch = "held" THEN "running" ELSE bunch

\* nginx -t is content.
TestOk(k) ==
    /\ scripts[k].at = "test"
    /\ ExitScript(k)
    /\ bak' = IF update_exec = "bash" THEN NoFile ELSE bak
    /\ excused' = IF scripts[k].clean THEN excused \ scripts[k].add ELSE excused
    /\ UNCHANGED <<configVars, units, fresh, unheard, outbox, event, conf,
                   fileVars, count>>

\* An expect panics: the file cannot be opened, read, created or written.
Abort(k) ==
    /\ update_exec = "rust"
    /\ scripts[k].at # "test"
    /\ Incident
    /\ ExitScript(k)
    /\ \E part \in SUBSET Missing(scripts[k]) :
          /\ conf' = conf \cup part
          /\ excused' = excused \cup scripts[k].add \cup (Missing(scripts[k]) \ part)
    /\ UNCHANGED <<configVars, units, fresh, unheard, outbox, event, bak,
                   fileVars>>

\* Variant: the backup is taken to be there.
RevertBash_Blind(k) ==
    /\ update_exec = "bash"
    /\ ExitScript(k)
    /\ conf' = bak
    /\ bak' = NoFile

\* Back to the backup, which may be another run's, or gone.
RevertBash(k) ==
    /\ update_exec = "bash"
    /\ ExitScript(k)
    /\ conf' = IF bak # NoFile THEN bak ELSE conf
    /\ bak' = NoFile

\* Back to what was read, written like the rest.
RevertRust(k) ==
    /\ update_exec = "rust"
    /\ scripts' = [scripts EXCEPT ![k].at = "reverting", ![k].clean = FALSE]
    /\ conf' = {}
    /\ UNCHANGED <<bunch, main, bak>>

\* nginx -t is not content.
TestFails(k) ==
    /\ scripts[k].at = "test"
    /\ RevertBash(k) \/ RevertRust(k)
    /\ excused' = excused \cup scripts[k].add
    /\ UNCHANGED <<configVars, units, fresh, unheard, outbox, event, fileVars,
                   count>>

Reverted(k) ==
    /\ scripts[k].at = "reverting"
    /\ ExitScript(k)
    /\ conf' = scripts[k].saved
    /\ UNCHANGED <<configVars, units, fresh, unheard, outbox, event, bak, excused,
                   fileVars, count>>

-----------------------------------------------------------------------------
(* The controller. *)

\* spawn: run finds an address for every unit; the script is waited for with the
\* bunch in hand, if it can be spawned.  (run's UnitsSpawned is sent as well.)
Start ==
    /\ main = "select"
    /\ bunch = "off"
    /\ stable # 0
    /\ (count.starts + 1) * instances_count <= MaxStarts
    /\ units' \in [1..instances_count -> Addrs]
    /\ IsInjective(units')
    /\ Tell({Spawned(ToSet(units'))})
    /\ \E failures \in {0, 1} :
          /\ Spend(1, failures + IF count.starts = 0 THEN 0 ELSE 1)
          /\ Scripted(ToSet(units'), {}, {}, failures)
          /\ bunch' = IF failures = 1 THEN "running" ELSE "held"
    /\ UNCHANGED <<configVars, fresh, unheard, event, fileVars>>

\* A report about units.
TakeReport ==
    /\ main = "select"
    /\ \E report \in BagToSet(outbox) :
          /\ report.type # "UpdateFinished"
          /\ outbox' = outbox (-) SetToBag({report})
          /\ \E failures \in {0, 1} :
                /\ Incidents(failures)
                /\ Scripted(report.came, report.went, InUse, failures)
    /\ UNCHANGED <<configVars, bunchVars, event, fileVars>>

\* UpdateFinished: replace_stable_exec removes the stable executable, if it can,
RemoveStable ==
    /\ main = "select"
    /\ \E report \in BagToSet(outbox) :
          /\ report.type = "UpdateFinished"
          /\ outbox' = outbox (-) SetToBag({report})
    /\ stable' = 0
    /\ main' = IF stable # 0 THEN "renaming" ELSE "select"
    /\ UNCHANGED <<configVars, bunchVars, event, scriptVars, new, torn, count>>

\* and gives its name to the new one, if there is one.  Bunches on other threads
\* may look for it in between.
Rename ==
    /\ main = "renaming"
    /\ stable' = new
    /\ new' = 0
    /\ main' = "select"
    /\ UNCHANGED <<configVars, bunchVars, outbox, event, scriptVars, torn, count>>

\* A file event without a connection to send StartUpdate to.
EventDropped ==
    /\ event
    /\ main = "select"
    /\ bunch = "off"
    /\ event' = FALSE
    /\ UNCHANGED <<configVars, bunchVars, outbox, main, scriptVars, fileVars,
                   count>>

-----------------------------------------------------------------------------
(* The world. *)

\* A connection on the control socket: run_and_wait is dropped, with a bunch that
\* spawn still holds.
Accept ==
    /\ main = "script"
    /\ Incident
    /\ main' = "select"
    /\ scripts' = [k \in DOMAIN scripts |-> [scripts[k] EXCEPT !.waited = FALSE]]
    /\ bunch' = IF bunch = "held" THEN "off" ELSE bunch
    /\ units' = IF bunch = "held" THEN <<>> ELSE units
    /\ UNCHANGED <<configVars, fresh, unheard, outbox, event, conf, bak,
                   excused, fileVars>>

\* A new executable is copied into app_dir.
DropFile ==
    /\ count.incidents < MaxIncidents
    /\ count' = [count EXCEPT !.incidents = @ + 1, !.files = @ + 1]
    /\ ~event
    /\ bunch # "rolling"
    /\ \A report \in BagToSet(outbox) : report.type # "UpdateFinished"
    /\ main # "renaming"
    /\ new' = count.files + 2
    /\ event' = (main # "down")
    /\ UNCHANGED <<configVars, bunchVars, outbox, main, scriptVars, stable, torn>>

\* The daemon is killed: scripts run on, everything else is forgotten.
Crash ==
    /\ main # "down"
    /\ Incident
    /\ main' = "down"
    /\ torn' = (torn \/ main = "renaming")
    /\ Off
    /\ outbox' = EmptyBag
    /\ event' = FALSE
    /\ scripts' = [k \in DOMAIN scripts |-> [scripts[k] EXCEPT !.waited = FALSE]]
    /\ UNCHANGED <<configVars, conf, bak, excused, stable, new>>

\* It is started again.
Boot ==
    /\ main = "down"
    /\ main' = "select"
    /\ UNCHANGED <<configVars, bunchVars, outbox, event, scriptVars, fileVars,
                   count>>

\* Nothing is left to do.
Settled == main = "select" /\ outbox = EmptyBag /\ scripts = <<>> /\ ~event

Rest == Settled /\ UNCHANGED vars

-----------------------------------------------------------------------------
Init ==
    /\ update_exec \in {"bash", "rust"}
    /\ instances_count \in Instances
    /\ bunch = "off"
    /\ units = <<>>
    /\ fresh = <<>>
    /\ unheard = 0
    /\ outbox = EmptyBag
    /\ event = FALSE
    /\ main = "select"
    /\ scripts = <<>>
    /\ conf = {}
    /\ bak = NoFile
    /\ stable = 1
    /\ new = 0
    /\ excused = {}
    /\ torn = FALSE
    /\ count = [starts |-> 0, incidents |-> 0, files |-> 0]

Bunch == Restart \/ RestartUnlisted \/ RestartPanics \/ Stop \/ StartUpdate
         \/ Roll \/ RollPanics

UpdateScript(k) == Read(k) \/ Overwrite(k) \/ Write(k) \/ Skip(k) \/ Abort(k)
                   \/ TestOk(k) \/ TestFails(k) \/ Reverted(k)

Controller == Start \/ TakeReport \/ RemoveStable \/ Rename \/ EventDropped

World == Accept \/ DropFile \/ Crash \/ Boot

Next == \/ Bunch
        \/ \E k \in DOMAIN scripts : UpdateScript(k)
        \/ Controller
        \/ World
        \/ Rest

Spec == Init /\ [][Next]_vars

-----------------------------------------------------------------------------
(* Type invariant. *)

TypeOK ==
    /\ update_exec \in {"bash", "rust"}
    /\ instances_count \in Instances
    /\ bunch \in {"off", "held", "running", "rolling"}
    /\ units \in Seq(Addrs)
    /\ fresh \in Seq(Addrs)
    /\ unheard \in 0..MaxIncidents
    /\ IsABag(outbox) /\ BagToSet(outbox) \subseteq Report
    /\ event \in BOOLEAN
    /\ main \in {"select", "script", "renaming", "down"}
    /\ scripts \in Seq(Script)
    /\ conf # NoFile /\ conf \subseteq Addrs
    /\ bak = NoFile \/ bak \subseteq Addrs
    /\ stable \in 0..(MaxIncidents + 1)
    /\ new \in 0..(MaxIncidents + 1)
    /\ excused \subseteq Addrs
    /\ torn \in BOOLEAN
    /\ count \in [starts : 0..MaxStarts, incidents : 0..MaxIncidents,
                  files : 0..MaxIncidents]

(* Safety. *)

(***************************************************************************)
(* When all reports are handled, the address of every unit of a running    *)
(* bunch is with the load balancer, unless it is excused, that is, since   *)
(* it was last added without any of this                                   *)
(*   - the script to add it could not be spawned, was refused (--rm),      *)
(*     panicked, failed to edit the file, failed nginx -t, found it within *)
(*     another address, or ran at the same time as another,                *)
(*   - it was removed while in use, because a report of its earlier use    *)
(*     came late or because UnitDespawned named the unit that came,        *)
(*   - a script panicked half way through writing the file, or another     *)
(*     read it half way and wrote back what it had read, or                *)
(*   - it was given to a unit started for one that was listed no more, of  *)
(*     which nobody was told.                                              *)
(* In no other way of this model does a unit in service go missing: not by *)
(* the order of reports, not by restarts that reuse addresses, not by      *)
(* tests that fail, not by a crash.                                        *)
(***************************************************************************)
ServedOrExcused ==
    (Settled /\ bunch = "running") => ToSet(units) \subseteq conf \cup excused

\* Under a careful operator a service is without a stable executable only between
\* removal and renaming, for good if the daemon is killed just then; and the last
\* version delivered is never lost.
ExecutableKept ==
    /\ stable = 0 => main = "renaming" \/ torn
    /\ count.files + 1 \in {stable, new}

(* What a comment of the code says, and the code does not do. *)

\* bunch_controller.rs:421, "--remove ... (list of addresses to remove from)": a
\* script that ran alone and met no error leaves no address in the configuration
\* of which its report says that it is gone.
GoneAreRemoved ==
    [][\A k \in DOMAIN scripts :
          (TestOk(k) /\ scripts[k].clean) => scripts[k].old \cap conf' = {}]_vars
=============================================================================
