---------------------------- MODULE OwnershipProofs ----------------------------
(***************************************************************************)
(* Who holds the units of a ServiceBunch, how many are listed, what the    *)
(* controller is told of them, and the life of a unit from its spawn to    *)
(* the end of its task: theorems about the vectors, the detached tasks,    *)
(* the messages and the processes, for every value of the constants.       *)
(***************************************************************************)
EXTENDS ServiceBunchProofs, UpdateHistory

\* Everything that holds a sender of some unit's channel.
Owned == Registered \cup to_stop

\* A step that leaves the number of units, asks none to terminate, and makes
\* none wait that did not.
Quiet(us) ==
    /\ us \in Seq(Unit) /\ Len(us) = Len(units)
    /\ \A u \in DOMAIN units :
          /\ us[u].term => units[u].term
          /\ us[u].task = "waiting" =>
                units[u].task = "waiting" /\ (units[u].term => us[u].term)

\* The inductive invariant: the vectors and the detached tasks.
OwnerInv == SingleOwner /\ NoLostUnit

LEMMA Domains ==
  ASSUME BunchInv
  PROVE  /\ units \in Seq(Unit) /\ Len(units) \in Nat
         /\ DOMAIN units = 1..Len(units)
         /\ stable_connections \in Seq(DOMAIN units)
         /\ new_connections \in Seq(DOMAIN units)
         /\ Owned \subseteq DOMAIN units
         /\ NextUnit \notin DOMAIN units
<1>1. TypeOK
  BY DEF BunchInv
<1>2. units \in Seq(Unit) /\ Len(units) \in Nat /\ DOMAIN units = 1..Len(units)
  BY <1>1 DEF TypeOK
<1>3. Owned \subseteq DOMAIN units
  BY <1>1, VectorType DEF TypeOK, Owned, Registered
<1>4. NextUnit \notin DOMAIN units
  BY <1>2 DEF NextUnit
<1> QED BY <1>1, <1>2, <1>3, <1>4 DEF TypeOK

\* Quiet steps compose with what is already known of the units.
LEMMA QuietSame == ASSUME BunchInv PROVE Quiet(units)
BY Domains DEF Quiet

LEMMA QuietJoin ==
  ASSUME BunchInv, NEW u \in DOMAIN units
  PROVE  Quiet(Join(units, u))
<1>1. units \in Seq(Unit) /\ DOMAIN units = 1..Len(units)
  BY Domains
<1>2. \A v \in 1..Len(units) :
         /\ Join(units, u)[v].term = units[v].term
         /\ Join(units, u)[v].task = IF v = u THEN "joined" ELSE units[v].task
  BY <1>1, JoinProperties
<1>3. Join(units, u) \in Seq(Unit) /\ Len(Join(units, u)) = Len(units)
  BY <1>1, JoinProperties
<1> QED BY <1>1, <1>2, <1>3 DEF Quiet

-----------------------------------------------------------------------------
(* What can happen to the holders, once for all actions.                     *)

\* Nothing moves.
LEMMA HoldersStay ==
  ASSUME BunchInv, OwnerInv, Quiet(units'),
         \/ /\ stable_connections' = stable_connections
            /\ new_connections' = new_connections
         \/ /\ stable_connections' = new_connections
            /\ new_connections' = stable_connections,
         to_stop' = to_stop, Alive' => Alive
  PROVE  OwnerInv'
<1>1. DOMAIN units' = DOMAIN units
  BY Domains DEF Quiet
<1>2. Registered' = Registered
  BY DEF Registered
<1>3. SingleOwner'
  BY <1>1, <1>2 DEF OwnerInv, SingleOwner, Quiet, Held
<1>4. NoLostUnit'
  BY <1>1, <1>2 DEF OwnerInv, NoLostUnit, Quiet, Held
<1> QED BY <1>3, <1>4 DEF OwnerInv

\* The stable connections go to a detached task, the new ones stay or go.
LEMMA HoldersTerminated ==
  ASSUME BunchInv, OwnerInv, Quiet(units'),
         stable_connections' = <<>>,
         to_stop' = to_stop \cup ToSet(stable_connections),
         \/ new_connections' = new_connections /\ (Alive' => Alive)
         \/ new_connections' = <<>> /\ ~Alive'
  PROVE  OwnerInv'
<1>1. DOMAIN units' = DOMAIN units
  BY Domains DEF Quiet
<1>2. /\ ToSet(<<>>) = {} /\ IsInjective(<<>>)
  BY EmptyVector
<1>3. /\ ToSet(stable_connections') = {} /\ IsInjective(stable_connections')
      /\ IsInjective(new_connections')
      /\ ToSet(new_connections') \subseteq ToSet(new_connections)
  BY <1>2 DEF OwnerInv, SingleOwner
<1>4. SingleOwner'
  BY <1>1, <1>3 DEF OwnerInv, SingleOwner, Quiet, Held, Registered
<1>5. NoLostUnit'
  BY <1>1, <1>3 DEF OwnerInv, NoLostUnit, Quiet, Held, Registered
<1> QED BY <1>4, <1>5 DEF OwnerInv

\* Both vectors are dropped with the bunch.
LEMMA HoldersDropped ==
  ASSUME BunchInv, OwnerInv, Quiet(units'),
         stable_connections' = <<>>, new_connections' = <<>>,
         to_stop' = to_stop, ~Alive'
  PROVE  OwnerInv'
<1>1. DOMAIN units' = DOMAIN units
  BY Domains DEF Quiet
<1>2. /\ ToSet(<<>>) = {} /\ IsInjective(<<>>)
  BY EmptyVector
<1>3. SingleOwner'
  BY <1>1, <1>2 DEF OwnerInv, SingleOwner, Quiet, Held, Registered
<1> QED BY <1>3 DEF OwnerInv, NoLostUnit

\* A unit is spawned beside others that change quietly.
LEMMA QuietSpawn ==
  ASSUME BunchInv, NEW us, Quiet(us), NEW a \in Addrs, NEW v \in UnitVersion,
         units' = Append(us, NewUnit(a, v))
  PROVE  /\ DOMAIN units' = DOMAIN units \cup {NextUnit}
         /\ ~units'[NextUnit].term
         /\ \A u \in DOMAIN units :
               /\ units'[u].term => units[u].term
               /\ units'[u].task = "waiting" =>
                     units[u].task = "waiting" /\ (units[u].term => units'[u].term)
<1>1. Len(units) \in Nat /\ DOMAIN units = 1..Len(units) /\ us \in Seq(Unit)
      /\ Len(us) = Len(units)
  BY Domains DEF Quiet
<1>2. /\ DOMAIN Append(us, NewUnit(a, v)) = 1..(Len(us) + 1)
      /\ \A u \in 1..Len(us) : Append(us, NewUnit(a, v))[u] = us[u]
      /\ Append(us, NewUnit(a, v))[Len(us) + 1].term = FALSE
  BY <1>1, SpawnProperties, Zenon
<1>3. /\ DOMAIN units' = 1..(Len(units) + 1)
      /\ \A u \in 1..Len(units) : units'[u] = us[u]
      /\ units'[Len(units) + 1].term = FALSE
  BY <1>1, <1>2, Zenon
<1> QED BY <1>1, <1>3 DEF Quiet, NextUnit

\* A unit is replaced: it is put down by a detached task or is done already.
LEMMA HoldersReplaced ==
  ASSUME BunchInv, OwnerInv, NEW us, Quiet(us),
         NEW a \in Addrs, NEW v \in UnitVersion,
         units' = Append(us, NewUnit(a, v)),
         NEW u \in DOMAIN units,
         stable_connections' = Replaced(u), new_connections' = new_connections,
         Alive' => Alive,
         \/ to_stop' = to_stop \cup {u} /\ u \in ToSet(stable_connections)
         \/ to_stop' = to_stop /\ us[u].task # "waiting"
  PROVE  OwnerInv'
<1> DEFINE s == Append(stable_connections, NextUnit)
<1>1. /\ stable_connections \in Seq(DOMAIN units)
      /\ Owned \subseteq DOMAIN units /\ NextUnit \notin DOMAIN units
  BY Domains
<1>2. /\ DOMAIN units' = DOMAIN units \cup {NextUnit}
      /\ ~units'[NextUnit].term
      /\ \A w \in DOMAIN units :
            /\ units'[w].term => units[w].term
            /\ units'[w].task = "waiting" =>
                  units[w].task = "waiting" /\ (units[w].term => units'[w].term)
  BY QuietSpawn
<1>3. /\ s \in Seq(DOMAIN units \cup {NextUnit})
      /\ ToSet(s) = ToSet(stable_connections) \cup {NextUnit}
      /\ IsInjective(s)
  <2>1. stable_connections \in Seq(DOMAIN units \cup {NextUnit})
    BY <1>1, VectorType
  <2>2. IsInjective(stable_connections) /\ NextUnit \notin ToSet(stable_connections)
    BY <1>1 DEF OwnerInv, SingleOwner, Owned, Registered
  <2> QED BY <2>1, <2>2, PushProperties
<1> HIDE DEF s
<1>4. /\ IsInjective(stable_connections') /\ u \notin ToSet(stable_connections')
      /\ ToSet(stable_connections') \subseteq ToSet(stable_connections) \cup {NextUnit}
      /\ (ToSet(stable_connections) \cup {NextUnit}) \ {u} \subseteq
            ToSet(stable_connections')
  BY <1>3, TakeProperties DEF Replaced, s
<1>5. NextUnit \in ToSet(stable_connections')
  BY <1>1, <1>4
<1>6. SingleOwner'
  <2>1. ToSet(stable_connections') \cap ToSet(new_connections') = {}
    BY <1>1, <1>4 DEF OwnerInv, SingleOwner, Owned, Registered
  <2>2. to_stop' \cap Registered' = {}
    BY <1>1, <1>4 DEF OwnerInv, SingleOwner, Owned, Registered
  <2>3. ASSUME NEW w \in DOMAIN units', units'[w].term PROVE ~Held(w)'
    <3>1. w \in DOMAIN units /\ units[w].term /\ w # NextUnit
      BY <1>1, <1>2, <2>3
    <3>2. w \notin Registered /\ w \notin to_stop
      BY <3>1 DEF OwnerInv, SingleOwner, Held
    <3> QED BY <1>4, <3>1, <3>2 DEF Held, Registered
  <2> QED BY <1>4, <2>1, <2>2, <2>3 DEF OwnerInv, SingleOwner
<1>7. NoLostUnit'
  <2> SUFFICES ASSUME Alive', NEW w \in DOMAIN units', units'[w].task = "waiting"
               PROVE  Held(w)' \/ units'[w].term
    BY DEF NoLostUnit
  <2>1. CASE w = NextUnit
    BY <1>5, <2>1 DEF Held, Registered
  <2>2. CASE w # NextUnit /\ w # u
    <3>1. /\ w \in DOMAIN units /\ units[w].task = "waiting"
          /\ units[w].term => units'[w].term
      BY <1>2, <2>2
    <3>2. w \in Registered \/ w \in to_stop \/ units[w].term
      BY <3>1 DEF OwnerInv, NoLostUnit, Held
    <3> QED BY <1>4, <2>2, <3>1, <3>2 DEF Held, Registered
  <2>3. CASE w = u
    <3>1. to_stop' = to_stop \cup {u} \/ us[u].task # "waiting"
      OBVIOUS
    <3>2. units'[u] = us[u]
      BY Domains, SpawnProperties DEF Quiet
    <3> QED BY <2>3, <3>1, <3>2 DEF Held
  <2> QED BY <2>1, <2>2, <2>3
<1> QED BY <1>6, <1>7 DEF OwnerInv

-----------------------------------------------------------------------------
(* Every action keeps the invariant.                                         *)

\* ServiceBunch::terminate, on a bunch that goes on or leaves.
LEMMA TerminateOwner ==
  ASSUME BunchInv, OwnerInv, Quiet(units'), terminate,
         \/ new_connections' = new_connections /\ (Alive' => Alive)
         \/ new_connections' = <<>> /\ ~Alive'
  PROVE  OwnerInv'
BY HoldersTerminated DEF terminate

\* A handler panics.
LEMMA PanicOwner ==
  ASSUME BunchInv, OwnerInv, Quiet(units'), SpawnPanics \/ LookupPanics
  PROVE  OwnerInv'
<1>1. new_connections' = <<>> /\ ~Alive'
  BY DEF SpawnPanics, LookupPanics, Leave, Alive
<1>2. \/ terminate
      \/ stable_connections' = <<>> /\ to_stop' = to_stop
  BY DEF SpawnPanics, LookupPanics
<1>3. CASE terminate
  BY <1>1, <1>3, TerminateOwner
<1>4. CASE stable_connections' = <<>> /\ to_stop' = to_stop
  BY <1>1, <1>4, HoldersDropped
<1> QED BY <1>2, <1>3, <1>4

\* Service::run of the bunch.
LEMMA RunOwner ==
  ASSUME BunchInv, Next, Run \/ RunSpawnFails \/ RunNoAddress
  PROVE  OwnerInv'
<1>0. /\ pc = "new" /\ new_connections = <<>> /\ stable_connections = <<>>
      /\ to_stop = {} /\ units = <<>>
  BY DEF Run, RunSpawnFails, RunNoAddress, BunchInv, Untouched
<1>1. CASE Run
  <2>1. PICK as \in AddressLists(InstancesCount) :
           /\ units' = [i \in 1..Len(as) |-> NewUnit(as[i], "Stable")]
           /\ stable_connections' = [i \in 1..Len(as) |-> i]
    BY <1>1 DEF Run
  <2>2. new_connections' = <<>> /\ to_stop' = {}
    BY <1>0, <1>1 DEF Run
  <2>3. IsInjective(stable_connections') /\ ToSet(stable_connections') = 1..Len(as)
    BY <2>1 DEF IsInjective, ToSet
  <2>4. DOMAIN units' = 1..Len(as) /\ \A u \in 1..Len(as) : ~units'[u].term
    BY <2>1 DEF NewUnit
  <2> QED BY <2>2, <2>3, <2>4, EmptyVector
          DEF OwnerInv, SingleOwner, NoLostUnit, Held, Registered
<1>2. CASE RunSpawnFails
  <2>1. PICK as \in AddressLists(InstancesCount), k \in 0..MaxUnits :
           /\ units' = [i \in 1..k |-> NewUnit(as[i], "Stable")]
           /\ to_stop' = 1..k
    BY <1>2 DEF RunSpawnFails
  <2>2. stable_connections' = <<>> /\ new_connections' = <<>>
    BY <1>0, <1>2 DEF RunSpawnFails
  <2>3. DOMAIN units' = 1..k /\ \A u \in 1..k : ~units'[u].term
    BY <2>1 DEF NewUnit
  <2> QED BY <2>1, <2>2, <2>3, EmptyVector
          DEF OwnerInv, SingleOwner, NoLostUnit, Held, Registered
<1>3. CASE RunNoAddress
  <2>1. /\ stable_connections' = <<>> /\ new_connections' = <<>>
        /\ to_stop' = {} /\ units' = <<>>
    BY <1>0, <1>3 DEF RunNoAddress
  <2> QED BY <2>1, EmptyVector
          DEF OwnerInv, SingleOwner, NoLostUnit, Held, Registered
<1> QED BY <1>1, <1>2, <1>3

\* The join_next branch.
LEMMA JoinOwner ==
  ASSUME BunchInv, OwnerInv, Next, JoinNext
  PROVE  OwnerInv'
<1>0. Alive' => Alive
  BY AliveStep
<1>1. CASE JoinOk
  <2>1. Quiet(units')
    BY <1>1, QuietJoin DEF JoinOk
  <2> QED BY <1>0, <1>1, <2>1, HoldersStay DEF JoinOk, bunchVars
<1>2. CASE JoinNone
  <2>1. Quiet(units') /\ ~Alive'
    BY <1>2, QuietSame DEF JoinNone, Leave, Alive
  <2> QED BY <1>2, <2>1, HoldersDropped DEF JoinNone, Leave
<1>3. CASE JoinErr
  <2>1. PICK u \in DOMAIN units :
           JoinErrLimit(u) \/ JoinErrRestart(u) \/ JoinErrPanics(u)
    BY <1>3 DEF JoinErr
  <2>2. Quiet(Join(units, u))
    BY QuietJoin
  <2>3. CASE JoinErrLimit(u)
    <3>1. Quiet(units') /\ new_connections' = new_connections
      BY <2>2, <2>3 DEF JoinErrLimit
    <3>2. CASE is_stable_pid(u)
      BY <1>0, <2>3, <3>1, <3>2, TerminateOwner DEF JoinErrLimit
    <3>3. CASE ~is_stable_pid(u)
      BY <1>0, <2>3, <3>1, <3>3, HoldersStay DEF JoinErrLimit
    <3> QED BY <3>2, <3>3
  <2>4. CASE JoinErrRestart(u)
    <3>1. PICK a \in Addrs : units' = Append(Join(units, u), NewUnit(a, "Stable"))
      BY <2>4 DEF JoinErrRestart
    <3>2. Join(units, u)[u].task # "waiting"
      BY Domains, JoinProperties
    <3>3. "Stable" \in UnitVersion
      BY DEF UnitVersion
    <3>4. /\ stable_connections' = Replaced(u)
          /\ new_connections' = new_connections /\ to_stop' = to_stop
      BY <2>4 DEF JoinErrRestart
    <3> QED BY <1>0, <2>2, <3>1, <3>2, <3>3, <3>4, HoldersReplaced
  <2>5. CASE JoinErrPanics(u)
    BY <2>2, <2>5, PanicOwner DEF JoinErrPanics
  <2> QED BY <2>1, <2>3, <2>4, <2>5
<1> QED BY <1>1, <1>2, <1>3 DEF JoinNext

\* The controller_rx branch.
LEMMA ReceiveOwner ==
  ASSUME BunchInv, OwnerInv, Next, Receive
  PROVE  OwnerInv'
<1>0. (Alive' => Alive) /\ Quiet(units)
  BY AliveStep, QuietSame
<1>1. CASE RecvStartUpdate
  BY <1>0, <1>1, HoldersStay DEF RecvStartUpdate
<1>2. CASE RecvShutdown \/ RecvNone
  <2>1. /\ Quiet(units') /\ terminate /\ new_connections' = <<>> /\ ~Alive'
    BY <1>0, <1>2 DEF RecvShutdown, RecvNone, Leave, Alive
  <2> QED BY <2>1, TerminateOwner
<1>3. CASE RecvHealthCheckFailed
  <2>1. CASE UNCHANGED <<stable_connections, new_connections, to_stop, units>>
    BY <1>0, <2>1, HoldersStay
  <2>2. CASE \E i \in DOMAIN stable_connections :
                LET u == stable_connections[i] IN
                CheckLimit(u) \/ CheckReplace(u) \/ CheckPanics(u)
    <3>1. PICK u \in ToSet(stable_connections) :
             CheckLimit(u) \/ CheckReplace(u) \/ CheckPanics(u)
      BY <2>2 DEF ToSet
    <3>2. u \in DOMAIN units
      BY Domains, VectorType
    <3>3. CASE CheckLimit(u)
      BY <1>0, <3>3, TerminateOwner DEF CheckLimit
    <3>4. CASE CheckReplace(u)
      <4>1. PICK a \in Addrs : units' = Append(units, NewUnit(a, "Stable"))
        BY <3>4 DEF CheckReplace
      <4>2. "Stable" \in UnitVersion
        BY DEF UnitVersion
      <4>3. /\ stable_connections' = Replaced(u)
            /\ new_connections' = new_connections
            /\ to_stop' = to_stop \cup {u}
        BY <3>4 DEF CheckReplace, Retire
      <4> QED BY <1>0, <3>2, <4>1, <4>2, <4>3, HoldersReplaced
    <3>5. CASE CheckPanics(u)
      BY <1>0, <3>5, PanicOwner DEF CheckPanics
    <3> QED BY <3>1, <3>3, <3>4, <3>5
  <2> QED BY <1>3, <2>1, <2>2 DEF RecvHealthCheckFailed, At, bunchVars
<1> QED BY <1>1, <1>2, <1>3 DEF Receive

\* A rolling update spawns a unit of the new version.
LEMMA UpdateSpawnOwner ==
  ASSUME BunchInv, OwnerInv, Next, UpdateSpawn
  PROVE  OwnerInv'
<1>0. (Alive' => Alive) /\ Quiet(units)
  BY AliveStep, QuietSame
<1>1. /\ new_connections \in Seq(DOMAIN units)
      /\ Owned \subseteq DOMAIN units /\ NextUnit \notin DOMAIN units
  BY Domains
<1>2. PICK a \in Addrs : units' = Append(units, NewUnit(a, "New"))
  BY DEF UpdateSpawn
<1>3. /\ DOMAIN units' = DOMAIN units \cup {NextUnit}
      /\ ~units'[NextUnit].term
      /\ \A w \in DOMAIN units :
            /\ units'[w].term => units[w].term
            /\ units'[w].task = "waiting" =>
                  units[w].task = "waiting" /\ (units[w].term => units'[w].term)
  <2>1. "New" \in UnitVersion
    BY DEF UnitVersion
  <2> QED BY <1>0, <1>2, <2>1, QuietSpawn
<1>4. /\ ToSet(new_connections') = ToSet(new_connections) \cup {NextUnit}
      /\ IsInjective(new_connections')
  <2>1. new_connections \in Seq(DOMAIN units \cup {NextUnit})
    BY <1>1, VectorType
  <2>2. IsInjective(new_connections) /\ NextUnit \notin ToSet(new_connections)
    BY <1>1 DEF OwnerInv, SingleOwner, Owned, Registered
  <2>3. new_connections' = Append(new_connections, NextUnit)
    BY DEF UpdateSpawn
  <2> QED BY <2>1, <2>2, <2>3, PushProperties
<1>5. stable_connections' = stable_connections /\ to_stop' = to_stop
  BY DEF UpdateSpawn
<1>6. SingleOwner'
  BY <1>1, <1>3, <1>4, <1>5 DEF OwnerInv, SingleOwner, Owned, Held, Registered
<1>7. NoLostUnit'
  BY <1>0, <1>1, <1>3, <1>4, <1>5 DEF OwnerInv, NoLostUnit, Held, Registered
<1> QED BY <1>6, <1>7 DEF OwnerInv

\* After the sleep a stable unit is retired.
LEMMA RollStepOwner ==
  ASSUME BunchInv, OwnerInv, Next, RollStep
  PROVE  OwnerInv'
<1> DEFINE u == Last(stable_connections)
<1>0. /\ Alive' => Alive
      /\ state = "Updating" /\ stable_connections # <<>>
  BY AliveStep DEF RollStep, BunchInv, RollingOnlyInUpdating
<1>1. CASE units[u].task # "waiting"
  <2>1. /\ Quiet(units') /\ ~Alive' /\ stable_connections' = <<>>
        /\ new_connections' = <<>> /\ to_stop' = to_stop
    BY <1>1, QuietSame DEF RollStep, Leave, Alive
  <2> QED BY <2>1, HoldersDropped
<1>2. CASE units[u].task = "waiting"
  <2>1. /\ stable_connections' = Front(stable_connections)
        /\ new_connections' = new_connections /\ to_stop' = to_stop
        /\ units' = Request(units, {u})
    BY <1>0, <1>2 DEF RollStep
  <2>2. /\ units \in Seq(Unit) /\ DOMAIN units = 1..Len(units)
        /\ stable_connections \in Seq(DOMAIN units)
    BY Domains
  <2>3. /\ DOMAIN units' = DOMAIN units
        /\ \A w \in DOMAIN units :
              /\ units'[w].task = units[w].task
              /\ units'[w].term =
                    (units[w].term \/ (w \in {u} /\ units[w].task = "waiting"))
    BY <2>1, <2>2, RequestProperties
  <2>4. /\ u \in ToSet(stable_connections)
        /\ ToSet(stable_connections) = ToSet(stable_connections') \cup {u}
        /\ IsInjective(stable_connections') /\ u \notin ToSet(stable_connections')
    BY <1>0, <2>1, <2>2, PopProperties DEF OwnerInv, SingleOwner
  <2> HIDE DEF u
  <2>5. u \in DOMAIN units
    BY <2>2, <2>4, VectorType
  <2>6. SingleOwner'
    <3>1. u \notin ToSet(new_connections) /\ u \notin to_stop
      BY <2>4 DEF OwnerInv, SingleOwner, Registered
    <3> QED BY <2>1, <2>3, <2>4, <3>1 DEF OwnerInv, SingleOwner, Held, Registered
  <2>7. NoLostUnit'
    BY <1>0, <1>2, <2>1, <2>3, <2>4, <2>5
       DEF OwnerInv, NoLostUnit, Held, Registered
  <2> QED BY <2>6, <2>7 DEF OwnerInv
<1> QED BY <1>1, <1>2

\* start_update.
LEMMA UpdateOwner ==
  ASSUME BunchInv, OwnerInv, Next, StartUpdate
  PROVE  OwnerInv'
<1>0. (Alive' => Alive) /\ Quiet(units)
  BY AliveStep, QuietSame
<1>1. CASE UpdateSpawnFails \/ UpdateNoAddress \/ Announce
  BY <1>0, <1>1, HoldersStay DEF UpdateSpawnFails, FailUpdate, UpdateNoAddress,
     Announce
<1>2. CASE LoopExit
  BY <1>0, <1>2, HoldersStay DEF LoopExit, Swap
<1> QED BY <1>1, <1>2, UpdateSpawnOwner, RollStepOwner DEF StartUpdate

\* A detached task asks a unit to terminate.
LEMMA RequestSentOwner ==
  ASSUME BunchInv, OwnerInv, Next, RequestSent
  PROVE  OwnerInv'
<1>1. PICK u \in to_stop :
         /\ units' = Request(units, {u})
         /\ to_stop' = to_stop \ {u}
  BY DEF RequestSent
<1>2. /\ stable_connections' = stable_connections
      /\ new_connections' = new_connections
  BY DEF RequestSent, bunchVars
<1>3. units \in Seq(Unit) /\ DOMAIN units = 1..Len(units)
  BY Domains
<1>4. /\ DOMAIN units' = DOMAIN units
      /\ \A w \in DOMAIN units :
            /\ units'[w].task = units[w].task
            /\ units'[w].term =
                  (units[w].term \/ (w \in {u} /\ units[w].task = "waiting"))
  BY <1>1, <1>3, RequestProperties
<1>5. SingleOwner'
  BY <1>1, <1>2, <1>4 DEF OwnerInv, SingleOwner, Held, Registered
<1>6. NoLostUnit'
  BY <1>1, <1>2, <1>4, AliveStep DEF OwnerInv, NoLostUnit, Held, Registered
<1> QED BY <1>5, <1>6 DEF OwnerInv

\* The drop of the join_set, unit tasks, processes and environment.
LEMMA QuietStep ==
  ASSUME BunchInv, Next, AbortAll \/ UnitStep \/ Environment \/ Finished
  PROVE  Quiet(units')
<1>0. /\ units \in Seq(Unit) /\ Len(units) \in Nat
      /\ DOMAIN units = 1..Len(units)
      /\ \A u \in DOMAIN units : units[u] \in Unit
  BY Domains
<1>1. units' \in Seq(Unit)
  BY TypeStep DEF BunchInv, TypeOK
<1>2. CASE AbortAll
  BY <1>0, <1>1, <1>2 DEF AbortAll, Quiet, Unit
<1>3. CASE UnitStep
  <2>1. PICK u \in DOMAIN units : SeeExit(u) \/ SeeTerm(u) \/ Exit(u)
    BY <1>3 DEF UnitStep, UnitTaskStep
  <2>2. PICK e : /\ units' = [units EXCEPT ![u] = e]
                 /\ e.term => units[u].term
                 /\ e.task = "waiting" => /\ units[u].task = "waiting"
                                          /\ units[u].term => e.term
    <3>0. units[u] \in Unit
      BY <1>0
    <3> DEFINE Fits(e) == /\ e.term => units[u].term
                          /\ e.task = "waiting" => /\ units[u].task = "waiting"
                                                   /\ units[u].term => e.term
    <3>1. CASE SeeExit(u)
      <4>1. PICK r \in {"ok", "err"} :
               units' = [units EXCEPT ![u].task = r, ![u].term = FALSE]
        BY <3>1 DEF SeeExit
      <4> DEFINE e == [units[u] EXCEPT !.task = r, !.term = FALSE]
      <4>2. units' = [units EXCEPT ![u] = e]
        BY <4>1
      <4>3. Fits(e)
        BY <3>0 DEF Unit
      <4> QED BY <4>2, <4>3, Zenon
    <3>2. CASE SeeTerm(u)
      <4> DEFINE e == [units[u] EXCEPT !.task = "ok", !.term = FALSE,
                                       !.proc = "stopped"]
      <4>1. units' = [units EXCEPT ![u] = e]
        BY <1>0, <3>2 DEF SeeTerm, terminate_unit
      <4>2. Fits(e)
        BY <3>0 DEF Unit
      <4> QED BY <4>1, <4>2, Zenon
    <3>3. CASE Exit(u)
      <4> DEFINE e == [units[u] EXCEPT !.proc = "stopped"]
      <4>1. units' = [units EXCEPT ![u] = e]
        BY <3>3 DEF Exit
      <4>2. Fits(e)
        BY <3>0 DEF Unit
      <4> QED BY <4>1, <4>2, Zenon
    <3> QED BY <2>1, <3>1, <3>2, <3>3
  <2> QED BY <1>0, <1>1, <2>2 DEF Quiet
<1>4. CASE SendHealthCheckFailed
  <2>1. PICK u : units' = [units EXCEPT ![u].unhealthy = TRUE]
    BY <1>4 DEF SendHealthCheckFailed
  <2> QED BY <1>0, <1>1, <2>1 DEF Quiet, Unit
<1>5. CASE units' = units
  BY <1>5, QuietSame
<1> QED BY <1>2, <1>3, <1>4, <1>5 DEF Environment, SendStartUpdate, SendShutdown,
        CloseChannel, MinutePasses, Finished, vars

LEMMA OwnerInvStep ==
  ASSUME BunchInv, OwnerInv, Next
  PROVE  OwnerInv'
<1>1. CASE AbortAll \/ UnitStep \/ Environment \/ Finished
  <2>1. /\ stable_connections' = stable_connections
        /\ new_connections' = new_connections /\ to_stop' = to_stop
    BY <1>1 DEF AbortAll, UnitStep, UnitTaskStep, SeeExit, SeeTerm, Exit,
     Environment, SendStartUpdate, SendShutdown, SendHealthCheckFailed,
     CloseChannel, MinutePasses, Send, Finished, vars, bunchVars
  <2> QED BY <1>1, <2>1, QuietStep, AliveStep, HoldersStay
<1> QED BY <1>1, RunOwner, JoinOwner, ReceiveOwner, UpdateOwner,
        RequestSentOwner DEF Next, Bunch

LEMMA OwnerInvHolds == Spec => []OwnerInv
<1>1. Init => OwnerInv
  BY EmptyVector DEF Init, OwnerInv, SingleOwner, NoLostUnit, Held, Registered
<1>2. OwnerInv /\ BunchInv /\ [Next]_vars => OwnerInv'
  <2>1. ASSUME OwnerInv, UNCHANGED vars PROVE OwnerInv'
    BY <2>1 DEF OwnerInv, SingleOwner, NoLostUnit, Held, Registered, Alive, vars
  <2> QED BY <2>1, OwnerInvStep
<1> QED BY <1>1, <1>2, BunchInvHolds, PTL DEF Spec

-----------------------------------------------------------------------------
(* The theorems. *)

\* Each connection has one owner, whatever fails and in whatever order: a unit
\* is in one vector at one place, or with one detached task, and once asked to
\* terminate it is in none of them.
THEOREM OneOwner == Spec => []SingleOwner
<1>1. OwnerInv => SingleOwner
  BY DEF OwnerInv
<1> QED BY <1>1, OwnerInvHolds, PTL

\* While the bunch runs, each unit task that waits is listed, is about to be
\* asked to terminate, or has been asked.
THEOREM NoneLost == Spec => []NoLostUnit
<1>1. OwnerInv => NoLostUnit
  BY DEF OwnerInv
<1> QED BY <1>1, OwnerInvHolds, PTL
-----------------------------------------------------------------------------
(* What the controller is told of units that are gone.                       *)

GoneTypes == {"UnitReplaced", "UnitsDespawned"}

\* The inductive invariant: who is reported gone is a unit, and is not listed.
GoneInv == \A m \in outbox : m.type \in GoneTypes =>
                                m.old \subseteq DOMAIN units \ Registered

\* The stable connections once u is replaced.
LEMMA ReplacedProperties ==
  ASSUME BunchInv, OwnerInv, NEW u \in DOMAIN units
  PROVE  /\ ToSet(Replaced(u)) \subseteq ToSet(stable_connections) \cup {NextUnit}
         /\ u \notin ToSet(Replaced(u))
         /\ Len(Replaced(u)) = IF u \in ToSet(stable_connections)
                               THEN Len(stable_connections)
                               ELSE Len(stable_connections) + 1
<1> DEFINE s == Append(stable_connections, NextUnit)
<1>1. /\ stable_connections \in Seq(DOMAIN units \cup {NextUnit})
      /\ Owned \subseteq DOMAIN units /\ NextUnit \notin DOMAIN units
  BY Domains, VectorType
<1>2. IsInjective(stable_connections) /\ NextUnit \notin ToSet(stable_connections)
  BY <1>1 DEF OwnerInv, SingleOwner, Owned, Registered
<1>3. /\ s \in Seq(DOMAIN units \cup {NextUnit})
      /\ ToSet(s) = ToSet(stable_connections) \cup {NextUnit}
      /\ IsInjective(s) /\ Len(s) = Len(stable_connections) + 1
  BY <1>1, <1>2, PushProperties
<1>4. u # NextUnit /\ Len(stable_connections) \in Nat
  BY <1>1
<1> HIDE DEF s
<1>5. /\ ToSet(Replaced(u)) \subseteq ToSet(s) /\ u \notin ToSet(Replaced(u))
      /\ Len(Replaced(u)) = IF u \in ToSet(s) THEN Len(s) - 1 ELSE Len(s)
  BY <1>3, TakeProperties DEF Replaced, s
<1> QED BY <1>3, <1>4, <1>5

\* No step lists a unit that was there before and was not listed.
LEMMA RegisteredStep ==
  ASSUME BunchInv, OwnerInv, Next
  PROVE  Registered' \cap DOMAIN units \subseteq Registered
<1>0. /\ ToSet(<<>>) = {} /\ NextUnit \notin DOMAIN units
      /\ terminate => ToSet(stable_connections') = {}
  BY EmptyVector, Domains DEF terminate
<1>1. CASE Run \/ RunSpawnFails \/ RunNoAddress
  <2>1. pc = "new" /\ DOMAIN units = {}
    BY <1>1 DEF Run, RunSpawnFails, RunNoAddress, BunchInv, Untouched
  <2> QED BY <2>1
<1>2. ASSUME SpawnPanics \/ LookupPanics PROVE Registered' = {}
  BY <1>0, <1>2 DEF SpawnPanics, LookupPanics, Leave, Registered
<1>3. ASSUME NEW u \in DOMAIN units, stable_connections' = Replaced(u),
             new_connections' = new_connections
      PROVE  Registered' \cap DOMAIN units \subseteq Registered
  BY <1>0, <1>3, ReplacedProperties DEF Registered
<1>4. CASE JoinNext
  <2>1. CASE JoinErr
    <3>1. PICK u \in DOMAIN units :
             JoinErrLimit(u) \/ JoinErrRestart(u) \/ JoinErrPanics(u)
      BY <2>1 DEF JoinErr
    <3>2. CASE JoinErrLimit(u)
      BY <1>0, <3>2 DEF JoinErrLimit, Registered
    <3> QED BY <1>2, <1>3, <3>1, <3>2 DEF JoinErrRestart, JoinErrPanics
  <2> QED BY <1>0, <1>4, <2>1
          DEF JoinNext, JoinOk, JoinNone, Leave, bunchVars, Registered
<1>5. CASE Receive
  <2>1. CASE RecvHealthCheckFailed
    <3>1. \/ UNCHANGED <<stable_connections, new_connections>>
          \/ \E i \in DOMAIN stable_connections :
                LET u == stable_connections[i] IN
                CheckLimit(u) \/ CheckReplace(u) \/ CheckPanics(u)
      BY <2>1 DEF RecvHealthCheckFailed, At, bunchVars
    <3>2. \/ UNCHANGED <<stable_connections, new_connections>>
          \/ \E u \in DOMAIN units : CheckLimit(u) \/ CheckReplace(u) \/ CheckPanics(u)
      <4>1. \A i \in DOMAIN stable_connections :
               stable_connections[i] \in DOMAIN units
        BY Domains, VectorType DEF ToSet
      <4> QED BY <3>1, <4>1, Zenon
    <3> QED BY <1>0, <1>2, <1>3, <3>2
            DEF CheckLimit, CheckReplace, CheckPanics, Registered
  <2> QED BY <1>0, <1>5, <2>1 DEF Receive, RecvStartUpdate, RecvShutdown,
             RecvNone, Leave, Registered
<1>6. CASE StartUpdate
  <2>1. CASE UpdateSpawn
    <3>1. new_connections \in Seq(DOMAIN units \cup {NextUnit})
      BY Domains, VectorType
    <3>2. ToSet(new_connections') = ToSet(new_connections) \cup {NextUnit}
      BY <2>1, <3>1, PushProperties DEF UpdateSpawn
    <3> QED BY <1>0, <2>1, <3>2 DEF UpdateSpawn, Registered
  <2>2. CASE RollStep
    <3>1. stable_connections \in Seq(DOMAIN units) /\ stable_connections # <<>>
      BY <2>2, Domains DEF RollStep, BunchInv, RollingOnlyInUpdating
    <3>2. ToSet(Front(stable_connections)) \subseteq ToSet(stable_connections)
      BY <3>1, PopProperties
    <3> QED BY <1>0, <2>2, <3>2 DEF RollStep, Leave, Registered
  <2> QED BY <1>6, <2>1, <2>2 DEF StartUpdate, UpdateSpawnFails, FailUpdate,
             UpdateNoAddress, LoopExit, Swap, Announce, Registered
<1>7. CASE AbortAll \/ RequestSent \/ UnitStep \/ Environment \/ Finished
  BY <1>7 DEF AbortAll, RequestSent, UnitStep, UnitTaskStep, SeeExit, SeeTerm,
     Exit, Environment, SendStartUpdate, SendShutdown, SendHealthCheckFailed,
     CloseChannel, MinutePasses, Send, Finished, vars, bunchVars, Registered
<1> QED BY <1>1, <1>4, <1>5, <1>6, <1>7 DEF Next, Bunch

\* Who a step reports gone is a unit the step leaves unlisted.
LEMMA GoneMessageStep ==
  ASSUME BunchInv, OwnerInv, Next,
         NEW m \in outbox', m \notin outbox, m.type \in GoneTypes
  PROVE  m.old \subseteq DOMAIN units' \ Registered'
<1>0. /\ DOMAIN units \subseteq DOMAIN units'
      /\ Registered \subseteq DOMAIN units
      /\ \A type, old, new : /\ Tell(type, old, new).type = type
                             /\ Tell(type, old, new).old = old
  BY UnitsGrow, Domains DEF Owned, Tell
<1>1. ASSUME terminate,
             new_connections' = new_connections \/ new_connections' = <<>>
      PROVE  m.old \subseteq DOMAIN units' \ Registered'
  <2>1. m.old = ToSet(stable_connections)
    BY <1>0, <1>1 DEF terminate
  <2>2. ToSet(stable_connections') = {} /\ ToSet(<<>>) = {}
    BY <1>1, EmptyVector DEF terminate
  <2> QED BY <1>0, <1>1, <2>1, <2>2 DEF OwnerInv, SingleOwner, Registered
<1>2. ASSUME SpawnPanics \/ LookupPanics
      PROVE  m.old \subseteq DOMAIN units' \ Registered'
  BY <1>1, <1>2 DEF SpawnPanics, LookupPanics, Leave
<1>3. ASSUME NEW u \in ToSet(stable_connections), m = Replacement(u),
             stable_connections' = Replaced(u),
             new_connections' = new_connections
      PROVE  m.old \subseteq DOMAIN units' \ Registered'
  <2>1. u \in DOMAIN units /\ m.old = {u}
    BY <1>0, <1>3 DEF Registered, Replacement
  <2>2. u \notin ToSet(stable_connections')
    BY <1>3, <2>1, ReplacedProperties
  <2>3. u \notin ToSet(new_connections')
    BY <1>3 DEF OwnerInv, SingleOwner
  <2> QED BY <1>0, <2>1, <2>2, <2>3 DEF Registered
<1>4. CASE Run \/ RunSpawnFails \/ RunNoAddress
  <2>1. CASE RunSpawnFails
    <3>1. PICK k \in 0..MaxUnits :
             /\ \E as : units' = [i \in 1..k |-> NewUnit(as[i], "Stable")]
             /\ outbox' = {Tell("UnitsDespawned", 1..k, {})}
      BY <2>1 DEF RunSpawnFails
    <3>2. stable_connections' = <<>> /\ new_connections' = <<>>
      BY <2>1 DEF RunSpawnFails, BunchInv, Untouched
    <3> QED BY <1>0, <3>1, <3>2, EmptyVector DEF Registered
  <2> QED BY <1>0, <1>4, <2>1 DEF Run, RunNoAddress, GoneTypes
<1>5. CASE JoinNext
  <2>1. CASE JoinErr
    <3>1. PICK u \in DOMAIN units :
             JoinErrLimit(u) \/ JoinErrRestart(u) \/ JoinErrPanics(u)
      BY <2>1 DEF JoinErr
    <3>2. CASE JoinErrLimit(u)
      BY <1>1, <3>2 DEF JoinErrLimit
    <3>3. CASE JoinErrRestart(u)
      BY <1>3, <3>3 DEF JoinErrRestart
    <3> QED BY <1>2, <3>1, <3>2, <3>3 DEF JoinErrPanics
  <2> QED BY <1>5, <2>1 DEF JoinNext, JoinOk, JoinNone
<1>6. CASE Receive
  <2>1. CASE RecvHealthCheckFailed
    <3>1. PICK u \in ToSet(stable_connections) :
             CheckLimit(u) \/ CheckReplace(u) \/ CheckPanics(u)
      BY <2>1 DEF RecvHealthCheckFailed, At, ToSet
    <3> QED BY <1>1, <1>2, <1>3, <3>1 DEF CheckLimit, CheckReplace, CheckPanics
  <2> QED BY <1>1, <1>6, <2>1 DEF Receive, RecvStartUpdate, RecvShutdown,
             RecvNone, Leave
<1>7. CASE StartUpdate
  BY <1>0, <1>7 DEF StartUpdate, UpdateSpawn, UpdateSpawnFails, UpdateNoAddress,
     RollStep, LoopExit, Announce, GoneTypes
<1>8. CASE AbortAll \/ RequestSent \/ UnitStep \/ Environment \/ Finished
  BY <1>8 DEF AbortAll, RequestSent, UnitStep, UnitTaskStep, SeeExit, SeeTerm,
     Exit, Environment, SendStartUpdate, SendShutdown, SendHealthCheckFailed,
     CloseChannel, MinutePasses, Send, Finished, vars
<1> QED BY <1>4, <1>5, <1>6, <1>7, <1>8 DEF Next, Bunch

LEMMA GoneInvHolds == Spec => []GoneInv
<1>1. Init => GoneInv
  BY DEF Init, GoneInv
<1>2. GoneInv /\ OwnerInv /\ BunchInv /\ [Next]_vars => GoneInv'
  <2>1. ASSUME GoneInv, UNCHANGED vars PROVE GoneInv'
    BY <2>1 DEF GoneInv, Registered, vars
  <2>2. ASSUME GoneInv, OwnerInv, BunchInv, Next,
               NEW m \in outbox', m.type \in GoneTypes
        PROVE  m.old \subseteq DOMAIN units' \ Registered'
    <3>1. CASE m \notin outbox
      BY <2>2, <3>1, GoneMessageStep
    <3>2. CASE m \in outbox
      BY <2>2, <3>2, RegisteredStep, UnitsGrow DEF GoneInv
    <3> QED BY <3>1, <3>2
  <2> QED BY <2>1, <2>2 DEF GoneInv
<1> QED BY <1>1, <1>2, OwnerInvHolds, BunchInvHolds, PTL DEF Spec

\* The controller is told that a unit is gone only when it is, and for good: no
\* restart, swap or retry lists it again.
THEOREM GoneForGood == Spec => []GoneStaysGone
<1>1. GoneInv /\ BunchInv => GoneStaysGone
  BY DEF GoneInv, GoneTypes, GoneStaysGone, BunchInv
<1> QED BY <1>1, GoneInvHolds, BunchInvHolds, PTL
-----------------------------------------------------------------------------
(* Capacity.                                                                 *)

Listed == Len(stable_connections) + Len(new_connections)

\* No step but the retirement of a rolling update lists fewer units, unless it
\* stops the bunch or ends it.
LEMMA ListedStep ==
  ASSUME BunchInv, OwnerInv, Next, Alive'
  PROVE  /\ \/ Listed' >= Listed
            \/ state' \notin {"Running", "Updating"}
            \/ pc = "rolling" /\ pc' # "rolling" /\ Listed' + 1 = Listed
         /\ pc' = "rolling" => pc = "rolling" \/ Listed' = Listed + 1
         /\ pc = "rolling" => \/ pc' = "rolling"
                              \/ Listed' + 1 = Listed
<1>0. /\ stable_connections \in Seq(DOMAIN units)
      /\ new_connections \in Seq(DOMAIN units)
      /\ Len(stable_connections) \in Nat /\ Len(new_connections) \in Nat
      /\ Listed \in Nat
      /\ terminate => state' \notin {"Running", "Updating"}
      /\ ~(SpawnPanics \/ LookupPanics)
      /\ \A how : ~Leave(how)
  <2>1. /\ stable_connections \in Seq(DOMAIN units)
        /\ new_connections \in Seq(DOMAIN units)
    BY Domains
  <2>2. Len(stable_connections) \in Nat /\ Len(new_connections) \in Nat
    BY <2>1
  <2>3. terminate => state' \notin {"Running", "Updating"}
    BY DEF terminate, Update, Transition, Target
  <2> QED BY <2>1, <2>2, <2>3 DEF Listed, SpawnPanics, LookupPanics, Leave, Alive
<1>1. CASE Run \/ RunSpawnFails \/ RunNoAddress
  <2>1. stable_connections = <<>> /\ new_connections = <<>> /\ pc = "new"
        /\ pc' = "select"
    BY <1>1 DEF Run, RunSpawnFails, RunNoAddress, BunchInv, Untouched
  <2>2. Listed = 0
    BY <2>1, EmptyVector DEF Listed
  <2>3. Len(stable_connections') \in Nat /\ Len(new_connections') \in Nat
    BY TypeStep DEF BunchInv, TypeOK
  <2> QED BY <2>1, <2>2, <2>3 DEF Listed
<1>2. ASSUME NEW u \in DOMAIN units, stable_connections' = Replaced(u),
             new_connections' = new_connections
      PROVE  Listed' >= Listed
  <2>1. \/ Len(stable_connections') = Len(stable_connections)
        \/ Len(stable_connections') = Len(stable_connections) + 1
    BY <1>2, ReplacedProperties
  <2> QED BY <1>0, <1>2, <2>1 DEF Listed
<1>3. CASE JoinNext
  <2>1. pc = "select" /\ pc' = "select"
    BY <1>0, <1>3 DEF JoinNext, JoinOk, JoinErr, JoinErrLimit, JoinErrRestart,
       JoinErrPanics, JoinNone, bunchVars
  <2>2. Listed' >= Listed \/ state' \notin {"Running", "Updating"}
    BY <1>0, <1>2, <1>3 DEF JoinNext, JoinOk, JoinErr, JoinErrLimit,
       JoinErrRestart, JoinErrPanics, JoinNone, bunchVars, Listed
  <2> QED BY <2>1, <2>2
<1>4. CASE Receive
  <2>1. CASE RecvHealthCheckFailed
    <3>1. \/ Listed' = Listed /\ pc' = pc
          \/ \E u \in ToSet(stable_connections) :
                CheckLimit(u) \/ CheckReplace(u)
      BY <1>0, <2>1 DEF RecvHealthCheckFailed, At, bunchVars, CheckPanics, Listed,
         ToSet
    <3>2. ToSet(stable_connections) \subseteq DOMAIN units
      BY <1>0, VectorType
    <3>3. (Listed' >= Listed \/ state' \notin {"Running", "Updating"}) /\ pc' = pc
      BY <1>0, <1>2, <3>1, <3>2 DEF CheckLimit, CheckReplace
    <3> QED BY <2>1, <3>3 DEF RecvHealthCheckFailed, Received
  <2>2. CASE RecvStartUpdate
    <3>1. Listed' = Listed /\ pc = "select" /\ pc' = "loop"
      BY <2>2 DEF RecvStartUpdate, Received, Listed
    <3> QED BY <1>0, <3>1
  <2> QED BY <1>0, <1>4, <2>1, <2>2 DEF Receive, RecvShutdown, RecvNone
<1>5. CASE StartUpdate
  <2>1. CASE UpdateSpawn
    <3>1. new_connections \in Seq(DOMAIN units \cup {NextUnit})
      BY <1>0, VectorType
    <3>2. Len(new_connections') = Len(new_connections) + 1
      BY <2>1, <3>1, PushProperties DEF UpdateSpawn
    <3>3. Listed' = Listed + 1 /\ pc = "loop"
      BY <1>0, <2>1, <3>2 DEF UpdateSpawn, Listed
    <3> QED BY <1>0, <3>3
  <2>2. CASE RollStep
    <3>1. state = "Updating" /\ stable_connections # <<>> /\ pc = "rolling"
      BY <2>2 DEF RollStep, BunchInv, RollingOnlyInUpdating
    <3>2. /\ stable_connections' = Front(stable_connections)
          /\ new_connections' = new_connections /\ pc' = "loop"
      BY <1>0, <2>2, <3>1 DEF RollStep
    <3>3. Len(stable_connections') = Len(stable_connections) - 1
      BY <1>0, <3>1, <3>2, PopProperties
    <3>4. Listed' + 1 = Listed
      BY <1>0, <3>2, <3>3 DEF Listed
    <3> QED BY <3>1, <3>2, <3>4
  <2>3. CASE UpdateSpawnFails \/ UpdateNoAddress \/ LoopExit \/ Announce
    <3>1. Listed' = Listed /\ pc # "rolling" /\ pc' # "rolling"
      BY <1>0, <2>3 DEF UpdateSpawnFails, FailUpdate, UpdateNoAddress, LoopExit,
         Swap, Announce, Listed
    <3> QED BY <1>0, <3>1
  <2> QED BY <1>5, <2>1, <2>2, <2>3 DEF StartUpdate
<1>6. CASE AbortAll \/ RequestSent \/ UnitStep \/ Environment \/ Finished
  <2>1. pc' = pc /\ Listed' = Listed
    BY <1>6 DEF AbortAll, RequestSent, UnitStep, UnitTaskStep, SeeExit, SeeTerm,
     Exit, Environment, SendStartUpdate, SendShutdown, SendHealthCheckFailed,
     CloseChannel, MinutePasses, Send, Finished, vars, bunchVars, Listed, Alive
  <2> QED BY <1>0, <2>1
<1> QED BY <1>1, <1>3, <1>4, <1>5, <1>6 DEF Next, Bunch

\* Capacity is kept from one step to the next.
LEMMA CapacityStep ==
  ASSUME BunchInv, OwnerInv, CapacityKept, Next
  PROVE  CapacityKept'
<1> DEFINE Needed == InstancesCount + (IF pc = "rolling" THEN 1 ELSE 0)
<1> SUFFICES ASSUME Alive', run_ok', state' \in {"Running", "Updating"}
             PROVE  Listed' >= Needed'
  BY DEF CapacityKept, Listed
<1>0. Listed \in Nat /\ Listed' \in Nat /\ InstancesCount \in Nat
  <2>1. TypeOK /\ TypeOK'
    BY TypeStep DEF BunchInv
  <2> QED BY <2>1, InstancesCountAssumption DEF TypeOK, Listed
<1>1. CASE Run
  <2>1. PICK as \in AddressLists(InstancesCount) :
           stable_connections' = [i \in 1..Len(as) |-> i]
    BY <1>1 DEF Run
  <2>2. Len(as) = InstancesCount
    BY <2>1, <1>0 DEF AddressLists, Injection
  <2>3. Len(stable_connections') = InstancesCount
    BY <1>0, <2>1, <2>2
  <2>4. new_connections' = <<>> /\ pc' = "select"
    BY <1>1 DEF Run, BunchInv, Untouched
  <2> QED BY <1>0, <2>3, <2>4, EmptyVector DEF Listed
<1>2. CASE ~Run
  <2>1. Alive /\ run_ok /\ state # "Starting"
    BY <1>2, AliveStep, RunOkStep DEF BunchInv, Established
  <2>2. state \in {"Running", "Updating"}
    BY <2>1, StateStep, UpdateProperties DEF BunchInv, TypeOK, State
  <2>3. Listed >= Needed
    BY <2>1, <2>2 DEF CapacityKept, Listed
  <2>4. CASE pc' = "rolling"
    <3>1. CASE pc = "rolling"
      <4>1. Listed' >= Listed
        BY <2>4, <3>1, ListedStep
      <4> QED BY <1>0, <2>3, <2>4, <3>1, <4>1
    <3>2. CASE pc # "rolling"
      <4>1. Listed' = Listed + 1
        BY <2>4, <3>2, ListedStep
      <4> QED BY <1>0, <2>3, <2>4, <3>2, <4>1
    <3> QED BY <3>1, <3>2
  <2>5. CASE pc' # "rolling"
    <3>1. Listed' >= Listed \/ (pc = "rolling" /\ Listed' + 1 = Listed)
      BY ListedStep
    <3>2. Listed >= InstancesCount /\ (pc = "rolling" => Listed >= InstancesCount + 1)
      BY <1>0, <2>3
    <3>3. CASE Listed' >= Listed
      BY <1>0, <2>5, <3>2, <3>3
    <3>4. CASE pc = "rolling" /\ Listed' + 1 = Listed
      <4>1. Listed >= InstancesCount + 1
        BY <3>2, <3>4
      <4>2. Listed' >= InstancesCount
        <5>1. \A a, b, n \in Nat : a + 1 = b /\ b >= n + 1 => a >= n
          OBVIOUS
        <5> QED BY <1>0, <3>4, <4>1, <5>1
      <4> QED BY <1>0, <2>5, <4>2
    <3> QED BY <3>1, <3>3, <3>4
  <2> QED BY <2>4, <2>5
<1> QED BY <1>1, <1>2

\* A bunch that started and was not stopped keeps at least as many instances
\* listed as configured, and in a rolling update one more while an instance is
\* about to be retired: whatever fails, restarts, and is retried.
THEOREM CapacityIsKept == Spec => []CapacityKept
<1>1. Init => CapacityKept
  BY DEF Init, CapacityKept
<1>2. CapacityKept /\ OwnerInv /\ BunchInv /\ [Next]_vars => CapacityKept'
  <2>1. ASSUME CapacityKept, UNCHANGED vars PROVE CapacityKept'
    BY <2>1 DEF CapacityKept, Alive, vars
  <2> QED BY <2>1, CapacityStep
<1> QED BY <1>1, <1>2, OwnerInvHolds, BunchInvHolds, PTL DEF Spec

-----------------------------------------------------------------------------
(* The life of a unit: what a bunch that ran out of units leaves behind, and *)
(* which version runs after an update.                                       *)

\* What a step can make of unit x.  Its executable never changes; its task ends
\* with its process stopped, or aborted.
Becomes(x, y) ==
    /\ y.version = x.version
    /\ \/ y.task = x.task /\ y.proc \in {x.proc, "stopped"}
       \/ x.task = "waiting" /\ y.task \in {"ok", "err"} /\ y.proc = "stopped"
       \/ x.task \in {"ok", "err"} /\ y.task = "joined" /\ y.proc = x.proc
       \/ x.task = "waiting" /\ y.task = "aborted" /\ y.proc = x.proc

\* The units become us, with nothing but fresh ones added.
Follow(us) ==
    /\ \A u \in DOMAIN units : u \in DOMAIN us /\ Becomes(units[u], us[u])
    /\ \A u \in DOMAIN us \ DOMAIN units : us[u].task = "waiting"

-----------------------------------------------------------------------------
(* The operators that change units.                                          *)

LEMMA SameFollow == ASSUME BunchInv PROVE Follow(units)
BY DEF Follow, Becomes

LEMMA JoinFollow ==
  ASSUME BunchInv, NEW u \in DOMAIN units, units[u].task \in {"ok", "err"}
  PROVE  Follow(Join(units, u))
<1>1. /\ units \in Seq(Unit) /\ DOMAIN units = 1..Len(units)
      /\ \A v \in DOMAIN units : units[v] \in Unit
  BY Domains
<1>2. [units[u] EXCEPT !.task = "joined"].task = "joined"
      /\ [units[u] EXCEPT !.task = "joined"].proc = units[u].proc
      /\ [units[u] EXCEPT !.task = "joined"].version = units[u].version
  BY <1>1 DEF Unit
<1>3. Join(units, u) = [units EXCEPT ![u] = [units[u] EXCEPT !.task = "joined"]]
  BY DEF Join
<1>4. \A v \in DOMAIN units :
         Join(units, u)[v] = IF v = u THEN [units[u] EXCEPT !.task = "joined"]
                                      ELSE units[v]
  BY <1>1, <1>3
<1>5. DOMAIN Join(units, u) = DOMAIN units
  BY <1>3
<1>6. \A v \in DOMAIN units : Becomes(units[v], Join(units, u)[v])
  BY <1>2, <1>4 DEF Becomes
<1> QED BY <1>5, <1>6 DEF Follow

LEMMA RequestFollow ==
  ASSUME BunchInv, NEW requested
  PROVE  Follow(Request(units, requested))
<1>1. \A v \in DOMAIN units : units[v] \in Unit
  BY Domains
<1>2. \A v \in DOMAIN units : Becomes(units[v], Request(units, requested)[v])
  BY <1>1 DEF Request, Becomes, Unit
<1> QED BY <1>2 DEF Request, Follow

\* A unit is spawned, after what else becomes of the units.
LEMMA SpawnFollow ==
  ASSUME BunchInv, NEW us \in Seq(Unit), Len(us) = Len(units), Follow(us),
         NEW a \in Addrs, NEW v \in UnitVersion
  PROVE  Follow(Append(us, NewUnit(a, v)))
<1> DEFINE vs == Append(us, NewUnit(a, v))
<1>1. DOMAIN units = 1..Len(units) /\ DOMAIN us = 1..Len(us) /\ Len(units) \in Nat
  BY Domains
<1>2. /\ DOMAIN vs = 1..(Len(us) + 1)
      /\ \A u \in 1..Len(us) : vs[u] = us[u]
      /\ vs[Len(us) + 1].task = "waiting"
  BY SpawnProperties
<1> HIDE DEF vs
<1>3. \A u \in DOMAIN vs \ DOMAIN units : u = Len(us) + 1
  BY <1>1, <1>2
<1>4. \A u \in DOMAIN units : u \in DOMAIN vs /\ Becomes(units[u], vs[u])
  BY <1>1, <1>2 DEF Follow
<1> QED BY <1>2, <1>3, <1>4 DEF Follow, vs

\* One unit becomes x.
LEMMA OneFollows ==
  ASSUME BunchInv, NEW u \in DOMAIN units, NEW x, Becomes(units[u], x)
  PROVE  Follow([units EXCEPT ![u] = x])
BY DEF Follow, Becomes

-----------------------------------------------------------------------------
(* Every step.                                                               *)

LEMMA JoinLife ==
  ASSUME BunchInv, JoinNext
  PROVE  Follow(units')
<1>1. CASE JoinOk
  BY <1>1, JoinFollow DEF JoinOk
<1>2. CASE JoinErr
  <2>1. PICK u \in DOMAIN units :
           /\ units[u].task = "err"
           /\ JoinErrLimit(u) \/ JoinErrRestart(u) \/ JoinErrPanics(u)
    BY <1>2 DEF JoinErr, Failed
  <2>2. Follow(Join(units, u))
    BY <2>1, JoinFollow
  <2>3. CASE JoinErrRestart(u)
    <3>1. PICK a \in Addrs : units' = Append(Join(units, u), NewUnit(a, "Stable"))
      BY <2>3 DEF JoinErrRestart
    <3>2. Join(units, u) \in Seq(Unit) /\ Len(Join(units, u)) = Len(units)
      BY Domains, JoinProperties
    <3> QED BY <2>2, <3>1, <3>2, SpawnFollow DEF UnitVersion
  <2> QED BY <2>1, <2>2, <2>3 DEF JoinErrLimit, JoinErrPanics
<1>3. CASE JoinNone
  BY <1>3, SameFollow DEF JoinNone
<1> QED BY <1>1, <1>2, <1>3 DEF JoinNext

LEMMA ReceiveLife ==
  ASSUME BunchInv, Receive
  PROVE  Follow(units')
<1>1. units' = units \/ \E a \in Addrs : units' = Append(units, NewUnit(a, "Stable"))
  BY DEF Receive, RecvStartUpdate, RecvShutdown, RecvNone, RecvHealthCheckFailed,
     CheckLimit, CheckReplace, CheckPanics
<1> QED BY <1>1, SameFollow, SpawnFollow, Domains DEF UnitVersion

LEMMA UpdateLife ==
  ASSUME BunchInv, StartUpdate
  PROVE  Follow(units')
<1>1. \/ units' = units
      \/ \E a \in Addrs : units' = Append(units, NewUnit(a, "New"))
      \/ \E requested : units' = Request(units, requested)
  BY DEF StartUpdate, UpdateSpawn, UpdateSpawnFails, UpdateNoAddress, RollStep,
     LoopExit, Announce
<1> QED BY <1>1, SameFollow, SpawnFollow, RequestFollow, Domains DEF UnitVersion

LEMMA OtherLife ==
  ASSUME BunchInv, AbortAll \/ RequestSent \/ UnitStep \/ Environment \/ Finished
  PROVE  Follow(units')
<1>1. \A u \in DOMAIN units : units[u] \in Unit
  BY Domains
<1>2. CASE AbortAll
  <2>1. \A u \in DOMAIN units : Becomes(units[u], units'[u])
    BY <1>1, <1>2 DEF AbortAll, Becomes, Unit
  <2> QED BY <1>2, <2>1 DEF AbortAll, Follow
<1>3. CASE RequestSent
  BY <1>3, RequestFollow DEF RequestSent
<1>4. CASE UnitStep
  <2>1. PICK u \in DOMAIN units : SeeExit(u) \/ SeeTerm(u) \/ Exit(u)
    BY <1>4 DEF UnitStep, UnitTaskStep
  <2>2. PICK x : units' = [units EXCEPT ![u] = x] /\ Becomes(units[u], x)
    <3>1. CASE SeeExit(u)
      <4>1. PICK r \in {"ok", "err"} :
               units' = [units EXCEPT ![u].task = r, ![u].term = FALSE]
        BY <3>1 DEF SeeExit
      <4>2. Becomes(units[u], [units[u] EXCEPT !.task = r, !.term = FALSE])
        BY <1>1, <3>1 DEF SeeExit, Becomes, Unit
      <4>3. units' = [units EXCEPT ![u] =
                         [units[u] EXCEPT !.task = r, !.term = FALSE]]
        BY <4>1
      <4> QED BY <4>2, <4>3
    <3>2. CASE SeeTerm(u)
      <4>1. Becomes(units[u], [units[u] EXCEPT !.task = "ok", !.term = FALSE,
                                               !.proc = "stopped"])
        BY <1>1, <3>2 DEF SeeTerm, Becomes, Unit
      <4>2. units' = [units EXCEPT ![u] =
                         [units[u] EXCEPT !.task = "ok", !.term = FALSE,
                                          !.proc = "stopped"]]
        BY <3>2 DEF SeeTerm, terminate_unit
      <4> QED BY <4>1, <4>2
    <3>3. CASE Exit(u)
      <4>1. Becomes(units[u], [units[u] EXCEPT !.proc = "stopped"])
        BY <1>1 DEF Becomes, Unit
      <4>2. units' = [units EXCEPT ![u] = [units[u] EXCEPT !.proc = "stopped"]]
        BY <3>3 DEF Exit
      <4> QED BY <4>1, <4>2
    <3> QED BY <2>1, <3>1, <3>2, <3>3
  <2> QED BY <2>2, OneFollows
<1>5. CASE Environment
  <2>1. CASE SendHealthCheckFailed
    <3>1. PICK u \in UNION {m.new : m \in outbox} :
             units' = [units EXCEPT ![u].unhealthy = TRUE]
      BY <2>1 DEF SendHealthCheckFailed
    <3>2. u \in DOMAIN units
      BY <3>1 DEF BunchInv, ArrivedWereSpawned
    <3>3. Becomes(units[u], [units[u] EXCEPT !.unhealthy = TRUE])
      BY <1>1, <3>2 DEF Becomes, Unit
    <3>4. units' = [units EXCEPT ![u] = [units[u] EXCEPT !.unhealthy = TRUE]]
      BY <3>1
    <3> QED BY <3>2, <3>3, <3>4, OneFollows
  <2> QED BY <1>5, <2>1, SameFollow DEF Environment, SendStartUpdate,
             SendShutdown, CloseChannel, MinutePasses
<1>6. CASE Finished
  BY <1>6, SameFollow DEF Finished, vars
<1> QED BY <1>2, <1>3, <1>4, <1>5, <1>6

\* Whatever happens, each unit goes on or has ended as Becomes says.
LEMMA UnitLife ==
  ASSUME BunchInv, Next
  PROVE  Follow(units')
<1>1. CASE Run \/ RunSpawnFails \/ RunNoAddress
  <2>1. units = <<>> /\ DOMAIN units = {}
    BY <1>1 DEF Run, RunSpawnFails, RunNoAddress, BunchInv, Untouched
  <2>2. \A u \in DOMAIN units' : units'[u].task = "waiting"
    BY <1>1, <2>1 DEF Run, RunSpawnFails, RunNoAddress, NewUnit
  <2> QED BY <2>1, <2>2 DEF Follow
<1> QED BY <1>1, JoinLife, ReceiveLife, UpdateLife, OtherLife DEF Next, Bunch

-----------------------------------------------------------------------------
(* What a bunch that ran out of units leaves behind.                         *)

\* The inductive invariant: how a task ended says what became of the process, and
\* the loop of wait_on ends by itself only when the result of every task was
\* taken; there are no units from then on.
ProcessInv ==
    /\ \A u \in DOMAIN units : units[u].task \in {"ok", "err", "joined"} =>
                                units[u].proc = "stopped"
    /\ Alive => result = "none"
    /\ result = "Drained" => \A u \in DOMAIN units : units[u].task = "joined"

\* A bunch that has ended spawns no unit, and how it ended stays.
LEMMA EndedStep ==
  ASSUME BunchInv, Next, ~Alive
  PROVE  DOMAIN units' = DOMAIN units /\ result' = result
<1>1. AbortAll \/ RequestSent \/ UnitStep \/ Environment \/ Finished
  BY DEF Alive, Next, Bunch, Run, RunSpawnFails, RunNoAddress, JoinNext, JoinOk,
     JoinErr, JoinNone, Receive, Received, RecvStartUpdate, RecvShutdown,
     RecvNone, RecvHealthCheckFailed, StartUpdate, UpdateSpawn,
     UpdateSpawnFails, UpdateNoAddress, RollStep, LoopExit, Announce
<1> QED BY <1>1 DEF AbortAll, RequestSent, Request, UnitStep, UnitTaskStep,
           SeeExit, SeeTerm, terminate_unit, Exit, Environment, SendStartUpdate,
           SendShutdown, SendHealthCheckFailed, CloseChannel, MinutePasses,
           Send, Finished, vars

\* While the bunch goes on there is no result; and it is Drained in one way only.
LEMMA ResultStep ==
  ASSUME BunchInv, ProcessInv, Next, Alive
  PROVE  /\ Alive' => result' = "none"
         /\ result' = "Drained" => JoinNone
<1>1. result = "none"
  BY DEF ProcessInv
<1>2. CASE Run \/ RunSpawnFails \/ RunNoAddress
  BY <1>1, <1>2 DEF Run, RunSpawnFails, RunNoAddress
<1>3. ASSUME SpawnPanics \/ LookupPanics PROVE ~Alive' /\ result' = "Panic"
  BY <1>3 DEF SpawnPanics, LookupPanics, Leave, Alive
<1>4. CASE JoinNext
  BY <1>1, <1>3, <1>4 DEF JoinNext, JoinOk, JoinErr, JoinErrLimit,
     JoinErrRestart, JoinErrPanics, JoinNone, Leave, Alive
<1>5. CASE Receive
  BY <1>1, <1>3, <1>5 DEF Receive, RecvStartUpdate, RecvShutdown, RecvNone,
     RecvHealthCheckFailed, CheckLimit, CheckReplace, CheckPanics, Leave, Alive
<1>6. CASE StartUpdate
  BY <1>1, <1>6 DEF StartUpdate, UpdateSpawn, UpdateSpawnFails, UpdateNoAddress,
     RollStep, LoopExit, Announce, Leave, Alive
<1>7. CASE AbortAll \/ RequestSent \/ UnitStep \/ Environment \/ Finished
  BY <1>1, <1>7 DEF AbortAll, RequestSent, UnitStep, UnitTaskStep, SeeExit,
     SeeTerm, Exit, Environment, SendStartUpdate, SendShutdown,
     SendHealthCheckFailed, CloseChannel, MinutePasses, Send, Finished, vars
<1> QED BY <1>2, <1>4, <1>5, <1>6, <1>7 DEF Next, Bunch

LEMMA ProcessInvStep ==
  ASSUME BunchInv, ProcessInv, Next
  PROVE  ProcessInv'
<1>1. Follow(units')
  BY UnitLife
<1>2. ASSUME NEW u \in DOMAIN units', units'[u].task \in {"ok", "err", "joined"}
      PROVE  units'[u].proc = "stopped"
  <2>1. u \in DOMAIN units /\ Becomes(units[u], units'[u])
    BY <1>1, <1>2 DEF Follow
  <2> QED BY <1>2, <2>1 DEF Becomes, ProcessInv
<1>3. Alive' => result' = "none"
  BY AliveStep, ResultStep
<1>4. ASSUME result' = "Drained", NEW u \in DOMAIN units'
      PROVE  units'[u].task = "joined"
  <2>1. CASE Alive
    BY <1>4, <2>1, ResultStep DEF JoinNone
  <2>2. CASE ~Alive
    <3>1. u \in DOMAIN units /\ units[u].task = "joined"
      BY <1>4, <2>2, EndedStep DEF ProcessInv
    <3>2. Becomes(units[u], units'[u])
      BY <1>1, <3>1 DEF Follow
    <3> QED BY <3>1, <3>2 DEF Becomes
  <2> QED BY <2>1, <2>2
<1> QED BY <1>2, <1>3, <1>4 DEF ProcessInv

\* When wait_on ends because its join_set is empty, no process is left running:
\* nobody was forgotten on the way, through restarts, updates and stops.
THEOREM DrainedIsClean == Spec => []DrainedLeavesNoProcess
<1>1. Init => ProcessInv
  BY DEF Init, ProcessInv
<1>2. ProcessInv /\ BunchInv /\ [Next]_vars => ProcessInv'
  <2>1. ASSUME ProcessInv, UNCHANGED vars PROVE ProcessInv'
    BY <2>1 DEF ProcessInv, Alive, vars
  <2> QED BY <2>1, ProcessInvStep
<1>3. ProcessInv => DrainedLeavesNoProcess
  BY DEF ProcessInv, DrainedLeavesNoProcess
<1> QED BY <1>1, <1>2, <1>3, BunchInvHolds, PTL DEF Spec

-----------------------------------------------------------------------------
(* Which version runs after an update.                                       *)

\* The inductive invariant: the new connections of a bunch that was not stopped
\* are of the new version.  (Not so in Stopping: the loop ends at once there, and
\* the swap puts stable units among them.)
VersionInv ==
    /\ pc = "loop" => state # "Running"
    /\ (run_ok /\ state \in {"Running", "Updating"}) =>
          \A u \in ToSet(new_connections) : units[u].version = "New"

\* A step that adds no new connection, and brings no bunch back.
LEMMA VersionStays ==
  ASSUME BunchInv, VersionInv, Next, run_ok' = run_ok,
         ToSet(new_connections') \subseteq ToSet(new_connections)
  PROVE  (run_ok' /\ state' \in {"Running", "Updating"}) =>
            \A u \in ToSet(new_connections') : units'[u].version = "New"
<1> SUFFICES ASSUME run_ok', state' \in {"Running", "Updating"},
                    NEW u \in ToSet(new_connections')
             PROVE  units'[u].version = "New"
  OBVIOUS
<1>1. state \in {"Running", "Updating"}
  BY StateStep, UpdateProperties DEF BunchInv, TypeOK, Established, State
<1>2. u \in DOMAIN units /\ units[u].version = "New"
  BY <1>1, Domains DEF VersionInv, Owned, Registered
<1> QED BY <1>2, UnitLife DEF Follow, Becomes

LEMMA VersionInvStep ==
  ASSUME BunchInv, VersionInv, Next
  PROVE  VersionInv'
<1> DEFINE Fine == (run_ok' /\ state' \in {"Running", "Updating"}) =>
                      \A u \in ToSet(new_connections') : units'[u].version = "New"
<1>0. ToSet(<<>>) = {}
  BY EmptyVector
<1>1. CASE Run \/ RunSpawnFails \/ RunNoAddress
  BY <1>0, <1>1 DEF Run, RunSpawnFails, RunNoAddress, BunchInv, Untouched,
     VersionInv
<1>2. CASE JoinNext \/ Receive
  <2>1. ToSet(new_connections') \subseteq ToSet(new_connections) /\ run_ok' = run_ok
    BY <1>0, <1>2 DEF JoinNext, JoinOk, JoinErr, JoinErrLimit, JoinErrRestart,
       JoinErrPanics, JoinNone, Receive, RecvStartUpdate, RecvShutdown, RecvNone,
       RecvHealthCheckFailed, CheckLimit, CheckReplace, CheckPanics, SpawnPanics,
       LookupPanics, Leave, bunchVars
  <2>2. pc' = "loop" => state' # "Running"
    <3>1. CASE RecvStartUpdate
      BY <3>1 DEF RecvStartUpdate, Update, Transition, Target
    <3>2. CASE ~RecvStartUpdate
      BY <1>2, <3>2 DEF JoinNext, JoinOk, JoinErr, JoinErrLimit, JoinErrRestart,
         JoinErrPanics, JoinNone, Receive, Received, RecvShutdown, RecvNone,
         RecvHealthCheckFailed, CheckLimit, CheckReplace, CheckPanics,
         SpawnPanics, LookupPanics, Leave, bunchVars
    <3> QED BY <3>1, <3>2
  <2> QED BY <2>1, <2>2, VersionStays DEF VersionInv
<1>3. CASE StartUpdate
  <2>1. CASE UpdateSpawn
    <3>1. PICK a \in Addrs : units' = Append(units, NewUnit(a, "New"))
      BY <2>1 DEF UpdateSpawn
    <3>2. new_connections \in Seq(DOMAIN units \cup {NextUnit})
      BY Domains, VectorType
    <3>3. ToSet(new_connections') = ToSet(new_connections) \cup {NextUnit}
      BY <2>1, <3>2, PushProperties DEF UpdateSpawn
    <3>4. units'[NextUnit].version = "New"
      <4>1. units \in Seq(Unit) /\ NewUnit(a, "New").version = "New"
        BY Domains DEF NewUnit
      <4>2. units'[NextUnit] = NewUnit(a, "New")
        BY <3>1, <4>1 DEF NextUnit
      <4> QED BY <4>1, <4>2
    <3>5. \A u \in ToSet(new_connections) :
             u \in DOMAIN units /\ units'[u].version = units[u].version
      BY Domains, UnitLife DEF Follow, Becomes, Owned, Registered
    <3> QED BY <2>1, <3>3, <3>4, <3>5 DEF UpdateSpawn, VersionInv
  <2>2. CASE LoopExit
    <3>1. CASE state = "Updating"
      <4>1. new_connections' = <<>> /\ pc' = "announcing"
        BY <2>2, <3>1 DEF LoopExit, KeepUpdating, Swap
      <4> QED BY <1>0, <4>1 DEF VersionInv
    <3>2. CASE state # "Updating"
      <4>1. run_ok' => state' = "Stopping"
        BY <2>2, <3>2 DEF LoopExit, VersionInv, BunchInv, Established, TypeOK,
           State, Update, Transition
      <4> QED BY <2>2, <4>1 DEF LoopExit, VersionInv
    <3> QED BY <3>1, <3>2
  <2>3. CASE UpdateSpawnFails \/ UpdateNoAddress \/ RollStep \/ Announce
    <3>1. ToSet(new_connections') \subseteq ToSet(new_connections)
          /\ run_ok' = run_ok
      BY <1>0, <2>3 DEF UpdateSpawnFails, FailUpdate, UpdateNoAddress, RollStep,
         Announce, Leave
    <3>2. pc' = "loop" => state' # "Running"
      BY <2>3 DEF UpdateSpawnFails, UpdateNoAddress, RollStep, Announce, Leave
    <3> QED BY <3>1, <3>2, VersionStays DEF VersionInv
  <2> QED BY <1>3, <2>1, <2>2, <2>3 DEF StartUpdate
<1>4. CASE AbortAll \/ RequestSent \/ UnitStep \/ Environment \/ Finished
  <2>1. /\ UNCHANGED <<state, new_connections, run_ok>>
        /\ pc' = "loop" => pc = "loop"
    BY <1>4 DEF AbortAll, RequestSent, UnitStep, UnitTaskStep, SeeExit, SeeTerm,
       Exit, Environment, SendStartUpdate, SendShutdown, SendHealthCheckFailed,
       CloseChannel, MinutePasses, Send, Finished, vars, bunchVars
  <2> QED BY <2>1, VersionStays DEF VersionInv
<1> QED BY <1>1, <1>2, <1>3, <1>4 DEF Next, Bunch

-----------------------------------------------------------------------------
(* What an update makes of the vectors it found.                             *)

\* The inductive invariant of the loop of start_update: the units that were left
\* over stay among the new ones, none that was found stable gets there, and each
\* one retired has its replacement, one more of them during the sleep.
HistoryInv ==
    pc \in {"loop", "rolling"} =>
        /\ found.old \in Seq(DOMAIN units) /\ found.left \in Seq(DOMAIN units)
        /\ ToSet(found.old) \cap ToSet(new_connections) = {}
        /\ ToSet(found.left) \subseteq ToSet(new_connections)
        /\ Len(stable_connections) + Len(new_connections) =
              Len(found.old) + Len(found.left) + (IF pc = "rolling" THEN 1 ELSE 0)

\* A step that leaves pc and the vectors alone.
LEMMA HistoryStays ==
  ASSUME BunchInv, HistoryInv, Remember, pc \in {"loop", "rolling"},
         UNCHANGED <<pc, stable_connections, new_connections>>,
         DOMAIN units' = DOMAIN units
  PROVE  HistoryInv'
<1>1. found' = found
  BY DEF Remember
<1> QED BY <1>1 DEF HistoryInv

\* An update begins.
LEMMA HistoryBegins ==
  ASSUME BunchInv, OwnerInv, Remember, RecvStartUpdate
  PROVE  HistoryInv'
<1>1. /\ found' = [old |-> stable_connections, left |-> new_connections]
      /\ pc' = "loop" /\ UNCHANGED <<stable_connections, new_connections, units>>
  BY DEF Remember, RecvStartUpdate, Received
<1>2. /\ stable_connections \in Seq(DOMAIN units)
      /\ new_connections \in Seq(DOMAIN units)
  BY Domains
<1>3. ToSet(stable_connections) \cap ToSet(new_connections) = {}
  BY DEF OwnerInv, SingleOwner
<1>4. found'.old = stable_connections /\ found'.left = new_connections
  BY <1>1
<1> QED BY <1>1, <1>2, <1>3, <1>4 DEF HistoryInv

\* A unit of the new version starts.
LEMMA HistorySpawn ==
  ASSUME BunchInv, HistoryInv, Remember, UpdateSpawn
  PROVE  HistoryInv'
<1>1. /\ pc = "loop" /\ pc' = "rolling" /\ found' = found
      /\ stable_connections' = stable_connections
      /\ new_connections' = Append(new_connections, NextUnit)
  BY DEF Remember, UpdateSpawn
<1>2. PICK a \in Addrs : units' = Append(units, NewUnit(a, "New"))
  BY DEF UpdateSpawn
<1>3. "New" \in UnitVersion
  BY DEF UnitVersion
<1>4. /\ DOMAIN units' = DOMAIN units \cup {NextUnit}
      /\ NextUnit \notin DOMAIN units
  BY <1>2, <1>3, Domains, QuietSame, QuietSpawn
<1>5. new_connections \in Seq(DOMAIN units) /\ stable_connections \in Seq(DOMAIN units)
  BY Domains
<1>6. new_connections \in Seq(DOMAIN units \cup {NextUnit})
  BY <1>5, VectorType
<1>7. /\ ToSet(new_connections') = ToSet(new_connections) \cup {NextUnit}
      /\ Len(new_connections') = Len(new_connections) + 1
  BY <1>1, <1>6, PushProperties
<1>8. /\ found.old \in Seq(DOMAIN units) /\ found.left \in Seq(DOMAIN units)
      /\ found.old \in Seq(DOMAIN units') /\ found.left \in Seq(DOMAIN units')
      /\ ToSet(found.old) \subseteq DOMAIN units
  BY <1>1, <1>4, VectorType DEF HistoryInv
<1>9. Len(stable_connections') + Len(new_connections') =
         Len(found.old) + Len(found.left) + 1
  <2> DEFINE old  == Len(found.old)
             left == Len(found.left)
  <2>1. old \in Nat /\ left \in Nat
    BY <1>8, LenProperties
  <2>2. Len(stable_connections) + Len(new_connections) = old + left + 0
    BY <1>1 DEF HistoryInv
  <2>3. Len(stable_connections') + Len(new_connections') = old + left + 1
    <3> HIDE DEF old, left
    <3> QED BY <1>1, <1>5, <1>7, <2>1, <2>2
  <2> QED BY <2>3
<1> QED BY <1>1, <1>4, <1>7, <1>8, <1>9 DEF HistoryInv

\* A stable unit is retired after the sleep.
LEMMA HistoryRoll ==
  ASSUME BunchInv, HistoryInv, Remember, RollStep, pc' \in {"loop", "rolling"}
  PROVE  HistoryInv'
<1>1. pc = "rolling" /\ state = "Updating" /\ stable_connections # <<>>
  BY DEF RollStep, BunchInv, RollingOnlyInUpdating
<1>2. /\ pc' = "loop" /\ found' = found
      /\ stable_connections' = Front(stable_connections)
      /\ new_connections' = new_connections
      /\ units' = Request(units, {Last(stable_connections)})
  BY <1>1 DEF RollStep, Leave, Remember
<1>3. /\ units \in Seq(Unit) /\ stable_connections \in Seq(DOMAIN units)
      /\ new_connections \in Seq(DOMAIN units)
  BY Domains
<1>4. DOMAIN units' = DOMAIN units
  BY <1>2, <1>3 DEF Request
<1>5. Len(stable_connections') = Len(stable_connections) - 1
  BY <1>1, <1>2, <1>3, PopProperties
<1>6. /\ found.old \in Seq(DOMAIN units) /\ found.left \in Seq(DOMAIN units)
      /\ Len(stable_connections) + Len(new_connections) =
            Len(found.old) + Len(found.left) + 1
  BY <1>1 DEF HistoryInv
<1>7. Len(stable_connections') + Len(new_connections') =
         Len(found.old) + Len(found.left) + 0
  <2> DEFINE old  == Len(found.old)
             left == Len(found.left)
  <2>1. old \in Nat /\ left \in Nat
    BY <1>6, LenProperties
  <2>2. Len(stable_connections) + Len(new_connections) = old + left + 1
    BY <1>6
  <2>3. Len(stable_connections') + Len(new_connections') = old + left + 0
    <3> HIDE DEF old, left
    <3> QED BY <1>2, <1>3, <1>5, <2>1, <2>2
  <2> QED BY <2>3
<1> QED BY <1>1, <1>2, <1>4, <1>6, <1>7 DEF HistoryInv

LEMMA HistoryInvStep ==
  ASSUME BunchInv, OwnerInv, HistoryInv, HNext
  PROVE  HistoryInv'
<1>0. Next /\ Remember
  BY DEF HNext
<1>1. CASE pc' \notin {"loop", "rolling"}
  BY <1>1 DEF HistoryInv
<1>2. CASE pc' \in {"loop", "rolling"}
  <2>1. CASE RequestSent \/ UnitStep \/ Environment \/ Finished
    <3>1. UNCHANGED <<pc, stable_connections, new_connections>>
      BY <2>1 DEF RequestSent, UnitStep, UnitTaskStep, SeeExit, SeeTerm, Exit,
         Environment, SendStartUpdate, SendShutdown, SendHealthCheckFailed,
         CloseChannel, MinutePasses, Send, Finished, vars, bunchVars
    <3>2. DOMAIN units' = DOMAIN units
      <4>1. CASE RequestSent
        BY <4>1 DEF RequestSent, Request
      <4>2. CASE UnitStep \/ Environment \/ Finished
        <5>1. Quiet(units')
          BY <1>0, <4>2, QuietStep
        <5> QED BY <5>1, Domains DEF Quiet
      <4> QED BY <2>1, <4>1, <4>2
    <3> QED BY <1>0, <1>2, <3>1, <3>2, HistoryStays
  <2>2. CASE Bunch
    <3>1. RecvStartUpdate \/ UpdateSpawn \/ RollStep
      BY <1>2, <2>2 DEF Bunch, Run, RunSpawnFails, RunNoAddress, JoinNext, JoinOk,
         JoinErr, JoinErrLimit, JoinErrRestart, JoinErrPanics, SpawnPanics,
         LookupPanics, Leave, JoinNone, Receive, Received, RecvShutdown, RecvNone,
         RecvHealthCheckFailed, CheckLimit, CheckReplace, CheckPanics, StartUpdate,
         UpdateSpawnFails, UpdateNoAddress, LoopExit, Announce, AbortAll, bunchVars
    <3> QED BY <1>0, <1>2, <3>1, HistoryBegins, HistorySpawn, HistoryRoll
  <2> QED BY <1>0, <2>1, <2>2 DEF Next
<1> QED BY <1>1, <1>2

\* What is remembered restricts nothing: a behaviour with it is one of the bunch.
LEMMA HistoryOfBunch == HSpec => Spec
<1>1. HInit => Init
  BY DEF HInit
<1>2. [HNext]_hvars => [Next]_vars
  BY DEF HNext, hvars
<1> QED BY <1>1, <1>2, PTL DEF HSpec, Spec

\* An update that ends in Updating has put exactly one unit of the new version in the
\* place of each stable one it found, and kept those left over by an update that
\* was given up: whatever failed, restarted or was retried before.
THEOREM UpdatesReplaceAll == HSpec => UpdateReplacesAll
<1>1. /\ Init => VersionInv
      /\ HInit => HistoryInv
  BY EmptyVector DEF Init, HInit, VersionInv, HistoryInv
<1>2. VersionInv /\ BunchInv /\ [Next]_vars => VersionInv'
  <2>1. ASSUME VersionInv, UNCHANGED vars PROVE VersionInv'
    BY <2>1 DEF VersionInv, vars
  <2> QED BY <2>1, VersionInvStep
<1>3. HistoryInv /\ BunchInv /\ OwnerInv /\ [HNext]_hvars => HistoryInv'
  <2>1. ASSUME HistoryInv, UNCHANGED hvars PROVE HistoryInv'
    BY <2>1 DEF HistoryInv, hvars, vars
  <2> QED BY <2>1, HistoryInvStep
<1>4. ASSUME VersionInv, BunchInv, HistoryInv, [HNext]_hvars,
             pc = "loop", pc' = "announcing", state = "Updating", run_ok
      PROVE  /\ ToSet(found.old) \cap Registered' = {}
             /\ ToSet(found.left) \subseteq ToSet(stable_connections')
             /\ Len(stable_connections') = Len(found.left) + Len(found.old)
             /\ \A u \in ToSet(stable_connections') : units[u].version = "New"
  <2>1. LoopExit
    BY <1>4 DEF HNext, hvars, Next, Bunch, Run, RunSpawnFails, RunNoAddress,
       JoinNext, JoinOk, JoinErr, JoinNone, Receive, Received, RecvStartUpdate,
       RecvShutdown, RecvNone, RecvHealthCheckFailed, StartUpdate, UpdateSpawn,
       UpdateSpawnFails, UpdateNoAddress, RollStep, Announce, AbortAll,
       RequestSent, UnitStep, UnitTaskStep, SeeExit, SeeTerm, Exit, Environment,
       SendStartUpdate, SendShutdown, SendHealthCheckFailed, CloseChannel,
       MinutePasses, Send, Finished, vars, bunchVars
  <2>2. /\ stable_connections = <<>> /\ stable_connections' = new_connections
        /\ new_connections' = <<>>
    BY <1>4, <2>1 DEF LoopExit, KeepUpdating, Swap
  <2>3. Registered' = ToSet(new_connections)
    BY <2>2, EmptyVector DEF Registered
  <2>4. Len(new_connections) = Len(found.left) + Len(found.old)
    <3> DEFINE old  == Len(found.old)
               left == Len(found.left)
    <3>1. old \in Nat /\ left \in Nat
      <4>1. found.old \in Seq(DOMAIN units) /\ found.left \in Seq(DOMAIN units)
        BY <1>4 DEF HistoryInv
      <4> QED BY <4>1, LenProperties
    <3>2. Len(stable_connections) + Len(new_connections) = old + left + 0
      BY <1>4 DEF HistoryInv
    <3>3. Len(new_connections) = left + old
      <4>1. Len(stable_connections) = 0 /\ Len(new_connections) \in Nat
        BY <1>4, <2>2, Domains, LenProperties
      <4> HIDE DEF old, left
      <4> QED BY <3>1, <3>2, <4>1
    <3> QED BY <3>3
  <2> QED BY <1>4, <2>2, <2>3, <2>4 DEF VersionInv, HistoryInv
<1> QED BY <1>1, <1>2, <1>3, <1>4, BunchInvHolds, OwnerInvHolds, HistoryOfBunch, PTL
        DEF Spec, HSpec, HInit, UpdateReplacesAll
=============================================================================
