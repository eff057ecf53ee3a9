--------------------------- MODULE ContractProofs ---------------------------
(***************************************************************************)
(* A service bunch implements Supervisor under the mapping of              *)
(* BunchContract, for every value of the constants: the initial states map *)
(* to its initial state, and every step maps to one of its steps or to     *)
(* none.                                                                   *)
(***************************************************************************)
EXTENDS OwnershipProofs, BunchContract, FiniteSetTheorems

\* A bunch in one of these states is up, if its run succeeded and it has not ended.
UpStates == {"Running", "Updating"}

\* The units it let go of.
Released == DOMAIN units \ Registered

-----------------------------------------------------------------------------
(* The mapping: what it yields in a state.                                   *)

\* A vector without repetitions has as many elements as it is long.
LEMMA VectorCardinality ==
  ASSUME NEW S, NEW s \in Seq(S), IsInjective(s)
  PROVE  IsFiniteSet(ToSet(s)) /\ Cardinality(ToSet(s)) = Len(s)
<1>1. DOMAIN s = 1..Len(s) /\ Len(s) \in Nat
  OBVIOUS
<1>2. IsFiniteSet(1..Len(s)) /\ Cardinality(1..Len(s)) = Len(s)
  BY <1>1, FS_Interval
<1>3. s \in Surjection(1..Len(s), ToSet(s))
  BY <1>1 DEF Surjection, ToSet
<1>4. s \in Injection(1..Len(s), ToSet(s))
  BY <1>1, <1>3 DEF Surjection, Injection
<1> QED BY <1>2, <1>3, <1>4, FS_Surjection

\* The units listed are units, there are Listed of them, and no unit has had the
\* next name.
LEMMA SeenUnits ==
  ASSUME BunchInv, OwnerInv
  PROVE  /\ Registered \subseteq DOMAIN units
         /\ DOMAIN units \subseteq Units
         /\ Registered \cup Released = DOMAIN units
         /\ Cardinality(Registered) = Listed
         /\ CanSpawn => /\ NextUnit \in Units \ DOMAIN units
                        /\ 1..(Len(units) + 1) = DOMAIN units \cup {NextUnit}
<1>1. /\ units \in Seq(Unit) /\ Len(units) \in Nat /\ DOMAIN units = 1..Len(units)
      /\ stable_connections \in Seq(DOMAIN units)
      /\ new_connections \in Seq(DOMAIN units)
      /\ Registered \subseteq DOMAIN units
  BY Domains DEF Owned
<1>2. DOMAIN units \subseteq Units /\ MaxUnits \in Nat
  BY <1>1, MaxUnitsAssumption DEF BunchInv, TypeOK, Units
<1>3. Cardinality(Registered) = Listed
  <2> DEFINE S == ToSet(stable_connections)
             N == ToSet(new_connections)
  <2>1. /\ IsFiniteSet(S) /\ Cardinality(S) = Len(stable_connections)
        /\ IsFiniteSet(N) /\ Cardinality(N) = Len(new_connections)
    BY <1>1, VectorCardinality DEF OwnerInv, SingleOwner
  <2>2. S \cap N = {} /\ Cardinality({}) = 0
    BY FS_EmptySet DEF OwnerInv, SingleOwner
  <2>3. Cardinality(S \cup N) = Cardinality(S) + Cardinality(N) - Cardinality(S \cap N)
    BY <2>1, FS_Union
  <2>4. Len(stable_connections) \in Nat /\ Len(new_connections) \in Nat
    BY <1>1
  <2>5. Cardinality(S \cap N) = 0
    BY <2>2, Zenon
  <2>6. Cardinality(Registered) = Cardinality(S \cup N)
    BY DEF Registered
  <2> QED BY <2>1, <2>3, <2>4, <2>5, <2>6 DEF Listed
<1>4. CanSpawn => /\ NextUnit \in Units \ DOMAIN units
                  /\ 1..(Len(units) + 1) = DOMAIN units \cup {NextUnit}
  BY <1>1, <1>2 DEF CanSpawn, NextUnit, Units
<1> QED BY <1>1, <1>2, <1>3, <1>4 DEF Released

\* Who has been told of, element by element.
LEMMA ToldMembers ==
  /\ \A u : u \in Told <=> \E m \in outbox : m.type \in GoneTypes /\ u \in m.old
  /\ \A u : u \in Told' <=> \E m \in outbox' : m.type \in GoneTypes /\ u \in m.old
BY DEF Told, GoneTypes

\* A message tells of the units it names if it is of the types that count.
LEMMA ToldStep ==
  /\ outbox' = outbox => Told' = Told
  /\ \A type, old, new :
        outbox' = outbox \cup {Tell(type, old, new)} =>
           Told' = IF type \in GoneTypes THEN Told \cup old ELSE Told
<1>1. \A type, old, new : /\ Tell(type, old, new).type = type
                          /\ Tell(type, old, new).old = old
  BY DEF Tell
<1>2. outbox' = outbox => Told' = Told
  BY DEF Told
<1>3. ASSUME NEW type, NEW old, NEW new,
             outbox' = outbox \cup {Tell(type, old, new)}
      PROVE  Told' = IF type \in GoneTypes THEN Told \cup old ELSE Told
  <2>1. \A u : u \in Told' <=> u \in Told \/ (type \in GoneTypes /\ u \in old)
    BY <1>1, <1>3, ToldMembers
  <2> QED BY <2>1
<1> QED BY <1>2, <1>3

\* What is seen of a bunch on which no handler decides anything.
LEMMA ModeSame ==
  ASSUME Alive, pc # "new", Alive', pc' # "new", run_ok' = run_ok,
         run_ok => (state' \in UpStates <=> state \in UpStates)
  PROVE  Mode' = Mode /\ Mode \in {"up", "down"}
BY DEF Mode, UpStates

\* Of all events, only a StopRequest takes a bunch down that has been up.
LEMMA EventKeepsUp ==
  ASSUME BunchInv, run_ok, NEW event \in Event, event # "StopRequest"
  PROVE  Update(state, event) \in UpStates <=> state \in UpStates
BY DEF BunchInv, Established, TypeOK, Update, Transition, Target, State, Event,
       UpStates

-----------------------------------------------------------------------------
(* What a bunch can do to what is seen of it, once for all actions.          *)

\* The contract counts as this module does.
LEMMA SameCardinality == \A S : Contract!Cardinality(S) = Cardinality(S)
BY DEF Contract!Cardinality, Cardinality

Simulated == Contract!Next \/ UNCHANGED Contract!cVars

\* Nothing is seen.
LEMMA StutterSeen ==
  ASSUME Mode' = Mode, Registered' = Registered,
         DOMAIN units' = DOMAIN units, Told' = Told
  PROVE  Simulated
BY DEF Simulated, Contract!cVars

\* The stable connections are terminated, and the bunch goes on.
LEMMA CloseSeen ==
  ASSUME BunchInv, OwnerInv, terminate, UNCHANGED <<pc, new_connections, run_ok>>,
         Alive, pc # "new", DOMAIN units' = DOMAIN units
  PROVE  Simulated
<1> DEFINE S == ToSet(stable_connections)
<1>1. Mode \in {"up", "down"} /\ Mode' = "down"
  <2>1. Alive' /\ pc' # "new"
    BY DEF Alive
  <2>2. run_ok' => state' \notin {"Running", "Updating"}
    BY DEF terminate, Update, Transition, Target, BunchInv, Established, TypeOK,
           State
  <2> QED BY <2>1, <2>2 DEF Mode
<1>2. /\ Registered' = Registered \ S /\ S \subseteq Registered
      /\ Registered \subseteq DOMAIN units
  <2>1. ToSet(stable_connections') = {}
    BY EmptyVector DEF terminate
  <2> QED BY <2>1, SeenUnits DEF Registered, OwnerInv, SingleOwner
<1>3. Told' = Told \cup S
  BY ToldStep DEF terminate, GoneTypes
<1> HIDE DEF S
<1>4. Contract!Close
  BY <1>1, <1>2, <1>3 DEF Contract!Close
<1> QED BY <1>4 DEF Simulated, Contract!Next

\* The bunch ends; its last message may be that of terminate.
LEMMA EndSeen ==
  ASSUME BunchInv, OwnerInv, NEW how, Leave(how), stable_connections' = <<>>,
         Alive, pc # "new", DOMAIN units' = DOMAIN units,
         terminate \/ outbox' = outbox
  PROVE  Simulated
<1>1. Mode \in {"up", "down"} /\ Mode' = "over"
  <2>1. ~Alive' /\ pc' # "new"
    BY DEF Leave, Alive
  <2> QED BY <2>1 DEF Mode
<1>2. Registered' = {} /\ Registered \subseteq DOMAIN units
  BY EmptyVector, SeenUnits DEF Registered, Leave
<1>3. Told' = Told \/ Told' = Told \cup ToSet(stable_connections)
  BY ToldStep DEF terminate, GoneTypes
<1>4. ToSet(stable_connections) \subseteq Registered
  BY DEF Registered
<1>5. Contract!End
  BY <1>1, <1>2, <1>3, <1>4 DEF Contract!End, Contract!LetGo
<1> QED BY <1>5 DEF Simulated, Contract!Next

LEMMA PanicSeen ==
  ASSUME BunchInv, OwnerInv, SpawnPanics \/ LookupPanics,
         Alive, pc # "new", DOMAIN units' = DOMAIN units
  PROVE  Simulated
<1>1. /\ Leave("Panic") /\ stable_connections' = <<>>
      /\ terminate \/ outbox' = outbox
  BY DEF SpawnPanics, LookupPanics, terminate
<1> QED BY <1>1, EndSeen

\* A unit more is listed.
LEMMA GrowSeen ==
  ASSUME BunchInv, OwnerInv, CanSpawn, Registered' = Registered \cup {NextUnit},
         DOMAIN units' = DOMAIN units \cup {NextUnit}, Told' = Told,
         Mode' = Mode, Mode \in {"up", "down"}
  PROVE  Simulated
<1>1. /\ Registered \subseteq DOMAIN units
      /\ NextUnit \in Units \ DOMAIN units
  BY SeenUnits
<1>2. NextUnit \in Contract!Free
  BY <1>1 DEF Contract!Free
<1>3. Contract!Grow(NextUnit)
  BY <1>1 DEF Contract!Grow
<1>4. Contract!Change
  BY <1>2, <1>3 DEF Contract!Change
<1> QED BY <1>4 DEF Simulated, Contract!Next

\* A stable unit gives way to a new one.
LEMMA ReplaceSeen ==
  ASSUME BunchInv, OwnerInv, CanSpawn, NEW u \in Registered,
         Registered' = (Registered \ {u}) \cup {NextUnit},
         DOMAIN units' = DOMAIN units \cup {NextUnit}, Told' = Told \cup {u},
         Mode' = Mode, Mode \in {"up", "down"}
  PROVE  Simulated
<1>1. /\ Registered \subseteq DOMAIN units
      /\ NextUnit \in Units \ DOMAIN units
  BY SeenUnits
<1>2. NextUnit \in Contract!Free
  BY <1>1 DEF Contract!Free
<1>3. Contract!Replace(u, NextUnit)
  BY <1>1 DEF Contract!Replace
<1>4. Contract!Change
  BY <1>2, <1>3 DEF Contract!Change
<1> QED BY <1>4 DEF Simulated, Contract!Next

\* The replacement of u: a place for the new unit, and that of u if it had one
\* among the stable connections.
LEMMA ReplacedSeen ==
  ASSUME BunchInv, OwnerInv, CanSpawn, NEW u \in DOMAIN units,
         stable_connections' = Replaced(u),
         UNCHANGED <<pc, state, new_connections, run_ok>>, Alive, pc # "new",
         DOMAIN units' = DOMAIN units \cup {NextUnit},
         outbox' = IF u \in ToSet(stable_connections)
                   THEN outbox \cup {Replacement(u)} ELSE outbox
  PROVE  Simulated
<1> DEFINE s == Append(stable_connections, NextUnit)
<1>1. Mode' = Mode /\ Mode \in {"up", "down"}
  BY ModeSame DEF Alive
<1>2. /\ stable_connections \in Seq(DOMAIN units \cup {NextUnit})
      /\ NextUnit \notin DOMAIN units /\ Owned \subseteq DOMAIN units
  BY Domains, VectorType
<1>3. NextUnit \notin ToSet(stable_connections)
  BY <1>2 DEF Owned, Registered
<1>4. /\ s \in Seq(DOMAIN units \cup {NextUnit}) /\ IsInjective(s)
      /\ ToSet(s) = ToSet(stable_connections) \cup {NextUnit}
  BY <1>2, <1>3, PushProperties DEF OwnerInv, SingleOwner
<1> HIDE DEF s
<1>5. ToSet(Replaced(u)) = ToSet(s) \ {u}
  <2>1. /\ ToSet(Replaced(u)) \subseteq ToSet(s) /\ u \notin ToSet(Replaced(u))
        /\ ToSet(s) \ {u} \subseteq ToSet(Replaced(u))
    BY <1>4, TakeProperties DEF Replaced, s
  <2> QED BY <2>1
<1>6. CASE u \in ToSet(stable_connections)
  <2>1. u \in Registered /\ Registered' = (Registered \ {u}) \cup {NextUnit}
    BY <1>2, <1>4, <1>5, <1>6 DEF Registered, OwnerInv, SingleOwner
  <2>2. Told' = Told \cup {u}
    BY <1>6, ToldStep DEF Replacement, GoneTypes
  <2> QED BY <1>1, <2>1, <2>2, ReplaceSeen
<1>7. CASE u \notin ToSet(stable_connections)
  <2>1. Registered' = Registered \cup {NextUnit}
    BY <1>2, <1>4, <1>5, <1>7 DEF Registered
  <2>2. Told' = Told
    BY <1>7, ToldStep
  <2> QED BY <1>1, <2>1, <2>2, GrowSeen
<1> QED BY <1>6, <1>7

-----------------------------------------------------------------------------
(* The actions.                                                              *)

LEMMA RunSeen ==
  ASSUME BunchInv, OwnerInv, Run \/ RunSpawnFails \/ RunNoAddress
  PROVE  Simulated
<1>1. /\ pc = "new" /\ state = "Starting" /\ ~run_ok /\ units = <<>>
      /\ stable_connections = <<>> /\ new_connections = <<>> /\ outbox = {}
  BY DEF Run, RunSpawnFails, RunNoAddress, BunchInv, Untouched, InitialState
<1>2. /\ Mode = "off" /\ Registered = {} /\ Told = {} /\ DOMAIN units = {}
  BY <1>1, EmptyVector DEF Mode, Registered, Told
<1>3. CASE Run
  <2>1. PICK as \in AddressLists(InstancesCount) :
           /\ Len(as) <= MaxUnits
           /\ units' = [i \in 1..Len(as) |-> NewUnit(as[i], "Stable")]
           /\ stable_connections' = [i \in 1..Len(as) |-> i]
           /\ outbox' = outbox \cup {Tell("UnitsSpawned", {}, 1..Len(as))}
    BY <1>3 DEF Run
  <2>2. Len(as) = InstancesCount /\ Len(as) \in Nat
    BY <2>1, AddressListType
  <2>3. Mode' = "up"
    <3>1. state' = "Running" /\ run_ok' /\ pc' = "select"
      BY <1>1, <1>3 DEF Run, Update, Transition, Target
    <3> QED BY <3>1 DEF Mode, Alive
  <2>4. Registered' = 1..InstancesCount /\ DOMAIN units' = 1..InstancesCount
    <3>1. ToSet(stable_connections') = 1..InstancesCount
      BY <2>1, <2>2 DEF ToSet
    <3>2. ToSet(new_connections') = {}
      BY <1>1, <1>3, EmptyVector DEF Run
    <3> QED BY <2>1, <2>2, <3>1, <3>2 DEF Registered
  <2>5. Cardinality(1..InstancesCount) = InstancesCount
    BY <2>2, FS_Interval
  <2>6. 1..InstancesCount \subseteq Units
    BY <2>1, <2>2, MaxUnitsAssumption DEF Units
  <2>7. Told' = Told
    <3>1. "UnitsSpawned" \notin GoneTypes
      BY DEF GoneTypes
    <3> QED BY <2>1, <3>1, ToldStep, Zenon
  <2>8. Cardinality(Registered') >= InstancesCount
    <3>1. Cardinality(Registered') = InstancesCount
      BY <2>4, <2>5, Zenon
    <3> QED BY <2>2, <3>1
  <2>9. Registered' \in SUBSET Contract!Free
    BY <1>2, <2>4, <2>6 DEF Contract!Free
  <2>10. (DOMAIN units \ Registered)' = DOMAIN units \ Registered
    BY <1>2, <2>4
  <2>11. Contract!Open
    BY <1>2, <2>3, <2>7, <2>8, <2>9, <2>10, SameCardinality DEF Contract!Open
  <2> QED BY <2>11 DEF Simulated, Contract!Next
<1>4. CASE RunSpawnFails \/ RunNoAddress
  <2>1. Mode' = "down"
    BY <1>1, <1>4 DEF RunSpawnFails, RunNoAddress, Mode, Alive
  <2>2. Registered' = {}
    BY <1>1, <1>4, EmptyVector DEF RunSpawnFails, RunNoAddress, Registered
  <2>3. DOMAIN units' \subseteq Units /\ Told' = DOMAIN units'
    <3>1. CASE RunSpawnFails
      <4>1. PICK k \in 0..MaxUnits :
               /\ \E as : units' = [i \in 1..k |-> NewUnit(as[i], "Stable")]
               /\ outbox' = {Tell("UnitsDespawned", 1..k, {})}
        BY <3>1 DEF RunSpawnFails
      <4>2. DOMAIN units' = 1..k /\ 1..k \subseteq Units
        BY <4>1, MaxUnitsAssumption DEF Units
      <4>3. outbox' = outbox \cup {Tell("UnitsDespawned", 1..k, {})}
        BY <1>1, <4>1
      <4>4. Told' = 1..k
        BY <1>2, <4>3, ToldStep DEF GoneTypes
      <4> QED BY <4>2, <4>4
    <3>2. CASE RunNoAddress
      BY <1>2, <3>2, ToldStep DEF RunNoAddress
    <3> QED BY <1>4, <3>1, <3>2
  <2>4. Contract!OpenFails
    BY <1>2, <2>1, <2>2, <2>3 DEF Contract!OpenFails, Contract!Free
  <2> QED BY <2>4 DEF Simulated, Contract!Next
<1> QED BY <1>3, <1>4

\* What becomes of the names of units.
LEMMA UnitNames ==
  ASSUME BunchInv
  PROVE  /\ \A u \in DOMAIN units : DOMAIN Join(units, u) = DOMAIN units
         /\ \A requested : DOMAIN Request(units, requested) = DOMAIN units
         /\ \A a \in Addrs, v \in UnitVersion :
               CanSpawn =>
                  /\ DOMAIN Append(units, NewUnit(a, v)) =
                        DOMAIN units \cup {NextUnit}
                  /\ \A u \in DOMAIN units :
                        DOMAIN Append(Join(units, u), NewUnit(a, v)) =
                           DOMAIN units \cup {NextUnit}
<1>1. units \in Seq(Unit) /\ DOMAIN units = 1..Len(units) /\ Len(units) \in Nat
  BY Domains
<1>2. \A u \in DOMAIN units : DOMAIN Join(units, u) = DOMAIN units
  BY DEF Join
<1>3. \A u \in DOMAIN units : /\ Join(units, u) \in Seq(Unit)
                              /\ Len(Join(units, u)) = Len(units)
  BY <1>1, JoinProperties
<1>4. 1..(Len(units) + 1) = DOMAIN units \cup {NextUnit}
  BY <1>1 DEF NextUnit
<1>5. ASSUME NEW us \in Seq(Unit), Len(us) = Len(units),
             NEW a \in Addrs, NEW v \in UnitVersion
      PROVE  DOMAIN Append(us, NewUnit(a, v)) = DOMAIN units \cup {NextUnit}
  BY <1>4, <1>5, SpawnProperties
<1> QED BY <1>1, <1>2, <1>3, <1>5 DEF Request

LEMMA JoinSeen ==
  ASSUME BunchInv, OwnerInv, JoinNext
  PROVE  Simulated
<1>1. pc = "select" /\ Alive
  BY DEF JoinNext, JoinOk, JoinErr, JoinNone, Alive
<1>2. CASE JoinOk
  <2>1. PICK u \in DOMAIN units : units' = Join(units, u)
    BY <1>2 DEF JoinOk
  <2>2. DOMAIN units' = DOMAIN units
    BY <2>1, UnitNames
  <2>3. Mode' = Mode /\ Registered' = Registered /\ Told' = Told
    BY <1>2 DEF JoinOk, bunchVars, Mode, Alive, Registered, Told
  <2> QED BY <2>2, <2>3, StutterSeen
<1>3. CASE JoinErr
  <2>1. PICK u \in DOMAIN units :
           JoinErrLimit(u) \/ JoinErrRestart(u) \/ JoinErrPanics(u)
    BY <1>3 DEF JoinErr
  <2>2. run_ok' = run_ok
    BY <1>3 DEF JoinErr
  <2>3. DOMAIN Join(units, u) = DOMAIN units
    BY UnitNames
  <2>4. CASE JoinErrLimit(u) /\ is_stable_pid(u)
    BY <1>1, <2>2, <2>3, <2>4, CloseSeen DEF JoinErrLimit
  <2>5. CASE JoinErrLimit(u) /\ ~is_stable_pid(u)
    <3>1. /\ UNCHANGED <<pc, stable_connections, new_connections, outbox>>
          /\ state' = Update(state, "UpdatingFailed")
          /\ DOMAIN units' = DOMAIN units
      BY <2>3, <2>5 DEF JoinErrLimit
    <3>2. Mode' = Mode
      BY <1>1, <2>2, <3>1, ModeSame, EventKeepsUp DEF Alive, Event
    <3> QED BY <3>1, <3>2, StutterSeen DEF Registered, Told
  <2>6. CASE JoinErrRestart(u)
    <3>1. PICK a \in Addrs : units' = Append(Join(units, u), NewUnit(a, "Stable"))
      BY <2>6 DEF JoinErrRestart
    <3>2. CanSpawn /\ DOMAIN units' = DOMAIN units \cup {NextUnit}
      BY <2>6, <3>1, UnitNames DEF JoinErrRestart, UnitVersion
    <3> QED BY <1>1, <2>2, <2>6, <3>2, ReplacedSeen DEF JoinErrRestart
  <2>7. CASE JoinErrPanics(u)
    BY <1>1, <2>3, <2>7, PanicSeen DEF JoinErrPanics
  <2> QED BY <2>1, <2>4, <2>5, <2>6, <2>7
<1>4. CASE JoinNone
  BY <1>1, <1>4, EndSeen DEF JoinNone
<1> QED BY <1>2, <1>3, <1>4 DEF JoinNext

LEMMA ReceiveSeen ==
  ASSUME BunchInv, OwnerInv, Receive
  PROVE  Simulated
<1>1. pc = "select" /\ Alive /\ run_ok' = run_ok
  BY DEF Receive, Received, RecvStartUpdate, RecvShutdown, RecvNone,
         RecvHealthCheckFailed, Alive
<1>2. ASSUME UNCHANGED <<stable_connections, new_connections, outbox, units>>,
             pc' \in {"select", "loop"},
             state' = state \/ state' = Update(state, "UpdatingFailed")
                            \/ state' = Update(state, "UpdateRequest")
      PROVE  Simulated
  <2>1. Mode' = Mode
    BY <1>1, <1>2, ModeSame, EventKeepsUp DEF Alive, Event
  <2> QED BY <1>2, <2>1, StutterSeen DEF Registered, Told
<1>3. CASE RecvStartUpdate
  BY <1>2, <1>3 DEF RecvStartUpdate
<1>4. CASE RecvShutdown \/ RecvNone
  <2>1. /\ terminate /\ stable_connections' = <<>> /\ units' = units
        /\ \E how : Leave(how)
    BY <1>4 DEF RecvShutdown, RecvNone, terminate
  <2> QED BY <1>1, <2>1, EndSeen
<1>5. CASE RecvHealthCheckFailed
  <2>1. \/ /\ UNCHANGED <<pc, stable_connections, new_connections, outbox, units>>
           /\ state' = state \/ state' = Update(state, "UpdatingFailed")
        \/ \E u \in ToSet(stable_connections) :
              CheckLimit(u) \/ CheckReplace(u) \/ CheckPanics(u)
    BY <1>5 DEF RecvHealthCheckFailed, At, bunchVars, ToSet
  <2>2. ASSUME NEW u \in ToSet(stable_connections),
               CheckLimit(u) \/ CheckReplace(u) \/ CheckPanics(u)
        PROVE  Simulated
    <3>1. u \in DOMAIN units
      BY SeenUnits DEF Registered
    <3>2. CASE CheckLimit(u)
      BY <1>1, <3>2, CloseSeen DEF CheckLimit
    <3>3. CASE CheckReplace(u)
      <4>1. PICK a \in Addrs : units' = Append(units, NewUnit(a, "Stable"))
        BY <3>3 DEF CheckReplace
      <4>2. CanSpawn /\ DOMAIN units' = DOMAIN units \cup {NextUnit}
        BY <3>3, <4>1, UnitNames DEF CheckReplace, UnitVersion
      <4> QED BY <1>1, <3>1, <3>3, <4>2, ReplacedSeen DEF CheckReplace
    <3>4. CASE CheckPanics(u)
      BY <1>1, <3>4, PanicSeen DEF CheckPanics
    <3> QED BY <2>2, <3>2, <3>3, <3>4
  <2> QED BY <1>1, <1>2, <2>1, <2>2
<1> QED BY <1>3, <1>4, <1>5 DEF Receive

\* A stable unit is retired while there is one more than needed.
LEMMA RollStepSeen ==
  ASSUME BunchInv, OwnerInv, CapacityKept, RollStep
  PROVE  Simulated
<1> DEFINE u == Last(stable_connections)
<1>1. /\ pc = "rolling" /\ state = "Updating" /\ stable_connections # <<>>
      /\ Alive /\ run_ok' = run_ok
  BY DEF RollStep, BunchInv, RollingOnlyInUpdating, Alive
<1>2. CASE units[u].task # "waiting"
  <2>1. /\ Leave("Panic") /\ stable_connections' = <<>>
        /\ UNCHANGED <<outbox, units>>
    BY <1>2 DEF RollStep
  <2> QED BY <1>1, <2>1, EndSeen
<1>3. CASE units[u].task = "waiting"
  <2>1. /\ stable_connections' = Front(stable_connections)
        /\ new_connections' = new_connections /\ pc' = "loop" /\ state' = state
        /\ outbox' = outbox \cup
              {Tell("UnitDespawned", {Last(new_connections)}, {})}
        /\ units' = Request(units, {u})
    BY <1>1, <1>3 DEF RollStep
  <2>2. /\ u \in ToSet(stable_connections)
        /\ ToSet(stable_connections') = ToSet(stable_connections) \ {u}
    <3>1. /\ stable_connections \in Seq(DOMAIN units)
          /\ IsInjective(stable_connections)
      BY Domains DEF OwnerInv, SingleOwner
    <3>2. /\ u \in ToSet(stable_connections)
          /\ ToSet(stable_connections) =
                ToSet(Front(stable_connections)) \cup {u}
          /\ u \notin ToSet(Front(stable_connections))
      BY <1>1, <3>1, PopProperties
    <3> QED BY <2>1, <3>2
  <2> HIDE DEF u
  <2>3. u \in Registered /\ Registered' = Registered \ {u}
    BY <2>1, <2>2 DEF Registered, OwnerInv, SingleOwner
  <2>4. Mode' = Mode /\ Mode \in {"up", "down"}
    BY <1>1, <2>1, ModeSame DEF Alive
  <2>5. Told' = Told
    <3>1. "UnitDespawned" \notin GoneTypes
      BY DEF GoneTypes
    <3> QED BY <2>1, <3>1, ToldStep, Zenon
  <2>6. Mode = "up" => Cardinality(Registered) > InstancesCount
    <3>1. Mode = "up" => run_ok
      BY DEF Mode
    <3>2. run_ok => Listed >= InstancesCount + 1
      BY <1>1 DEF CapacityKept, Listed
    <3>3. Cardinality(Registered) = Listed /\ Listed \in Nat
      <4>1. TypeOK
        BY DEF BunchInv
      <4>2. Listed \in Nat
        BY <4>1 DEF TypeOK, Listed
      <4> QED BY <4>2, SeenUnits
    <3>4. \A m \in Nat : m >= InstancesCount + 1 => m > InstancesCount
      BY InstancesCountAssumption
    <3> QED BY <3>1, <3>2, <3>3, <3>4
  <2>7. DOMAIN units' = DOMAIN units /\ Registered \subseteq DOMAIN units
    BY <2>1, UnitNames, SeenUnits
  <2>8. Contract!Retire(u)
    BY <2>3, <2>5, <2>6, <2>7, SameCardinality DEF Contract!Retire, Contract!LetGo
  <2>9. Contract!Change
    BY <2>3, <2>4, <2>8 DEF Contract!Change
  <2> QED BY <2>9 DEF Simulated, Contract!Next
<1> QED BY <1>2, <1>3

LEMMA UpdateSeen ==
  ASSUME BunchInv, OwnerInv, CapacityKept, StartUpdate
  PROVE  Simulated
<1>1. CASE UpdateSpawn
  <2>1. PICK a \in Addrs : units' = Append(units, NewUnit(a, "New"))
    BY <1>1 DEF UpdateSpawn
  <2>2. CanSpawn /\ DOMAIN units' = DOMAIN units \cup {NextUnit}
    BY <1>1, <2>1, UnitNames DEF UpdateSpawn, UnitVersion
  <2>3. Registered' = Registered \cup {NextUnit}
    <3>1. new_connections \in Seq(DOMAIN units \cup {NextUnit})
      BY Domains, VectorType
    <3>2. ToSet(new_connections') = ToSet(new_connections) \cup {NextUnit}
      BY <1>1, <3>1, PushProperties DEF UpdateSpawn
    <3> QED BY <1>1, <3>2 DEF UpdateSpawn, Registered
  <2>4. Told' = Told
    <3>1. /\ "UnitSpawned" \notin GoneTypes
          /\ outbox' = outbox \cup {Tell("UnitSpawned", {}, {NextUnit})}
      BY <1>1 DEF GoneTypes, UpdateSpawn
    <3> QED BY <3>1, ToldStep, Zenon
  <2>5. Mode' = Mode /\ Mode \in {"up", "down"}
    BY <1>1, ModeSame DEF UpdateSpawn, Alive
  <2> QED BY <2>2, <2>3, <2>4, <2>5, GrowSeen
<1>2. CASE UpdateSpawnFails \/ UpdateNoAddress \/ LoopExit \/ Announce
  <2>1. /\ Alive /\ Alive' /\ pc # "new" /\ pc' # "new"
        /\ run_ok' = run_ok /\ units' = units
        /\ \/ state' = state
           \/ \E event \in Event : /\ event # "StopRequest"
                                   /\ state' = Update(state, event)
    BY <1>2 DEF UpdateSpawnFails, FailUpdate, UpdateNoAddress, LoopExit,
       Announce, Alive, Event
  <2>2. Mode' = Mode
    BY <2>1, ModeSame, EventKeepsUp
  <2>3. Registered' = Registered
    BY <1>2 DEF UpdateSpawnFails, FailUpdate, UpdateNoAddress, LoopExit, Swap,
       Announce, Registered
  <2>4. Told' = Told
    <3>1. /\ "UpdateFinished" \notin GoneTypes
          /\ \/ outbox' = outbox
             \/ outbox' = outbox \cup {Tell("UpdateFinished", {}, {})}
      BY <1>2 DEF GoneTypes, UpdateSpawnFails, UpdateNoAddress, LoopExit, Announce
    <3> QED BY <3>1, ToldStep, Zenon
  <2> QED BY <2>1, <2>2, <2>3, <2>4, StutterSeen
<1> QED BY <1>1, <1>2, RollStepSeen DEF StartUpdate

LEMMA OthersSeen ==
  ASSUME BunchInv, AbortAll \/ RequestSent \/ UnitStep \/ Environment \/ Finished
  PROVE  Simulated
<1>1. DOMAIN units' = DOMAIN units
  <2>1. CASE RequestSent
    BY <2>1, UnitNames DEF RequestSent
  <2> QED BY <2>1 DEF AbortAll, UnitStep, UnitTaskStep, SeeExit, SeeTerm, Exit,
     terminate_unit, Environment, SendStartUpdate, SendShutdown,
     SendHealthCheckFailed, CloseChannel, MinutePasses, Send, Finished, vars
<1>2. /\ UNCHANGED <<state, stable_connections, new_connections, run_ok, outbox>>
      /\ pc' = pc \/ (pc = "dropping" /\ pc' = "gone")
  BY DEF AbortAll, RequestSent, UnitStep, UnitTaskStep, SeeExit, SeeTerm,
     Exit, Environment, SendStartUpdate, SendShutdown, SendHealthCheckFailed,
     CloseChannel, MinutePasses, Send, Finished, vars, bunchVars
<1>3. Mode' = Mode /\ Registered' = Registered /\ Told' = Told
  BY <1>2 DEF Mode, Alive, Registered, Told
<1> QED BY <1>1, <1>3, StutterSeen

-----------------------------------------------------------------------------
\* A service bunch keeps its promise: whatever fails, is checked, updated or
\* stopped, it lets go of a unit only for another one, while it has more than it
\* needs, or when it gives up; takes none back; and reports as gone what it let
\* go of.
THEOREM BunchImplementsSupervisor == Spec => ImplementsSupervisor
<1>1. Init => Contract!Init
  <2> SUFFICES ASSUME Init PROVE Contract!Init
    OBVIOUS
  <2>1. Mode = "off" /\ Registered = {} /\ Told = {} /\ DOMAIN units = {}
    BY EmptyVector DEF Init, Mode, Registered, Told
  <2> QED BY <2>1 DEF Contract!Init
<1>2. ASSUME BunchInv, OwnerInv, CapacityKept, [Next]_vars
      PROVE  [Contract!Next]_(Contract!cVars)
  <2>1. CASE Next
    <3>1. Simulated
      BY <1>2, <2>1, RunSeen, JoinSeen, ReceiveSeen, UpdateSeen, OthersSeen
         DEF Next, Bunch
    <3> QED BY <3>1 DEF Simulated
  <2>2. CASE UNCHANGED vars
    <3>1. Mode' = Mode /\ Registered' = Registered /\ Told' = Told
          /\ DOMAIN units' = DOMAIN units
      BY <2>2 DEF vars, Mode, Alive, Registered, Told
    <3>2. UNCHANGED Contract!cVars
      BY <3>1 DEF Contract!cVars
    <3> QED BY <3>2
  <2> QED BY <1>2, <2>1, <2>2
<1> QED BY <1>1, <1>2, BunchInvHolds, OwnerInvHolds, CapacityIsKept, PTL
        DEF Spec, ImplementsSupervisor, Contract!Spec
=============================================================================
