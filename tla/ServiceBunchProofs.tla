------------------------- MODULE ServiceBunchProofs -------------------------
(***************************************************************************)
(* Theorems about ServiceBunch for every number of instances, every limit, *)
(* every set of addresses and every bound.                                 *)
(***************************************************************************)
EXTENDS ServiceBunch, SequenceTheorems, TLAPS

-----------------------------------------------------------------------------
(* Vectors of connections. *)

\* Vec::push.
LEMMA PushProperties ==
  ASSUME NEW S, NEW s \in Seq(S), NEW e \in S
  PROVE  /\ Append(s, e) \in Seq(S)
         /\ Len(Append(s, e)) = Len(s) + 1
         /\ ToSet(Append(s, e)) = ToSet(s) \cup {e}
         /\ IsInjective(s) /\ e \notin ToSet(s) => IsInjective(Append(s, e))
         /\ Append(s, e) # <<>>
<1>1. /\ Append(s, e) \in Seq(S)
      /\ Len(Append(s, e)) = Len(s) + 1
      /\ DOMAIN Append(s, e) = 1..(Len(s) + 1)
      /\ \A i \in 1..Len(s) : Append(s, e)[i] = s[i]
      /\ Append(s, e)[Len(s) + 1] = e
  OBVIOUS
<1>2. DOMAIN s = 1..Len(s) /\ Len(s) \in Nat
  OBVIOUS
<1> DEFINE t == Append(s, e)
<1> HIDE DEF t
<1>3. ToSet(t) = ToSet(s) \cup {e}
  BY <1>1, <1>2 DEF ToSet, t
<1>4. IsInjective(s) /\ e \notin ToSet(s) => IsInjective(t)
  BY <1>1, <1>2 DEF ToSet, IsInjective, t
<1>5. Len(t) # 0 /\ Len(<<>>) = 0
  BY <1>1, <1>2, EmptySeq DEF t
<1> QED BY <1>1, <1>3, <1>4, <1>5 DEF t

\* Vec::remove, at the position of u.
LEMMA TakeProperties ==
  ASSUME NEW S, NEW s \in Seq(S), NEW u
  PROVE  /\ take_from_vec_with_pid(s, u) \in Seq(S)
         /\ Len(take_from_vec_with_pid(s, u)) =
               IF u \in ToSet(s) THEN Len(s) - 1 ELSE Len(s)
         /\ ToSet(take_from_vec_with_pid(s, u)) \subseteq ToSet(s)
         /\ ToSet(s) \ {u} \subseteq ToSet(take_from_vec_with_pid(s, u))
         /\ IsInjective(s) =>
               /\ IsInjective(take_from_vec_with_pid(s, u))
               /\ u \notin ToSet(take_from_vec_with_pid(s, u))
<1>0. DOMAIN s = 1..Len(s) /\ Len(s) \in Nat /\ \A i \in 1..Len(s) : s[i] \in S
  OBVIOUS
<1>1. CASE u \notin ToSet(s)
  BY <1>0, <1>1 DEF take_from_vec_with_pid
<1>2. CASE u \in ToSet(s)
  <2> DEFINE k == CHOOSE i \in DOMAIN s : s[i] = u
             t == take_from_vec_with_pid(s, u)
  <2>1. k \in 1..Len(s) /\ s[k] = u
    BY <1>0, <1>2 DEF ToSet
  <2>2. t = SubSeq(s, 1, k - 1) \o SubSeq(s, k + 1, Len(s))
    BY <1>2 DEF take_from_vec_with_pid, RemoveAt
  <2> HIDE DEF k, t
  <2>3. /\ SubSeq(s, 1, k - 1) \in Seq(S)
        /\ Len(SubSeq(s, 1, k - 1)) = k - 1
        /\ \A i \in 1..(k - 1) : SubSeq(s, 1, k - 1)[i] = s[i]
    BY <1>0, <2>1
  <2>4. /\ SubSeq(s, k + 1, Len(s)) \in Seq(S)
        /\ Len(SubSeq(s, k + 1, Len(s))) = Len(s) - k
        /\ \A i \in 1..(Len(s) - k) : SubSeq(s, k + 1, Len(s))[i] = s[k + i]
    <3> DEFINE r == SubSeq(s, k + 1, Len(s))
    <3>1. /\ r \in Seq(S)
          /\ Len(r) = IF k + 1 <= Len(s) THEN Len(s) - (k + 1) + 1 ELSE 0
          /\ \A i \in 1..(Len(s) - (k + 1) + 1) : r[i] = s[k + 1 + i - 1]
      <4>1. \A i \in (k + 1)..Len(s) : s[i] \in S
        BY <1>0, <2>1
      <4> QED BY <1>0, <2>1, <4>1, SubSeqProperties
    <3> HIDE DEF r
    <3>2. Len(s) - (k + 1) + 1 = Len(s) - k
      BY <1>0, <2>1
    <3>3. Len(r) = Len(s) - k
      <4>1. k \in Nat /\ Len(s) \in Nat /\ k <= Len(s)
        BY <1>0, <2>1
      <4>2. CASE k + 1 <= Len(s)
        BY <3>1, <3>2, <4>2, Zenon
      <4>3. CASE ~(k + 1 <= Len(s))
        <5>1. Len(r) = 0
          BY <3>1, <4>3, Zenon
        <5> QED BY <4>1, <4>3, <5>1
      <4> QED BY <4>2, <4>3
    <3>4. \A i \in 1..(Len(s) - k) : k + 1 + i - 1 = k + i
      BY <1>0, <2>1
    <3> QED BY <3>1, <3>2, <3>3, <3>4 DEF r
  <2>5. /\ t \in Seq(S) /\ Len(t) = Len(s) - 1 /\ DOMAIN t = 1..(Len(s) - 1)
        /\ \A i \in 1..(Len(s) - 1) : t[i] = IF i < k THEN s[i] ELSE s[i + 1]
    <3> DEFINE l == SubSeq(s, 1, k - 1)
               r == SubSeq(s, k + 1, Len(s))
    <3>1. /\ t \in Seq(S) /\ Len(t) = Len(l) + Len(r)
          /\ \A i \in 1..(Len(l) + Len(r)) :
                t[i] = IF i <= Len(l) THEN l[i] ELSE r[i - Len(l)]
      BY <2>2, <2>3, <2>4, ConcatProperties
    <3> HIDE DEF l, r
    <3>2. Len(l) = k - 1 /\ Len(r) = Len(s) - k
      BY <2>3, <2>4 DEF l, r
    <3>3. Len(l) + Len(r) = Len(s) - 1
      BY <1>0, <2>1, <3>2
    <3>4. ASSUME NEW i \in 1..(Len(s) - 1)
          PROVE  t[i] = IF i < k THEN s[i] ELSE s[i + 1]
      <4>1. CASE i < k
        BY <1>0, <2>1, <2>3, <3>1, <3>2, <3>3, <4>1 DEF l
      <4>2. CASE i >= k
        <5>1. i - (k - 1) \in 1..(Len(s) - k) /\ k + (i - (k - 1)) = i + 1
          BY <1>0, <2>1, <4>2
        <5>2. t[i] = r[i - (k - 1)]
          BY <1>0, <2>1, <3>1, <3>2, <3>3, <4>2
        <5>3. r[i - (k - 1)] = s[i + 1]
          BY <2>4, <5>1 DEF r
        <5> QED BY <1>0, <2>1, <4>2, <5>2, <5>3
      <4> QED BY <2>1, <4>1, <4>2
    <3>5. DOMAIN t = 1..(Len(s) - 1)
      BY <3>1, <3>3, LenProperties
    <3> QED BY <3>1, <3>3, <3>4, <3>5
  <2>6. ToSet(t) \subseteq ToSet(s)
    BY <1>0, <2>1, <2>5 DEF ToSet
  <2>7. ToSet(s) \ {u} \subseteq ToSet(t)
    <3> SUFFICES ASSUME NEW i \in 1..Len(s), s[i] # u PROVE s[i] \in ToSet(t)
      BY <1>0 DEF ToSet
    <3>1. CASE i < k
      BY <1>0, <2>1, <2>5, <3>1 DEF ToSet
    <3>2. CASE i > k
      <4>1. i - 1 \in DOMAIN t /\ t[i - 1] = s[i]
        BY <1>0, <2>1, <2>5, <3>2
      <4> QED BY <4>1 DEF ToSet
    <3> QED BY <2>1, <3>1, <3>2
  <2>8. ASSUME IsInjective(s) PROVE IsInjective(t) /\ u \notin ToSet(t)
    <3>1. \A i, j \in 1..Len(s) : s[i] = s[j] => i = j
      BY <1>0, <2>8 DEF IsInjective
    <3>2. \A i \in DOMAIN t : t[i] # u
      BY <1>0, <2>1, <2>5, <3>1
    <3>3. ASSUME NEW i \in DOMAIN t, NEW j \in DOMAIN t, t[i] = t[j]
          PROVE  i = j
      <4>1. /\ i \in 1..(Len(s) - 1) /\ j \in 1..(Len(s) - 1)
            /\ t[i] = IF i < k THEN s[i] ELSE s[i + 1]
            /\ t[j] = IF j < k THEN s[j] ELSE s[j + 1]
        BY <2>5
      <4>2. /\ i \in 1..Len(s) /\ i + 1 \in 1..Len(s)
            /\ j \in 1..Len(s) /\ j + 1 \in 1..Len(s)
        BY <1>0, <4>1
      <4>3. CASE i < k /\ j < k
        BY <3>1, <3>3, <4>1, <4>2, <4>3
      <4>4. CASE i < k /\ ~(j < k)
        <5>1. s[i] = s[j + 1]
          BY <3>3, <4>1, <4>4, Zenon
        <5>2. i = j + 1
          BY <3>1, <4>2, <5>1
        <5> QED BY <2>1, <4>1, <4>4, <5>2
      <4>5. CASE ~(i < k) /\ j < k
        <5>1. s[i + 1] = s[j]
          BY <3>3, <4>1, <4>5, Zenon
        <5>2. i + 1 = j
          BY <3>1, <4>2, <5>1
        <5> QED BY <2>1, <4>1, <4>5, <5>2
      <4>6. CASE ~(i < k) /\ ~(j < k)
        <5>1. s[i + 1] = s[j + 1]
          BY <3>3, <4>1, <4>6, Zenon
        <5>2. i + 1 = j + 1
          BY <3>1, <4>2, <5>1
        <5> QED BY <4>1, <5>2
      <4> QED BY <2>1, <4>1, <4>3, <4>4, <4>5, <4>6
    <3> QED BY <3>2, <3>3 DEF ToSet, IsInjective
  <2> QED BY <1>2, <2>5, <2>6, <2>7, <2>8 DEF t
<1> QED BY <1>1, <1>2

\* Vec::pop.
LEMMA PopProperties ==
  ASSUME NEW S, NEW s \in Seq(S), s # <<>>
  PROVE  /\ Front(s) \in Seq(S)
         /\ Len(Front(s)) = Len(s) - 1
         /\ Last(s) \in ToSet(s)
         /\ ToSet(s) = ToSet(Front(s)) \cup {Last(s)}
         /\ IsInjective(s) => /\ IsInjective(Front(s))
                              /\ Last(s) \notin ToSet(Front(s))
<1>1. DOMAIN s = 1..Len(s) /\ Len(s) \in Nat \ {0}
      /\ \A i \in 1..Len(s) : s[i] \in S
  OBVIOUS
<1> DEFINE t == Front(s)
<1>2. /\ t \in Seq(S) /\ Len(t) = Len(s) - 1 /\ DOMAIN t = 1..(Len(s) - 1)
      /\ \A i \in 1..(Len(s) - 1) : t[i] = s[i]
  BY <1>1 DEF Front
<1> HIDE DEF t
<1>3. Last(s) = s[Len(s)] /\ Last(s) \in ToSet(s)
  BY <1>1 DEF Last, ToSet
<1>4. ToSet(s) = ToSet(t) \cup {Last(s)}
  BY <1>1, <1>2, <1>3 DEF ToSet
<1>5. IsInjective(s) => IsInjective(t) /\ Last(s) \notin ToSet(t)
  BY <1>1, <1>2, <1>3 DEF ToSet, IsInjective
<1> QED BY <1>2, <1>3, <1>4, <1>5 DEF t

\* Vec::new.
LEMMA EmptyVector ==
  /\ ToSet(<<>>) = {} /\ IsInjective(<<>>) /\ Len(<<>>) = 0
  /\ \A S : <<>> \in Seq(S)
BY DEF ToSet, IsInjective

\* The elements of a vector, and a vector over a larger set.
LEMMA VectorType ==
  ASSUME NEW S, NEW s \in Seq(S)
  PROVE  /\ ToSet(s) \subseteq S
         /\ \A T : S \subseteq T => s \in Seq(T)
BY DEF ToSet

-----------------------------------------------------------------------------
(* Units. *)

\* A unit is spawned.
LEMMA SpawnProperties ==
  ASSUME NEW us \in Seq(Unit), NEW a \in Addrs, NEW v \in UnitVersion
  PROVE  LET vs == Append(us, NewUnit(a, v)) IN
         /\ vs \in Seq(Unit)
         /\ Len(vs) = Len(us) + 1
         /\ DOMAIN vs = 1..(Len(us) + 1)
         /\ \A u \in 1..Len(us) : vs[u] = us[u]
         /\ vs[Len(us) + 1].task = "waiting"
         /\ vs[Len(us) + 1].term = FALSE
<1>1. NewUnit(a, v) \in Unit
  BY DEF NewUnit, Unit, Process, UnitTask
<1>2. NewUnit(a, v).task = "waiting" /\ NewUnit(a, v).term = FALSE
  BY DEF NewUnit
<1> QED BY <1>1, <1>2

\* A unit's result is taken from the join_set.
LEMMA JoinProperties ==
  ASSUME NEW us \in Seq(Unit), NEW u \in DOMAIN us
  PROVE  /\ Join(us, u) \in Seq(Unit)
         /\ Len(Join(us, u)) = Len(us)
         /\ \A v \in 1..Len(us) :
               /\ Join(us, u)[v].term = us[v].term
               /\ Join(us, u)[v].task = IF v = u THEN "joined" ELSE us[v].task
<1>1. /\ DOMAIN us = 1..Len(us)
      /\ \A v \in 1..Len(us) : us[v] \in Unit
  OBVIOUS
<1>2. [us[u] EXCEPT !.task = "joined"] \in Unit
  BY <1>1 DEF Unit, UnitTask
<1>3. Join(us, u) = [us EXCEPT ![u] = [us[u] EXCEPT !.task = "joined"]]
  BY DEF Join
<1>4. us[u] \in Unit
  BY <1>1
<1>5. /\ [us[u] EXCEPT !.task = "joined"].term = us[u].term
      /\ [us[u] EXCEPT !.task = "joined"].task = "joined"
  BY <1>4 DEF Unit
<1> QED BY <1>1, <1>2, <1>3, <1>5, ExceptSeq

\* Termination requests are put into channels.
LEMMA RequestProperties ==
  ASSUME NEW us \in Seq(Unit), NEW requested
  PROVE  /\ Request(us, requested) \in Seq(Unit)
         /\ Len(Request(us, requested)) = Len(us)
         /\ \A v \in 1..Len(us) :
               /\ Request(us, requested)[v].task = us[v].task
               /\ Request(us, requested)[v].term =
                     (us[v].term \/ (v \in requested /\ us[v].task = "waiting"))
<1>1. /\ DOMAIN us = 1..Len(us) /\ Len(us) \in Nat
      /\ \A v \in 1..Len(us) : us[v] \in Unit
  OBVIOUS
<1> DEFINE e(v) == IF v \in requested /\ us[v].task = "waiting"
                   THEN [us[v] EXCEPT !.term = TRUE] ELSE us[v]
<1>2. Request(us, requested) = [v \in 1..Len(us) |-> e(v)]
  BY <1>1 DEF Request
<1>3. \A v \in 1..Len(us) : /\ e(v) \in Unit
                             /\ e(v).task = us[v].task
                             /\ e(v).term = (us[v].term \/ (v \in requested
                                              /\ us[v].task = "waiting"))
  BY <1>1 DEF Unit
<1> HIDE DEF e
<1> QED BY <1>1, <1>2, <1>3

\* Vectors and sets of units stay well typed when units are spawned.
LEMMA MoreUnits ==
  ASSUME TypeOK, NEW us \in Seq(Unit), Len(units) <= Len(us), Len(us) <= MaxUnits
  PROVE  /\ DOMAIN units = 1..Len(units) /\ DOMAIN us = 1..Len(us)
         /\ DOMAIN units \subseteq DOMAIN us /\ DOMAIN us \subseteq Units
         /\ \A s \in Seq(DOMAIN units) : s \in Seq(DOMAIN us)
         /\ stable_connections \in Seq(DOMAIN us)
         /\ new_connections \in Seq(DOMAIN us)
         /\ to_stop \subseteq DOMAIN us
<1>1. /\ DOMAIN units = 1..Len(units) /\ DOMAIN us = 1..Len(us)
      /\ Len(units) \in Nat /\ Len(us) \in Nat
  BY DEF TypeOK
<1>2. DOMAIN units \subseteq DOMAIN us /\ DOMAIN us \subseteq Units
  BY <1>1, MaxUnitsAssumption DEF Units
<1>3. \A s \in Seq(DOMAIN units) : s \in Seq(DOMAIN us)
  BY <1>2
<1> QED BY <1>1, <1>2, <1>3 DEF TypeOK

\* A message to the controller.
LEMMA TellType ==
  ASSUME NEW old \in SUBSET Units, NEW new \in SUBSET Units,
         NEW type \in {"UnitSpawned", "UnitsSpawned", "UnitDespawned",
                       "UnitsDespawned", "UnitReplaced", "UpdateFinished"}
  PROVE  Tell(type, old, new) \in Message
BY DEF Tell, Message

\* StateBox::update.
LEMMA UpdateProperties ==
  ASSUME NEW st \in State, NEW ev \in Event
  PROVE  /\ Update(st, ev) \in State
         /\ st = "Stopping" => Update(st, ev) = "Stopping"
BY DEF Update, Transition, Target, State, Event

-----------------------------------------------------------------------------
(* Type correctness.  The part of TypeOK a handler of the bunch touches, and *)
(* the frame: everything else it leaves alone.                               *)

\* TypeOK after a step, from what the step did to each variable.
LEMMA TypeOKFromParts ==
  ASSUME TypeOK,
         units' \in Seq(Unit), Len(units) <= Len(units'), Len(units') <= MaxUnits,
         pc' \in {"new", "select", "loop", "rolling", "announcing", "dropping",
                 "gone"},
         state' \in State,
         stable_connections' \in Seq(DOMAIN units'),
         new_connections' \in Seq(DOMAIN units'),
         failure_count' \in Nat, minute_over' \in BOOLEAN, run_ok' \in BOOLEAN,
         result' \in {"none", "Drained", "Shutdown", "Panic",
                     "ControllerConnectionDropped"},
         controller_rx' \in Seq(Notice),
         senders' \in {"controller", "checks", "none"},
         outbox' \subseteq Message,
         to_stop' \subseteq DOMAIN units'
  PROVE  TypeOK'
BY DEF TypeOK

\* failure_add and failures_reset.
LEMMA RegisterFailureType ==
  ASSUME TypeOK, NEW u, RegisterFailure(u)
  PROVE  failure_count' \in Nat /\ minute_over' \in BOOLEAN
<1>1. CASE Counted(u)
  <2>1. failure_count \in Nat /\ failure_count + 1 \in Nat /\ 0 \in Nat
    BY DEF TypeOK
  <2>2. /\ failure_count' = IF minute_over THEN 0 ELSE failure_count + 1
        /\ minute_over' = FALSE
    BY <1>1, Zenon DEF RegisterFailure
  <2>3. failure_count' \in Nat
    BY <2>1, <2>2, Zenon
  <2> QED BY <2>2, <2>3
<1>2. CASE ~Counted(u)
  BY <1>2 DEF TypeOK, RegisterFailure, countVars
<1> QED BY <1>1, <1>2

\* ServiceBunch::terminate.
LEMMA TerminateType ==
  ASSUME TypeOK, terminate
  PROVE  /\ state' \in State
         /\ stable_connections' = <<>>
         /\ to_stop' \subseteq DOMAIN units
         /\ outbox' \subseteq Message
<1>1. ToSet(stable_connections) \subseteq DOMAIN units
  BY VectorType DEF TypeOK
<1>2. DOMAIN units \subseteq Units
  BY MoreUnits DEF TypeOK
<1>3. state' \in State
  BY UpdateProperties DEF TypeOK, terminate, Event
<1>4. Tell("UnitsDespawned", ToSet(stable_connections), {}) \in Message
  BY <1>1, <1>2, TellType
<1> QED BY <1>1, <1>3, <1>4 DEF TypeOK, terminate

\* A panic drops the connections.
LEMMA PanicType ==
  ASSUME TypeOK, SpawnPanics \/ LookupPanics
  PROVE  /\ pc' = "dropping" /\ result' = "Panic"
         /\ state' \in State
         /\ stable_connections' = <<>> /\ new_connections' = <<>>
         /\ to_stop' \subseteq DOMAIN units
         /\ outbox' \subseteq Message
<1>1. CASE SpawnPanics /\ state = "Starting"
  BY <1>1, TerminateType DEF SpawnPanics, Leave
<1>2. CASE SpawnPanics /\ state # "Starting"
  BY <1>2, UpdateProperties DEF SpawnPanics, Leave, TypeOK, Event
<1>3. CASE LookupPanics
  BY <1>3 DEF LookupPanics, Leave, TypeOK
<1> QED BY <1>1, <1>2, <1>3

\* The stable connections after a replacement, the message about it.
LEMMA ReplacedType ==
  ASSUME TypeOK, CanSpawn, NEW u \in DOMAIN units
  PROVE  /\ Replaced(u) \in Seq(1..(Len(units) + 1))
         /\ Replacement(u) \in Message
         /\ Len(units) + 1 <= MaxUnits
         /\ NextUnit = Len(units) + 1 /\ NextUnit \in 1..(Len(units) + 1)
<1> DEFINE S == 1..(Len(units) + 1)
<1>1. /\ Len(units) \in Nat /\ DOMAIN units = 1..Len(units)
      /\ Len(units) < MaxUnits /\ Len(units) + 1 <= MaxUnits
      /\ NextUnit = Len(units) + 1 /\ NextUnit \in S
  BY MaxUnitsAssumption DEF TypeOK, CanSpawn, NextUnit
<1>2. stable_connections \in Seq(S)
  <2>1. DOMAIN units \subseteq S
    BY <1>1
  <2> QED BY <2>1, VectorType DEF TypeOK
<1>3. Append(stable_connections, NextUnit) \in Seq(S)
  BY <1>1, <1>2, PushProperties
<1>4. Replaced(u) \in Seq(S)
  BY <1>3, TakeProperties DEF Replaced
<1>5. S \subseteq Units
  BY <1>1, MaxUnitsAssumption DEF Units
<1>6. {u} \in SUBSET Units /\ {NextUnit} \in SUBSET Units
  BY <1>1, <1>5
<1>7. Replacement(u) \in Message
  BY <1>6, TellType DEF Replacement
<1> QED BY <1>1, <1>4, <1>7

LEMMA InitType == Init => TypeOK
<1> SUFFICES ASSUME Init PROVE TypeOK
  OBVIOUS
<1>1. <<>> \in Seq(Unit) /\ <<>> \in Seq(Notice) /\ Len(<<>>) = 0
  BY EmptyVector, Zenon
<1>2. <<>> \in Seq(DOMAIN units)
  BY EmptyVector, Zenon
<1>3. 0 <= MaxUnits
  BY MaxUnitsAssumption
<1>4. state \in State
  BY DEF Init, InitialState, State
<1>5. units \in Seq(Unit) /\ Len(units) <= MaxUnits /\ controller_rx \in Seq(Notice)
  BY <1>1, <1>3, Zenon DEF Init
<1> QED BY <1>2, <1>4, <1>5 DEF Init, TypeOK

\* An interval from 1 determines its end.
LEMMA SameLength ==
  ASSUME NEW m \in Nat, NEW n \in Nat, 1..m = 1..n
  PROVE  m = n
<1>1. ~(m < n)
  <2>1. m < n => n \in 1..n /\ n \notin 1..m
    OBVIOUS
  <2> QED BY <2>1
<1>2. ~(n < m)
  <2>1. n < m => m \in 1..m /\ m \notin 1..n
    OBVIOUS
  <2> QED BY <2>1
<1> QED BY <1>1, <1>2

\* find_available_addresses, n addresses.
LEMMA AddressListType ==
  ASSUME NEW as \in AddressLists(InstancesCount)
  PROVE  /\ as \in Seq(Addrs) /\ Len(as) = InstancesCount /\ Len(as) \in Nat
         /\ \A i \in 1..InstancesCount : as[i] \in Addrs
<1>1. as \in [1..InstancesCount -> Addrs] /\ InstancesCount \in Nat
  BY InstancesCountAssumption DEF AddressLists, Injection
<1>2. as \in Seq(Addrs)
  BY <1>1, SeqDef
<1>3. 1..Len(as) = 1..InstancesCount /\ Len(as) \in Nat
  <2>1. DOMAIN as = 1..InstancesCount
    BY <1>1
  <2>2. DOMAIN as = 1..Len(as) /\ Len(as) \in Nat
    BY <1>2, LenProperties
  <2> QED BY <2>1, <2>2
<1>4. Len(as) = InstancesCount
  BY <1>1, <1>3, SameLength
<1> QED BY <1>1, <1>2, <1>3, <1>4

\* The first n units of a new bunch.
LEMMA FirstUnits ==
  ASSUME NEW as \in AddressLists(InstancesCount), NEW n \in Nat, n <= Len(as),
         NEW us, us = [i \in 1..n |-> NewUnit(as[i], "Stable")]
  PROVE  /\ Len(as) = InstancesCount
         /\ us \in Seq(Unit) /\ Len(us) = n /\ DOMAIN us = 1..n
         /\ \A i \in 1..n : us[i].task = "waiting" /\ ~us[i].term
<1>2. /\ Len(as) = InstancesCount /\ Len(as) \in Nat
      /\ \A i \in 1..InstancesCount : as[i] \in Addrs
  BY AddressListType
<1>3. \A i \in 1..n : NewUnit(as[i], "Stable") \in Unit
  <2> TAKE i \in 1..n
  <2>1. n <= InstancesCount /\ InstancesCount \in Nat
    BY <1>2, Zenon
  <2>2. i \in 1..InstancesCount
    BY <2>1
  <2>3. as[i] \in Addrs
    BY <1>2, <2>2, Zenon
  <2> QED BY <2>3 DEF NewUnit, Unit, UnitVersion, Process, UnitTask
<1>4. \A i \in 1..n : /\ NewUnit(as[i], "Stable").task = "waiting"
                      /\ NewUnit(as[i], "Stable").term = FALSE
  BY DEF NewUnit
<1>5. us \in [1..n -> Unit] /\ DOMAIN us = 1..n
  BY <1>3
<1>6. us \in Seq(Unit)
  BY <1>5, SeqDef
<1>7. Len(us) = n
  BY <1>5, <1>6, SameLength, LenProperties
<1> QED BY <1>2, <1>4, <1>5, <1>6, <1>7

\* Service::run of the bunch.
LEMMA RunType ==
  ASSUME TypeOK, Untouched, Run
  PROVE  TypeOK'
<1>1. PICK as \in AddressLists(InstancesCount) :
         /\ Len(as) <= MaxUnits
         /\ units' = [i \in 1..Len(as) |-> NewUnit(as[i], "Stable")]
         /\ stable_connections' = [i \in 1..Len(as) |-> i]
         /\ outbox' = outbox \cup {Tell("UnitsSpawned", {}, 1..Len(as))}
  BY DEF Run
<1>2. Len(as) = InstancesCount /\ Len(as) \in Nat
  BY AddressListType
<1>3. units' \in Seq(Unit) /\ Len(units') = Len(as) /\ DOMAIN units' = 1..Len(as)
  <2>1. PICK n \in Nat : n = Len(as) /\ n <= Len(as)
    BY <1>2
  <2>2. units' = [i \in 1..n |-> NewUnit(as[i], "Stable")]
    BY <1>1, <2>1
  <2>3. units' \in Seq(Unit) /\ Len(units') = n /\ DOMAIN units' = 1..n
    BY <2>1, <2>2, FirstUnits, Zenon
  <2> QED BY <2>1, <2>3
<1>4. stable_connections' \in Seq(DOMAIN units')
  BY <1>1, <1>2, <1>3
<1>5. Tell("UnitsSpawned", {}, 1..Len(as)) \in Message
  <2>1. {} \in SUBSET Units /\ 1..Len(as) \in SUBSET Units
    BY <1>1, <1>2, MaxUnitsAssumption DEF Units
  <2> QED BY <2>1, TellType
<1>6. state' \in State
  BY UpdateProperties DEF Run, TypeOK, Event
<1>7. to_stop' = {} /\ new_connections' = <<>> /\ new_connections' \in Seq(DOMAIN units')
  BY EmptyVector DEF Run, Untouched
<1>8. /\ pc' = "select" /\ run_ok' = TRUE /\ failure_count' \in Nat
      /\ minute_over' \in BOOLEAN /\ result' = result
      /\ controller_rx' = controller_rx /\ senders' = senders
  BY DEF Run, TypeOK, countVars, envVars
<1>9. Len(units') <= MaxUnits
  BY <1>1, <1>3
<1> QED
  BY <1>1, <1>3, <1>4, <1>5, <1>6, <1>7, <1>8, <1>9 DEF TypeOK

LEMMA RunSpawnFailsType ==
  ASSUME TypeOK, Untouched, RunSpawnFails
  PROVE  TypeOK'
<1>1. PICK as \in AddressLists(InstancesCount), k \in 0..MaxUnits :
         /\ k < Len(as)
         /\ units' = [i \in 1..k |-> NewUnit(as[i], "Stable")]
         /\ to_stop' = 1..k
         /\ outbox' = {Tell("UnitsDespawned", 1..k, {})}
  BY DEF RunSpawnFails
<1>2. Len(as) = InstancesCount /\ Len(as) \in Nat
  BY AddressListType
<1>3. units' \in Seq(Unit) /\ Len(units') = k /\ DOMAIN units' = 1..k
  <2>1. k \in Nat /\ k <= Len(as)
    BY <1>1, <1>2, MaxUnitsAssumption
  <2> QED BY <1>1, <2>1, FirstUnits, Zenon
<1>4. Tell("UnitsDespawned", 1..k, {}) \in Message
  <2>1. {} \in SUBSET Units /\ 1..k \in SUBSET Units
    BY <1>1, MaxUnitsAssumption DEF Units
  <2> QED BY <2>1, TellType
<1>5. state' \in State
  BY UpdateProperties DEF RunSpawnFails, TypeOK, Event
<1>6. /\ stable_connections' \in Seq(DOMAIN units')
      /\ new_connections' \in Seq(DOMAIN units')
  BY EmptyVector DEF RunSpawnFails, Untouched
<1>7. /\ pc' = "select" /\ run_ok' = run_ok /\ failure_count' \in Nat
      /\ minute_over' \in BOOLEAN /\ result' = result
      /\ controller_rx' = controller_rx /\ senders' = senders
  BY DEF RunSpawnFails, TypeOK, countVars, envVars
<1>8. Len(units') <= MaxUnits
  BY <1>1, <1>3, MaxUnitsAssumption
<1> QED
  BY <1>1, <1>3, <1>4, <1>5, <1>6, <1>7, <1>8 DEF TypeOK

\* The units are the same, or the same but for fields that are not named here.
LEMMA SameUnits ==
  ASSUME TypeOK, units' \in Seq(Unit), Len(units') = Len(units)
  PROVE  /\ Len(units) <= Len(units') /\ Len(units') <= MaxUnits
         /\ DOMAIN units' = DOMAIN units
BY DEF TypeOK

\* wait_on, the join_next branch.
LEMMA JoinType ==
  ASSUME TypeOK, JoinNext
  PROVE  TypeOK'
<1>1. CASE JoinOk
  <2>1. PICK u \in DOMAIN units : units' = Join(units, u)
    BY <1>1 DEF JoinOk
  <2>2. units' \in Seq(Unit) /\ Len(units') = Len(units)
    BY <2>1, JoinProperties DEF TypeOK
  <2>3. DOMAIN units' = DOMAIN units /\ Len(units') <= MaxUnits
    BY <2>2, SameUnits
  <2> QED BY <1>1, <2>2, <2>3 DEF TypeOK, JoinOk, bunchVars, countVars, envVars
<1>2. CASE JoinErr
  <2>1. PICK u \in DOMAIN units :
           /\ Failed(u) /\ RegisterFailure(u)
           /\ JoinErrLimit(u) \/ JoinErrRestart(u) \/ JoinErrPanics(u)
    BY <1>2 DEF JoinErr
  <2>2. /\ pc = "select" /\ run_ok' = run_ok
        /\ controller_rx' = controller_rx /\ senders' = senders
    BY <1>2 DEF JoinErr, envVars
  <2>3. failure_count' \in Nat /\ minute_over' \in BOOLEAN
    BY <2>1, RegisterFailureType
  <2>4. Join(units, u) \in Seq(Unit) /\ Len(Join(units, u)) = Len(units)
    BY JoinProperties DEF TypeOK
  <2>5. CASE JoinErrLimit(u)
    <3>1. units' = Join(units, u) /\ pc' = pc
          /\ new_connections' = new_connections /\ result' = result
      BY <2>5 DEF JoinErrLimit
    <3>2. DOMAIN units' = DOMAIN units /\ Len(units') <= MaxUnits
      BY <2>4, <3>1, SameUnits
    <3>3. /\ state' \in State
          /\ stable_connections' \in Seq(DOMAIN units)
          /\ to_stop' \subseteq DOMAIN units /\ outbox' \subseteq Message
      <4>1. CASE is_stable_pid(u)
        BY <2>5, <4>1, TerminateType, EmptyVector DEF JoinErrLimit
      <4>2. CASE ~is_stable_pid(u)
        BY <2>5, <4>2, UpdateProperties DEF JoinErrLimit, TypeOK, Event
      <4> QED BY <4>1, <4>2
    <3> QED BY <2>2, <2>3, <2>4, <3>1, <3>2, <3>3 DEF TypeOK
  <2>6. CASE JoinErrRestart(u)
    <3>1. PICK a \in Addrs : units' = Append(Join(units, u), NewUnit(a, "Stable"))
      BY <2>6 DEF JoinErrRestart
    <3>2. /\ units' \in Seq(Unit) /\ Len(units') = Len(units) + 1
          /\ DOMAIN units' = 1..(Len(units) + 1)
      BY <2>4, <3>1, SpawnProperties DEF UnitVersion
    <3>3. /\ CanSpawn /\ stable_connections' = Replaced(u)
          /\ outbox' \subseteq outbox \cup {Replacement(u)}
          /\ pc' = pc /\ state' = state /\ new_connections' = new_connections
          /\ result' = result /\ to_stop' = to_stop
      BY <2>6 DEF JoinErrRestart
    <3>4. /\ Replaced(u) \in Seq(1..(Len(units) + 1)) /\ Replacement(u) \in Message
          /\ Len(units) + 1 <= MaxUnits
      BY <3>3, ReplacedType
    <3>5. Len(units) <= Len(units')
      BY <3>2 DEF TypeOK
    <3>6. new_connections \in Seq(DOMAIN units') /\ to_stop \subseteq DOMAIN units'
      BY <3>2, <3>4, <3>5, MoreUnits
    <3> QED BY <2>2, <2>3, <3>2, <3>3, <3>4, <3>6 DEF TypeOK
  <2>7. CASE JoinErrPanics(u)
    <3>1. units' = Join(units, u) /\ (SpawnPanics \/ LookupPanics)
      BY <2>7 DEF JoinErrPanics
    <3>2. DOMAIN units' = DOMAIN units /\ Len(units') <= MaxUnits
      BY <2>4, <3>1, SameUnits
    <3> QED BY <2>2, <2>3, <2>4, <3>1, <3>2, PanicType, EmptyVector DEF TypeOK
  <2> QED BY <2>1, <2>5, <2>6, <2>7
<1>3. CASE JoinNone
  BY <1>3, EmptyVector DEF TypeOK, JoinNone, Leave, countVars, envVars
<1> QED BY <1>1, <1>2, <1>3 DEF JoinNext

\* The first message of the queue, and what is left of it.
LEMMA QueueProperties ==
  ASSUME NEW q \in Seq(Notice), q # <<>>
  PROVE  Head(q) \in Notice /\ Tail(q) \in Seq(Notice)
OBVIOUS

\* wait_on, the controller_rx branch.
LEMMA ReceiveType ==
  ASSUME TypeOK, Receive
  PROVE  TypeOK'
<1>0. \A type : Received(type) => /\ pc = "select" /\ senders' = senders
                                  /\ controller_rx' \in Seq(Notice)
  BY QueueProperties DEF Received, TypeOK
<1>1. CASE RecvStartUpdate
  <2>1. state' \in State
    BY <1>1, UpdateProperties DEF RecvStartUpdate, TypeOK, Event
  <2> QED BY <1>0, <1>1, <2>1 DEF TypeOK, RecvStartUpdate, countVars
<1>2. CASE RecvShutdown
  BY <1>0, <1>2, TerminateType, EmptyVector
     DEF TypeOK, RecvShutdown, Leave, countVars
<1>3. CASE RecvNone
  BY <1>3, TerminateType, EmptyVector
     DEF TypeOK, RecvNone, Leave, countVars, envVars
<1>4. CASE RecvHealthCheckFailed
  <2> DEFINE a == Head(controller_rx).addr
  <2>1. /\ pc = "select" /\ senders' = senders /\ run_ok' = run_ok
        /\ controller_rx' \in Seq(Notice)
    BY <1>0, <1>4 DEF RecvHealthCheckFailed
  <2>2. CASE At(new_connections, a) # {}
    <3>1. state' \in State
      BY <1>4, <2>2, UpdateProperties DEF RecvHealthCheckFailed, TypeOK, Event
    <3> QED BY <1>4, <2>1, <2>2, <3>1
            DEF TypeOK, RecvHealthCheckFailed, countVars
  <2>3. CASE At(new_connections, a) = {} /\ At(stable_connections, a) = {}
    BY <1>4, <2>1, <2>3 DEF TypeOK, RecvHealthCheckFailed, bunchVars, countVars
  <2>4. CASE At(new_connections, a) = {} /\ At(stable_connections, a) # {}
    <3>1. PICK i \in At(stable_connections, a) :
             /\ RegisterFailure(stable_connections[i])
             /\ \/ CheckLimit(stable_connections[i])
                \/ CheckReplace(stable_connections[i])
                \/ CheckPanics(stable_connections[i])
      BY <1>4, <2>4 DEF RecvHealthCheckFailed
    <3> DEFINE u == stable_connections[i]
    <3>2. u \in DOMAIN units
      BY <3>1 DEF At, TypeOK
    <3> HIDE DEF u
    <3>3. failure_count' \in Nat /\ minute_over' \in BOOLEAN
      BY <3>1, RegisterFailureType DEF u
    <3>4. CASE CheckLimit(u)
      BY <2>1, <3>3, <3>4, TerminateType, EmptyVector DEF TypeOK, CheckLimit
    <3>5. CASE CheckReplace(u)
      <4>1. PICK b \in Addrs : units' = Append(units, NewUnit(b, "Stable"))
        BY <3>5 DEF CheckReplace
      <4>2. /\ units' \in Seq(Unit) /\ Len(units') = Len(units) + 1
            /\ DOMAIN units' = 1..(Len(units) + 1)
        BY <4>1, SpawnProperties DEF TypeOK, UnitVersion
      <4>3. /\ CanSpawn /\ stable_connections' = Replaced(u)
            /\ outbox' = outbox \cup {Replacement(u)}
            /\ pc' = pc /\ state' = state /\ new_connections' = new_connections
            /\ result' = result /\ to_stop' = to_stop \cup {u}
        BY <3>5 DEF CheckReplace, Retire
      <4>4. /\ Replaced(u) \in Seq(1..(Len(units) + 1))
            /\ Replacement(u) \in Message /\ Len(units) + 1 <= MaxUnits
        BY <3>2, <4>3, ReplacedType
      <4>5. Len(units) <= Len(units')
        BY <4>2 DEF TypeOK
      <4>6. /\ new_connections \in Seq(DOMAIN units')
            /\ to_stop \subseteq DOMAIN units' /\ u \in DOMAIN units'
        BY <3>2, <4>2, <4>4, <4>5, MoreUnits
      <4> QED BY <2>1, <3>3, <4>2, <4>3, <4>4, <4>6 DEF TypeOK
    <3>6. CASE CheckPanics(u)
      BY <2>1, <3>3, <3>6, PanicType, EmptyVector DEF TypeOK, CheckPanics
    <3> QED BY <3>1, <3>4, <3>5, <3>6 DEF u
  <2> QED BY <2>2, <2>3, <2>4
<1> QED BY <1>1, <1>2, <1>3, <1>4 DEF Receive

\* A step that only changes units, and not their number.
LEMMA UnitsOnlyType ==
  ASSUME TypeOK, units' \in Seq(Unit), Len(units') = Len(units),
         UNCHANGED <<bunchVars, countVars, run_ok, result, senders>>,
         outbox' = outbox, to_stop' \subseteq to_stop,
         controller_rx' \in Seq(Notice)
  PROVE  TypeOK'
<1>1. DOMAIN units' = DOMAIN units /\ Len(units') <= MaxUnits
  BY SameUnits
<1> QED BY <1>1 DEF TypeOK, bunchVars, countVars

\* start_update.
LEMMA StartUpdateType ==
  ASSUME TypeOK, RollingOnlyInUpdating, StartUpdate
  PROVE  TypeOK'
<1>1. CASE UpdateSpawn
  <2>1. PICK a \in Addrs : units' = Append(units, NewUnit(a, "New"))
    BY <1>1 DEF UpdateSpawn
  <2>2. /\ units' \in Seq(Unit) /\ Len(units') = Len(units) + 1
        /\ DOMAIN units' = 1..(Len(units) + 1)
    BY <2>1, SpawnProperties DEF TypeOK, UnitVersion
  <2>3. Len(units) <= Len(units') /\ Len(units') <= MaxUnits
    BY <1>1, <2>2, MaxUnitsAssumption DEF TypeOK, UpdateSpawn, CanSpawn
  <2>4. NextUnit \in DOMAIN units' /\ NextUnit \in Units
    BY <2>2, <2>3, MaxUnitsAssumption DEF NextUnit, Units, TypeOK
  <2>5. /\ stable_connections \in Seq(DOMAIN units')
        /\ new_connections \in Seq(DOMAIN units')
        /\ to_stop \subseteq DOMAIN units'
    BY <2>2, <2>3, MoreUnits
  <2>6. new_connections' \in Seq(DOMAIN units')
    BY <1>1, <2>4, <2>5, PushProperties DEF UpdateSpawn
  <2>7. Tell("UnitSpawned", {}, {NextUnit}) \in Message
    <3>1. {} \in SUBSET Units /\ {NextUnit} \in SUBSET Units
      BY <2>4
    <3> QED BY <3>1, TellType
  <2> QED BY <1>1, <2>2, <2>3, <2>5, <2>6, <2>7
          DEF TypeOK, UpdateSpawn, countVars, envVars
<1>2. CASE UpdateSpawnFails
  <2>1. state' \in State
    BY <1>2, UpdateProperties DEF UpdateSpawnFails, FailUpdate, TypeOK, Event
  <2> QED BY <1>2, <2>1
          DEF TypeOK, UpdateSpawnFails, FailUpdate, countVars, envVars
<1>3. CASE UpdateNoAddress
  BY <1>3 DEF TypeOK, UpdateNoAddress, countVars, envVars
<1>4. CASE RollStep
  <2> DEFINE u == Last(stable_connections)
  <2>1. /\ pc = "rolling" /\ state = "Updating" /\ stable_connections # <<>>
        /\ new_connections # <<>>
    BY <1>4 DEF RollStep, RollingOnlyInUpdating
  <2>2. UNCHANGED <<failure_count, minute_over, run_ok, controller_rx, senders,
                    to_stop>>
    BY <1>4 DEF RollStep, countVars, envVars
  <2>3. CASE units[u].task # "waiting"
    BY <1>4, <2>2, <2>3, EmptyVector DEF RollStep, Leave, TypeOK
  <2>4. CASE units[u].task = "waiting"
    <3>1. /\ stable_connections' = Front(stable_connections)
          /\ outbox' = outbox \cup {Tell("UnitDespawned", {Last(new_connections)}, {})}
          /\ units' = Request(units, {u}) /\ pc' = "loop"
          /\ new_connections' = new_connections /\ state' = state
          /\ result' = result
      BY <1>4, <2>1, <2>4 DEF RollStep
    <3>2. units' \in Seq(Unit) /\ Len(units') = Len(units)
      BY <3>1, RequestProperties DEF TypeOK
    <3>3. DOMAIN units' = DOMAIN units /\ Len(units') <= MaxUnits
      BY <3>2, SameUnits
    <3>4. Front(stable_connections) \in Seq(DOMAIN units)
      BY <2>1, PopProperties DEF TypeOK
    <3>5. Tell("UnitDespawned", {Last(new_connections)}, {}) \in Message
      <4>1. Last(new_connections) \in ToSet(new_connections)
        BY <2>1, PopProperties DEF TypeOK
      <4>2. ToSet(new_connections) \subseteq DOMAIN units
        BY VectorType DEF TypeOK
      <4>3. DOMAIN units \subseteq Units
        BY MoreUnits DEF TypeOK
      <4>4. {} \in SUBSET Units /\ {Last(new_connections)} \in SUBSET Units
        BY <4>1, <4>2, <4>3
      <4> QED BY <4>4, TellType
    <3> QED BY <2>2, <3>1, <3>2, <3>3, <3>4, <3>5 DEF TypeOK
  <2> QED BY <2>3, <2>4
<1>5. CASE LoopExit
  <2>1. state' \in State
    BY <1>5, UpdateProperties DEF LoopExit, TypeOK, Event
  <2> QED BY <1>5, <2>1 DEF TypeOK, LoopExit, Swap, countVars, envVars
<1>6. CASE Announce
  <2>1. state' \in State
    BY <1>6, UpdateProperties DEF Announce, TypeOK, Event
  <2>2. Tell("UpdateFinished", {}, {}) \in Message
    BY TellType
  <2> QED BY <1>6, <2>1, <2>2 DEF TypeOK, Announce, countVars, envVars
<1> QED BY <1>1, <1>2, <1>3, <1>4, <1>5, <1>6 DEF StartUpdate

\* AbortAll, the detached tasks, the unit tasks, the processes.
LEMMA UnitStepType ==
  ASSUME TypeOK, AbortAll \/ RequestSent \/ UnitStep
  PROVE  TypeOK'
<1>0. /\ units \in Seq(Unit) /\ DOMAIN units = 1..Len(units)
      /\ \A u \in DOMAIN units : units[u] \in Unit
  BY DEF TypeOK
<1>1. CASE AbortAll
  <2> DEFINE e(u) == IF units[u].task = "waiting"
                     THEN [units[u] EXCEPT !.task = "aborted"] ELSE units[u]
  <2>1. \A u \in 1..Len(units) : e(u) \in Unit
    BY <1>0 DEF Unit, UnitTask
  <2>2. units' = [u \in 1..Len(units) |-> e(u)]
    BY <1>0, <1>1 DEF AbortAll
  <2> HIDE DEF e
  <2>3. units' \in Seq(Unit) /\ Len(units') = Len(units)
    BY <1>0, <2>1, <2>2
  <2>4. DOMAIN units' = DOMAIN units /\ Len(units') <= MaxUnits
    BY <2>3, SameUnits
  <2> QED BY <1>1, <2>3, <2>4 DEF TypeOK, AbortAll, countVars, envVars
<1>2. CASE RequestSent
  <2>1. PICK u \in to_stop :
           /\ units' = Request(units, {u}) /\ to_stop' = to_stop \ {u}
           /\ UNCHANGED <<bunchVars, countVars, run_ok, result, envVars, outbox>>
    BY <1>2 DEF RequestSent
  <2>2. units' \in Seq(Unit) /\ Len(units') = Len(units)
    BY <1>0, <2>1, RequestProperties
  <2> QED BY <2>1, <2>2, UnitsOnlyType DEF TypeOK, envVars
<1>3. CASE UnitStep
  <2>1. PICK u \in DOMAIN units : SeeExit(u) \/ SeeTerm(u) \/ Exit(u)
    BY <1>3 DEF UnitStep, UnitTaskStep
  <2>2. UNCHANGED <<bunchVars, countVars, run_ok, result, envVars, outbox, to_stop>>
    BY <2>1 DEF SeeExit, SeeTerm, Exit
  <2>3. PICK v : v \in Unit /\ units' = [units EXCEPT ![u] = v]
    <3>1. CASE SeeExit(u)
      <4>1. PICK r \in {"ok", "err"} :
               units' = [units EXCEPT ![u].task = r, ![u].term = FALSE]
        BY <3>1 DEF SeeExit
      <4>2. [units[u] EXCEPT !.task = r, !.term = FALSE] \in Unit
        BY <1>0 DEF Unit, UnitTask
      <4> QED BY <1>0, <4>1, <4>2
    <3>2. CASE SeeTerm(u)
      <4>1. [units[u] EXCEPT !.task = "ok", !.term = FALSE, !.proc = "stopped"]
               \in Unit
        BY <1>0 DEF Unit, UnitTask, Process
      <4> QED BY <1>0, <3>2, <4>1 DEF SeeTerm, terminate_unit
    <3>3. CASE Exit(u)
      <4>1. [units[u] EXCEPT !.proc = "stopped"] \in Unit
        BY <1>0 DEF Unit, Process
      <4> QED BY <1>0, <3>3, <4>1 DEF Exit
    <3> QED BY <2>1, <3>1, <3>2, <3>3
  <2>4. units' \in Seq(Unit) /\ Len(units') = Len(units)
    BY <1>0, <2>3, ExceptSeq
  <2> QED BY <2>2, <2>4, UnitsOnlyType DEF TypeOK, envVars
<1> QED BY <1>1, <1>2, <1>3

\* The controller, the health checks, the clock.
LEMMA EnvironmentType ==
  ASSUME TypeOK, ArrivedWereSpawned, Environment
  PROVE  TypeOK'
<1>1. ASSUME NEW n \in Notice, Send(n) PROVE controller_rx' \in Seq(Notice)
  BY <1>1 DEF Send, TypeOK
<1>2. CASE SendStartUpdate
  <2>1. controller_rx' \in Seq(Notice)
    BY <1>1, <1>2 DEF SendStartUpdate, Notice
  <2> QED BY <1>2, <2>1 DEF TypeOK, SendStartUpdate, Send, bunchVars, countVars
<1>3. CASE SendShutdown
  <2>1. controller_rx' \in Seq(Notice)
    BY <1>1, <1>3 DEF SendShutdown, Notice
  <2> QED BY <1>3, <2>1 DEF TypeOK, SendShutdown, Send, bunchVars, countVars
<1>4. CASE SendHealthCheckFailed
  <2>1. PICK u \in UNION {m.new : m \in outbox} :
           /\ Send([type |-> "HealthCheckFailed", addr |-> units[u].addr])
           /\ units' = [units EXCEPT ![u].unhealthy = TRUE]
    BY <1>4 DEF SendHealthCheckFailed
  <2>2. u \in DOMAIN units /\ DOMAIN units = 1..Len(units) /\ units[u] \in Unit
    BY DEF ArrivedWereSpawned, TypeOK
  <2>3. /\ [units[u] EXCEPT !.unhealthy = TRUE] \in Unit
        /\ [type |-> "HealthCheckFailed", addr |-> units[u].addr] \in Notice
    BY <2>2 DEF Unit, Notice
  <2>4. units' = [units EXCEPT ![u] = [units[u] EXCEPT !.unhealthy = TRUE]]
    BY <2>1
  <2>5. units' \in Seq(Unit) /\ Len(units') = Len(units)
    BY <2>2, <2>3, <2>4, ExceptSeq DEF TypeOK
  <2>6. controller_rx' \in Seq(Notice)
    BY <1>1, <2>1, <2>3
  <2>7. /\ UNCHANGED <<bunchVars, countVars, run_ok, result, senders, outbox>>
        /\ to_stop' = to_stop
    BY <1>4, <2>1 DEF SendHealthCheckFailed, Send
  <2> QED BY <2>5, <2>6, <2>7, UnitsOnlyType
<1>5. CASE CloseChannel
  BY <1>5 DEF TypeOK, CloseChannel, bunchVars, countVars
<1>6. CASE MinutePasses
  BY <1>6 DEF TypeOK, MinutePasses, bunchVars, envVars
<1> QED BY <1>1, <1>2, <1>3, <1>4, <1>5, <1>6 DEF Environment

-----------------------------------------------------------------------------
(* The inductive invariant.  TypeOK alone is not inductive: a health check   *)
(* needs to know that the unit was spawned, run that nothing happened yet,   *)
(* and the step after the sleep of an update that there is a unit to pop.    *)

BunchInv == /\ TypeOK
            /\ Untouched
            /\ ArrivedWereSpawned
            /\ RollingOnlyInUpdating
            /\ Established

LEMMA BunchInvInit == Init => BunchInv
<1> SUFFICES ASSUME Init PROVE BunchInv
  OBVIOUS
<1>1. TypeOK
  BY InitType
<1>2. Untouched /\ ArrivedWereSpawned /\ RollingOnlyInUpdating /\ Established
  BY DEF Init, Untouched, ArrivedWereSpawned, RollingOnlyInUpdating, Established
<1> QED BY <1>1, <1>2 DEF BunchInv

LEMMA TypeStep ==
  ASSUME BunchInv, Next
  PROVE  TypeOK'
<1> USE DEF BunchInv
<1>1. CASE Bunch
  <2>1. CASE Run \/ RunSpawnFails
    BY <2>1, RunType, RunSpawnFailsType
  <2>2. CASE RunNoAddress
    BY <2>2 DEF TypeOK, RunNoAddress, countVars, envVars
  <2>3. CASE JoinNext \/ Receive
    BY <2>3, JoinType, ReceiveType
  <2>4. CASE StartUpdate \/ AbortAll
    BY <2>4, StartUpdateType, UnitStepType
  <2> QED BY <1>1, <2>1, <2>2, <2>3, <2>4 DEF Bunch
<1>2. CASE RequestSent \/ UnitStep
  BY <1>2, UnitStepType
<1>3. CASE Environment
  BY <1>3, EnvironmentType
<1>4. CASE Finished
  BY <1>4 DEF TypeOK, Finished, vars
<1> QED BY <1>1, <1>2, <1>3, <1>4 DEF Next

\* Where a step can leave the task of the bunch.
LEMMA PcStep ==
  ASSUME BunchInv, Next
  PROVE  /\ pc' = "new" => pc = "new"
         /\ pc = "new" /\ pc' = "new" =>
              UNCHANGED <<bunchVars, failure_count, run_ok, result, outbox,
                          to_stop, units>>
<1>1. CASE Bunch
  <2>1. pc' # "new"
    BY <1>1 DEF Bunch, Run, RunSpawnFails, RunNoAddress, JoinNext, JoinOk,
       JoinErr, JoinErrLimit, JoinErrRestart, JoinErrPanics, SpawnPanics,
       LookupPanics, Leave, JoinNone, Receive, Received, RecvStartUpdate,
       RecvShutdown, RecvNone, RecvHealthCheckFailed, CheckLimit, CheckReplace,
       CheckPanics, StartUpdate, UpdateSpawn, UpdateSpawnFails,
       UpdateNoAddress, RollStep, LoopExit, Announce, AbortAll, bunchVars
  <2> QED BY <2>1
<1>2. CASE RequestSent \/ UnitStep
  <2>1. pc' = pc
    BY <1>2 DEF RequestSent, UnitStep, UnitTaskStep, SeeExit, SeeTerm, Exit,
       bunchVars
  <2>2. pc # "new"
    <3>1. pc = "new" => to_stop = {} /\ units = <<>>
      BY DEF BunchInv, Untouched
    <3>2. DOMAIN <<>> = {}
      OBVIOUS
    <3>3. RequestSent => to_stop # {}
      BY DEF RequestSent
    <3>4. UnitStep => DOMAIN units # {}
      BY DEF UnitStep
    <3> QED BY <1>2, <3>1, <3>2, <3>3, <3>4
  <2> QED BY <2>1, <2>2
<1>3. CASE Environment
  BY <1>3 DEF Environment, SendStartUpdate, SendShutdown,
     SendHealthCheckFailed, CloseChannel, MinutePasses, Send, bunchVars
<1>4. CASE Finished
  BY <1>4 DEF Finished, vars, bunchVars
<1> QED BY <1>1, <1>2, <1>3, <1>4 DEF Next

LEMMA UntouchedStep ==
  ASSUME BunchInv, Next
  PROVE  Untouched'
BY PcStep DEF BunchInv, Untouched, bunchVars

\* Units are only added.
LEMMA UnitsGrow ==
  ASSUME BunchInv, Next
  PROVE  DOMAIN units \subseteq DOMAIN units'
<1>0. TypeOK /\ TypeOK' /\ units \in Seq(Unit) /\ DOMAIN units = 1..Len(units)
  BY TypeStep DEF BunchInv, TypeOK
<1>1. CASE pc = "new"
  <2>1. units = <<>>
    BY <1>1 DEF BunchInv, Untouched
  <2> QED BY <2>1
<1>2. CASE pc # "new"
  <2>1. CASE JoinNext
    <3>1. \/ units' = units
          \/ \E u \in DOMAIN units : \/ units' = Join(units, u)
                                     \/ \E v : units' = Append(Join(units, u), v)
      BY <2>1 DEF JoinNext, JoinOk, JoinErr, JoinErrLimit, JoinErrRestart,
         JoinErrPanics, JoinNone
    <3>2. \A u \in DOMAIN units : /\ Join(units, u) \in Seq(Unit)
                                  /\ Len(Join(units, u)) = Len(units)
      BY <1>0, JoinProperties
    <3> QED BY <1>0, <3>1, <3>2
  <2>2. CASE Receive
    <3>1. units' = units \/ \E v : units' = Append(units, v)
      BY <2>2 DEF Receive, RecvStartUpdate, RecvShutdown, RecvNone,
         RecvHealthCheckFailed, CheckLimit, CheckReplace, CheckPanics
    <3> QED BY <1>0, <3>1
  <2>3. CASE StartUpdate \/ RequestSent
    <3>1. \/ units' = units \/ \E v : units' = Append(units, v)
          \/ \E r : units' = Request(units, r)
      BY <2>3 DEF StartUpdate, UpdateSpawn, UpdateSpawnFails, UpdateNoAddress,
         RollStep, LoopExit, Announce, RequestSent
    <3> QED BY <1>0, <3>1 DEF Request
  <2>4. CASE AbortAll \/ UnitStep
    BY <1>0, <2>4 DEF AbortAll, UnitStep, UnitTaskStep, SeeExit, SeeTerm, Exit,
       terminate_unit
  <2>5. CASE Environment
    BY <1>0, <2>5 DEF Environment, SendStartUpdate, SendShutdown,
       SendHealthCheckFailed, CloseChannel, MinutePasses, Send
  <2>6. CASE Finished
    BY <2>6 DEF Finished, vars
  <2> QED BY <1>2, <2>1, <2>2, <2>3, <2>4, <2>5, <2>6
          DEF Next, Bunch, Run, RunSpawnFails, RunNoAddress
<1> QED BY <1>1, <1>2

\* Every step leaves the state alone or applies an event to it.
LEMMA StateStep ==
  ASSUME Next
  PROVE  state' = state \/ \E event \in Event : state' = Update(state, event)
<1>0. /\ terminate => state' = Update(state, "StopRequest")
      /\ SpawnPanics => \/ state' = state
                        \/ state' = Update(state, "StopRequest")
                        \/ state' = Update(state, "UpdatingFailed")
      /\ LookupPanics => state' = state
  BY DEF terminate, SpawnPanics, LookupPanics
<1>1. CASE Run \/ RunSpawnFails \/ RunNoAddress \/ AbortAll
  BY <1>1 DEF Run, RunSpawnFails, RunNoAddress, AbortAll, Event
<1>2. CASE JoinNext
  BY <1>0, <1>2 DEF JoinNext, JoinOk, JoinErr, JoinErrLimit, JoinErrRestart,
     JoinErrPanics, JoinNone, bunchVars, Event
<1>3. CASE Receive
  BY <1>0, <1>3 DEF Receive, RecvStartUpdate, RecvShutdown, RecvNone,
     RecvHealthCheckFailed, CheckLimit, CheckReplace, CheckPanics, bunchVars,
     Event
<1>4. CASE StartUpdate
  BY <1>4 DEF StartUpdate, UpdateSpawn, UpdateSpawnFails, FailUpdate,
     UpdateNoAddress, RollStep, LoopExit, Announce, Event
<1>5. CASE RequestSent \/ UnitStep \/ Environment \/ Finished
  BY <1>5 DEF RequestSent, UnitStep, UnitTaskStep, SeeExit, SeeTerm, Exit,
     Environment, SendStartUpdate, SendShutdown, SendHealthCheckFailed,
     CloseChannel, MinutePasses, Send, Finished, bunchVars, vars
<1> QED BY <1>1, <1>2, <1>3, <1>4, <1>5 DEF Next, Bunch

\* The task of a bunch that has left does not come back.
LEMMA AliveStep ==
  ASSUME Next
  PROVE  Alive' => Alive
<1>1. CASE Bunch
  BY <1>1 DEF Alive, Bunch, Run, RunSpawnFails, RunNoAddress, JoinNext, JoinOk,
     JoinErr, JoinNone, Receive, Received, RecvStartUpdate, RecvShutdown,
     RecvNone, RecvHealthCheckFailed, StartUpdate, UpdateSpawn,
     UpdateSpawnFails, UpdateNoAddress, RollStep, LoopExit, Announce, AbortAll
<1>2. CASE RequestSent \/ UnitStep \/ Environment \/ Finished
  BY <1>2 DEF Alive, RequestSent, UnitStep, UnitTaskStep, SeeExit, SeeTerm,
     Exit, Environment, SendStartUpdate, SendShutdown, SendHealthCheckFailed,
     CloseChannel, MinutePasses, Send, Finished, bunchVars, vars
<1> QED BY <1>1, <1>2 DEF Next

\* Only a run that succeeds sets run_ok.
LEMMA RunOkStep ==
  ASSUME Next, ~Run
  PROVE  run_ok' = run_ok
<1>1. CASE Bunch
  BY <1>1 DEF Bunch, RunSpawnFails, RunNoAddress, JoinNext, JoinOk,
     JoinErr, JoinNone, Receive, RecvStartUpdate, RecvShutdown,
     RecvNone, RecvHealthCheckFailed, StartUpdate, UpdateSpawn,
     UpdateSpawnFails, UpdateNoAddress, RollStep, LoopExit, Announce, AbortAll
<1>2. CASE RequestSent \/ UnitStep \/ Environment \/ Finished
  BY <1>2 DEF RequestSent, UnitStep, UnitTaskStep, SeeExit, SeeTerm,
     Exit, Environment, SendStartUpdate, SendShutdown, SendHealthCheckFailed,
     CloseChannel, MinutePasses, Send, Finished, vars
<1> QED BY <1>1, <1>2 DEF Next

LEMMA EstablishedStep ==
  ASSUME BunchInv, Next
  PROVE  Established'
<1>1. CASE Run
  BY <1>1 DEF BunchInv, Untouched, Run, Established, Update, Transition, Target,
     InitialState
<1>2. CASE ~Run
  <2>1. state # "Starting" => state' # "Starting"
    BY StateStep DEF Update, Transition, Target, Event
  <2> QED BY <1>2, <2>1, RunOkStep DEF BunchInv, Established
<1> QED BY <1>1, <1>2

LEMMA RollingStep ==
  ASSUME BunchInv, Next
  PROVE  RollingOnlyInUpdating'
<1> SUFFICES ASSUME pc' = "rolling"
             PROVE  /\ state' = "Updating" /\ stable_connections' # <<>>
                    /\ new_connections' # <<>>
  BY DEF RollingOnlyInUpdating
<1>1. CASE Bunch
  <2>1. UpdateSpawn
    BY <1>1 DEF Bunch, Run, RunSpawnFails, RunNoAddress, JoinNext, JoinOk,
     JoinErr, JoinErrLimit, JoinErrRestart, JoinErrPanics, SpawnPanics,
     LookupPanics, Leave, JoinNone, Receive, Received, RecvStartUpdate,
     RecvShutdown, RecvNone, RecvHealthCheckFailed, CheckLimit, CheckReplace,
     CheckPanics, StartUpdate, UpdateSpawnFails, UpdateNoAddress, RollStep,
     LoopExit, Announce, AbortAll, bunchVars
  <2>2. new_connections \in Seq(Nat) /\ NextUnit \in Nat
    <3>1. DOMAIN units \subseteq Nat /\ Len(units) \in Nat
      BY DEF BunchInv, TypeOK
    <3> QED BY <3>1, VectorType DEF BunchInv, TypeOK, NextUnit
  <2>3. new_connections' # <<>>
    BY <2>1, <2>2, PushProperties DEF UpdateSpawn
  <2> QED BY <2>1, <2>3 DEF UpdateSpawn, KeepUpdating
<1>2. CASE RequestSent \/ UnitStep \/ Environment \/ Finished
  <2>1. UNCHANGED bunchVars
    BY <1>2 DEF RequestSent, UnitStep, UnitTaskStep, SeeExit, SeeTerm, Exit,
     Environment, SendStartUpdate, SendShutdown, SendHealthCheckFailed,
     CloseChannel, MinutePasses, Send, Finished, vars, bunchVars
  <2> QED BY <2>1 DEF BunchInv, RollingOnlyInUpdating, bunchVars
<1> QED BY <1>1, <1>2 DEF Next

LEMMA ArrivedStep ==
  ASSUME BunchInv, Next
  PROVE  ArrivedWereSpawned'
<1>0. /\ TypeOK /\ units \in Seq(Unit) /\ DOMAIN units = 1..Len(units)
      /\ Len(units) \in Nat
      /\ \A type, old, new : Tell(type, old, new).new = new
  BY DEF BunchInv, TypeOK, Tell
<1>1. SUFFICES ASSUME NEW m \in outbox', m \notin outbox
               PROVE  m.new \subseteq DOMAIN units'
  BY UnitsGrow DEF BunchInv, ArrivedWereSpawned
<1>2. terminate \/ SpawnPanics \/ LookupPanics => m.new = {}
  BY <1>0, <1>1 DEF terminate, SpawnPanics, LookupPanics
<1>3. ASSUME NEW us \in Seq(Unit), Len(us) = Len(units), NEW v,
             units' = Append(us, v)
      PROVE  NextUnit \in DOMAIN units'
  BY <1>0, <1>3 DEF NextUnit
<1>4. CASE Run \/ RunSpawnFails \/ RunNoAddress \/ AbortAll
  BY <1>0, <1>1, <1>4 DEF Run, RunSpawnFails, RunNoAddress, AbortAll
<1>5. CASE JoinNext
  <2>1. CASE JoinErr
    <3>1. PICK u \in DOMAIN units :
             JoinErrLimit(u) \/ JoinErrRestart(u) \/ JoinErrPanics(u)
      BY <2>1 DEF JoinErr
    <3>2. Join(units, u) \in Seq(Unit) /\ Len(Join(units, u)) = Len(units)
      BY <1>0, <3>1, JoinProperties
    <3>3. CASE JoinErrRestart(u)
      <4>1. m = Replacement(u) /\ \E v : units' = Append(Join(units, u), v)
        BY <1>1, <3>3 DEF JoinErrRestart
      <4>2. NextUnit \in DOMAIN units'
        BY <1>3, <3>2, <4>1
      <4> QED BY <1>0, <4>1, <4>2 DEF Replacement
    <3> QED BY <1>1, <1>2, <3>1, <3>3 DEF JoinErrLimit, JoinErrPanics
  <2> QED BY <1>1, <1>5, <2>1 DEF JoinNext, JoinOk, JoinNone
<1>6. CASE Receive
  <2>1. CASE RecvHealthCheckFailed
    <3>1. PICK u : CheckLimit(u) \/ CheckReplace(u) \/ CheckPanics(u)
      BY <1>1, <2>1 DEF RecvHealthCheckFailed
    <3>2. CASE CheckReplace(u)
      <4>1. m = Replacement(u) /\ \E v : units' = Append(units, v)
        BY <1>1, <3>2 DEF CheckReplace
      <4>2. NextUnit \in DOMAIN units'
        BY <1>0, <1>3, <4>1
      <4> QED BY <1>0, <4>1, <4>2 DEF Replacement
    <3> QED BY <1>1, <1>2, <3>1, <3>2 DEF CheckLimit, CheckPanics
  <2> QED BY <1>1, <1>2, <1>6, <2>1
          DEF Receive, RecvStartUpdate, RecvShutdown, RecvNone
<1>7. CASE StartUpdate
  <2>1. CASE UpdateSpawn
    <3>1. m = Tell("UnitSpawned", {}, {NextUnit}) /\ \E v : units' = Append(units, v)
      BY <1>1, <2>1 DEF UpdateSpawn
    <3>2. NextUnit \in DOMAIN units'
      BY <1>0, <1>3, <3>1
    <3> QED BY <1>0, <3>1, <3>2
  <2> QED BY <1>0, <1>1, <1>7, <2>1 DEF StartUpdate, UpdateSpawnFails,
          UpdateNoAddress, RollStep, LoopExit, Announce
<1>8. CASE RequestSent \/ UnitStep \/ Environment \/ Finished
  BY <1>1, <1>8 DEF RequestSent, UnitStep, UnitTaskStep, SeeExit, SeeTerm,
     Exit, Environment, SendStartUpdate, SendShutdown, SendHealthCheckFailed,
     CloseChannel, MinutePasses, Send, Finished, vars
<1> QED BY <1>4, <1>5, <1>6, <1>7, <1>8 DEF Next, Bunch

LEMMA BunchInvStep == BunchInv /\ [Next]_vars => BunchInv'
<1>1. ASSUME BunchInv, Next PROVE BunchInv'
  BY <1>1, TypeStep, UntouchedStep, ArrivedStep, RollingStep, EstablishedStep
     DEF BunchInv
<1>2. ASSUME BunchInv, UNCHANGED vars PROVE BunchInv'
  BY <1>2 DEF vars, BunchInv, TypeOK, Untouched, ArrivedWereSpawned,
     RollingOnlyInUpdating, Established, Alive
<1> QED BY <1>1, <1>2

\* The inductive invariant holds in every behaviour.
LEMMA BunchInvHolds == Spec => []BunchInv
BY BunchInvInit, BunchInvStep, PTL DEF Spec

-----------------------------------------------------------------------------
(* The theorems. *)

\* Every variable keeps its type, and no more than MaxUnits units are spawned;
\* in particular nothing unlisted is ever popped from a vector.
THEOREM TypeCorrect == Spec => []TypeOK
<1>1. BunchInv => TypeOK
  BY DEF BunchInv
<1> QED BY <1>1, BunchInvHolds, PTL

\* The sleep of a rolling update is entered and left in Updating, with a stable
\* instance to pop and a new one beside it: pop().unwrap() of start_update is
\* safe, and the branch "update process is interrupted" is dead code.
THEOREM UpdateIsNeverInterrupted == Spec => []RollingOnlyInUpdating
<1>1. BunchInv => RollingOnlyInUpdating
  BY DEF BunchInv
<1> QED BY <1>1, BunchInvHolds, PTL

\* No message, failure, retry or end of an update leads out of Stopping.
THEOREM StoppingStays == Spec => StoppingIsFinal
<1>1. ASSUME [Next]_vars PROVE state = "Stopping" => state' = "Stopping"
  <2>1. CASE Next
    BY <2>1, StateStep DEF Update, Transition
  <2>2. CASE UNCHANGED vars
    BY <2>2 DEF vars
  <2> QED BY <1>1, <2>1, <2>2
<1>2. [Next]_vars => [state = "Stopping" => state' = "Stopping"]_vars
  BY <1>1
<1> QED BY <1>2, PTL DEF Spec, StoppingIsFinal
=============================================================================
