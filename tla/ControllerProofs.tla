--------------------------- MODULE ControllerProofs ---------------------------
(***************************************************************************)
(* Theorems about Controller for every set of services, every capacity of  *)
(* the channels and every number of connections, events, reports and       *)
(* failed checks: no bunch escapes control, and Shutdown is the            *)
(* controller's last word to it.                                           *)
(***************************************************************************)
EXTENDS Controller, SequenceTheorems, TLAPS

-----------------------------------------------------------------------------
(* The inductive invariant.  It is stated over the values of the variables, *)
(* because Restart works on the list and the bunches that its despawn has   *)
(* left, which no state shows.                                              *)

\* What is so of bunch b, if x is what it is, when the main task is at f with
\* bunch at and the connections in list.  The last conjuncts of the first and
\* the third are what the two properties claim; that a bunch in the hands of
\* spawn is new makes them inductive.
Controlled(f, at, list, b, x) ==
    /\ x.at = "held" <=> (f = "spawning" /\ at = b)
    /\ x.at = "held" => /\ b \notin ToSet(list)
                        /\ ~x.despawned
                        /\ x.rx = <<>>
    /\ x.at \in Active =>
          b \in ToSet(list) \/ x.despawned \/ "Shutdown" \in ToSet(x.rx)
    /\ (x.despawned \/ "Shutdown" \in ToSet(x.rx)) => b \notin ToSet(list)
    /\ \A i \in DOMAIN x.rx :
          x.rx[i] = "Shutdown" =>
             /\ ~x.despawned
             /\ \A j \in DOMAIN x.rx : j > i => x.rx[j] = "HealthCheckFailed"

\* StartUpdate is only sent to a bunch that is listed.
AllControlled(f, at, list, all) ==
    /\ all \in Seq(Bunch)
    /\ list \in Seq(DOMAIN all)
    /\ at \in DOMAIN all \cup {0}
    /\ IsInjective(list)
    /\ f = "spawning" => at \in DOMAIN all
    /\ f = "sending" => at \in ToSet(list)
    /\ \A b \in DOMAIN all : Controlled(f, at, list, b, all[b])

ControlInv ==
    /\ TypeOK
    /\ AllControlled(future, at_bunch, connections, bunches)

-----------------------------------------------------------------------------
(* Lists. *)

LEMMA PushList ==
  ASSUME NEW S, NEW s \in Seq(S), NEW e \in S
  PROVE  /\ Append(s, e) \in Seq(S)
         /\ Len(Append(s, e)) = Len(s) + 1
         /\ ToSet(Append(s, e)) = ToSet(s) \cup {e}
         /\ IsInjective(s) /\ e \notin ToSet(s) => IsInjective(Append(s, e))
<1>1. /\ Append(s, e) \in Seq(S)
      /\ Len(Append(s, e)) = Len(s) + 1
      /\ DOMAIN Append(s, e) = 1..(Len(s) + 1)
      /\ \A i \in 1..Len(s) : Append(s, e)[i] = s[i]
      /\ Append(s, e)[Len(s) + 1] = e
  OBVIOUS
<1>2. DOMAIN s = 1..Len(s) /\ Len(s) \in Nat
  OBVIOUS
<1> DEFINE t == Append(s, e)
<1> HIDE DEF t
<1>3. ToSet(t) = ToSet(s) \cup {e}
  BY <1>1, <1>2 DEF ToSet, t
<1>4. IsInjective(s) /\ e \notin ToSet(s) => IsInjective(t)
  BY <1>1, <1>2 DEF ToSet, IsInjective, t
<1> QED BY <1>1, <1>3, <1>4 DEF t

\* Vec::remove.
LEMMA RemoveFromList ==
  ASSUME NEW S, NEW s \in Seq(S), NEW k \in DOMAIN s, IsInjective(s)
  PROVE  /\ RemoveAt(s, k) \in Seq(S)
         /\ IsInjective(RemoveAt(s, k))
         /\ ToSet(RemoveAt(s, k)) = ToSet(s) \ {s[k]}
<1> DEFINE t == RemoveAt(s, k)
           l == SubSeq(s, 1, k - 1)
           r == SubSeq(s, k + 1, Len(s))
<1>0. /\ DOMAIN s = 1..Len(s) /\ Len(s) \in Nat /\ k \in 1..Len(s)
      /\ \A i \in 1..Len(s) : s[i] \in S
  OBVIOUS
<1>1. /\ l \in Seq(S) /\ Len(l) = k - 1
      /\ \A i \in 1..(k - 1) : l[i] = s[i]
  BY <1>0
<1>2. /\ r \in Seq(S) /\ Len(r) = Len(s) - k
      /\ \A i \in 1..(Len(s) - k) : r[i] = s[k + i]
  <2>1. /\ r \in Seq(S)
        /\ Len(r) = IF k + 1 <= Len(s) THEN Len(s) - (k + 1) + 1 ELSE 0
        /\ \A i \in 1..(Len(s) - (k + 1) + 1) : r[i] = s[k + 1 + i - 1]
    <3>1. \A i \in (k + 1)..Len(s) : s[i] \in S
      BY <1>0
    <3> QED BY <1>0, <3>1, SubSeqProperties
  <2> HIDE DEF r
  <2>2. Len(s) - (k + 1) + 1 = Len(s) - k
    BY <1>0
  <2>3. Len(r) = Len(s) - k
    <3>1. k + 1 <= Len(s) \/ Len(s) - k = 0
      BY <1>0
    <3>2. ~(k + 1 <= Len(s)) \/ Len(r) = Len(s) - k
      BY <2>1, <2>2, Zenon
    <3>3. k + 1 <= Len(s) \/ Len(r) = 0
      BY <2>1, Zenon
    <3> QED BY <3>1, <3>2, <3>3, Zenon
  <2>4. \A i \in 1..(Len(s) - k) : k + 1 + i - 1 = k + i
    BY <1>0
  <2> QED BY <2>1, <2>2, <2>3, <2>4
<1>3. /\ t \in Seq(S) /\ DOMAIN t = 1..(Len(s) - 1)
      /\ \A i \in 1..(Len(s) - 1) : t[i] = IF i < k THEN s[i] ELSE s[i + 1]
  <2>1. /\ t \in Seq(S) /\ Len(t) = Len(l) + Len(r)
        /\ \A i \in 1..(Len(l) + Len(r)) :
              t[i] = IF i <= Len(l) THEN l[i] ELSE r[i - Len(l)]
    BY <1>1, <1>2, ConcatProperties DEF RemoveAt
  <2> HIDE DEF l, r, t
  <2>2. Len(l) + Len(r) = Len(s) - 1
    BY <1>0, <1>1, <1>2
  <2>3. ASSUME NEW i \in 1..(Len(s) - 1)
        PROVE  t[i] = IF i < k THEN s[i] ELSE s[i + 1]
    <3>1. CASE i < k
      BY <1>0, <1>1, <2>1, <2>2, <3>1
    <3>2. CASE i >= k
      <4>1. i - (k - 1) \in 1..(Len(s) - k) /\ k + (i - (k - 1)) = i + 1
        BY <1>0, <3>2
      <4>2. t[i] = r[i - (k - 1)]
        BY <1>0, <1>1, <2>1, <2>2, <3>2
      <4>3. r[i - (k - 1)] = s[i + 1]
        BY <1>2, <4>1
      <4> QED BY <1>0, <3>2, <4>2, <4>3
    <3> QED BY <1>0, <3>1, <3>2
  <2>4. DOMAIN t = 1..(Len(s) - 1)
    BY <2>1, <2>2, LenProperties
  <2> QED BY <2>1, <2>3, <2>4
<1> HIDE DEF t, l, r
<1>4. \A i, j \in 1..Len(s) : s[i] = s[j] => i = j
  BY <1>0 DEF IsInjective
<1>5. ToSet(t) \subseteq ToSet(s) \ {s[k]}
  <2> SUFFICES ASSUME NEW i \in DOMAIN t
               PROVE  \E j \in 1..Len(s) : j # k /\ t[i] = s[j]
    BY <1>0, <1>4 DEF ToSet
  <2>1. CASE i < k
    BY <1>0, <1>3, <2>1
  <2>2. CASE i >= k
    <3>1. i + 1 \in 1..Len(s) /\ i + 1 # k /\ t[i] = s[i + 1]
      BY <1>0, <1>3, <2>2
    <3> QED BY <3>1
  <2> QED BY <1>0, <1>3, <2>1, <2>2
<1>6. ToSet(s) \ {s[k]} \subseteq ToSet(t)
  <2> SUFFICES ASSUME NEW j \in 1..Len(s), j # k
               PROVE  \E i \in DOMAIN t : t[i] = s[j]
    BY <1>0 DEF ToSet
  <2>1. CASE j < k
    BY <1>0, <1>3, <2>1
  <2>2. CASE j > k
    <3>1. j - 1 \in DOMAIN t /\ t[j - 1] = s[j]
      BY <1>0, <1>3, <2>2
    <3> QED BY <3>1
  <2> QED BY <1>0, <2>1, <2>2
<1>7. IsInjective(t)
  <2> SUFFICES ASSUME NEW i \in DOMAIN t, NEW j \in DOMAIN t, t[i] = t[j]
               PROVE  i = j
    BY DEF IsInjective
  <2> DEFINE place(n) == IF n < k THEN n ELSE n + 1
  <2>1. /\ place(i) \in 1..Len(s) /\ place(j) \in 1..Len(s)
        /\ t[i] = s[place(i)] /\ t[j] = s[place(j)]
    BY <1>0, <1>3
  <2>2. place(i) = place(j)
    BY <1>4, <2>1
  <2>3. i \in Nat /\ j \in Nat /\ k \in Nat
    BY <1>0, <1>3
  <2> QED BY <2>2, <2>3
<1> QED BY <1>3, <1>5, <1>6, <1>7 DEF t

-----------------------------------------------------------------------------
(* What the steps are made of. *)

LEMMA BunchFields ==
  ASSUME NEW x \in Bunch
  PROVE  /\ x.service \in Services
         /\ x.at \in Place
         /\ x.rx \in Seq(Order)
         /\ x.reports \in Nat
         /\ x.despawned \in BOOLEAN
         /\ x.checked \in BOOLEAN
BY DEF Bunch

LEMMA EmptyQueue ==
  /\ <<>> \in Seq(Order)
  /\ DOMAIN <<>> = {}
  /\ ToSet(<<>>) = {}
<1>1. <<>> \in Seq(Order) /\ DOMAIN <<>> = {}
  BY EmptySeq
<1> QED BY <1>1 DEF ToSet

\* The main task stays where it is, and one bunch changes.
LEMMA OneBunch ==
  ASSUME NEW f, NEW at, NEW list, NEW all, AllControlled(f, at, list, all),
         NEW b \in DOMAIN all, NEW x \in Bunch, Controlled(f, at, list, b, x)
  PROVE  AllControlled(f, at, list, [all EXCEPT ![b] = x])
<1> DEFINE new == [all EXCEPT ![b] = x]
<1>1. all \in Seq(Bunch) /\ \A c \in DOMAIN all : Controlled(f, at, list, c, all[c])
  BY DEF AllControlled
<1>2. /\ new \in Seq(Bunch) /\ DOMAIN new = DOMAIN all
      /\ \A c \in DOMAIN all : new[c] = IF c = b THEN x ELSE all[c]
  <2>1. b \in 1..Len(all)
    BY <1>1
  <2> QED BY <1>1, <2>1, ExceptSeq
<1> HIDE DEF new
<1>3. \A c \in DOMAIN new : Controlled(f, at, list, c, new[c])
  BY <1>1, <1>2, Zenon
<1> QED BY <1>2, <1>3 DEF AllControlled, new

\* The main task goes on to an await that concerns no bunch.
LEMMA MainMoves ==
  ASSUME NEW f, NEW at, NEW list, NEW all, AllControlled(f, at, list, all),
         NEW g, NEW bt \in DOMAIN all \cup {0}, f # "spawning",
         g \notin {"spawning", "sending"}
  PROVE  AllControlled(g, bt, list, all)
BY DEF AllControlled, Controlled

\* despawn's position is that of the one oldest connection.
LEMMA OldestUnique ==
  ASSUME NEW s, NEW f, NEW at, NEW list, NEW all, AllControlled(f, at, list, all)
  PROVE  \/ Oldest(s, list, all) = {}
         \/ \E k \in DOMAIN list : Oldest(s, list, all) = {k}
<1>1. DOMAIN list = 1..Len(list) /\ Len(list) \in Nat
  BY DEF AllControlled
<1>2. \A i, j \in Oldest(s, list, all) : i = j
  BY <1>1 DEF Oldest
<1>3. Oldest(s, list, all) \subseteq DOMAIN list
  BY DEF Oldest
<1> QED BY <1>2, <1>3

\* Health checks only take a sender.
LEMMA ChecksControlled ==
  ASSUME NEW s, NEW f, NEW at, NEW list, NEW all, AllControlled(f, at, list, all)
  PROVE  AllControlled(f, at, list, ChecksStarted(s, list, all))
<1> DEFINE new == ChecksStarted(s, list, all)
<1>1. /\ all \in Seq(Bunch) /\ DOMAIN all = 1..Len(all) /\ Len(all) \in Nat
      /\ \A c \in DOMAIN all : Controlled(f, at, list, c, all[c])
  BY DEF AllControlled
<1>2. ASSUME NEW c \in DOMAIN all
      PROVE  /\ new[c] \in Bunch
             /\ new[c].at = all[c].at
             /\ new[c].rx = all[c].rx
             /\ new[c].despawned = all[c].despawned
  <2>1. all[c] \in Bunch
    BY <1>1
  <2>2. new[c] = all[c] \/ new[c] = [all[c] EXCEPT !.checked = TRUE]
    BY DEF ChecksStarted
  <2> QED BY <2>1, <2>2 DEF Bunch
<1>3. DOMAIN new = DOMAIN all
  BY DEF ChecksStarted
<1>4. new = [c \in 1..Len(all) |-> new[c]]
  BY <1>1 DEF ChecksStarted
<1> HIDE DEF new
<1>5. new \in Seq(Bunch)
  <2>1. [c \in 1..Len(all) |-> new[c]] \in [1..Len(all) -> Bunch]
    BY <1>1, <1>2
  <2> QED BY <1>1, <1>4, <2>1
<1>6. \A c \in DOMAIN new : Controlled(f, at, list, c, new[c])
  <2> SUFFICES ASSUME NEW c \in DOMAIN all
               PROVE  Controlled(f, at, list, c, new[c])
    BY <1>3
  <2> QED BY <1>1, <1>2 DEF Controlled
<1> QED BY <1>3, <1>5, <1>6 DEF AllControlled, new

\* What despawn leaves is in order again.
LEMMA DespawnedControlled ==
  ASSUME NEW s, AllControlled("select", at_bunch, connections, bunches),
         future = "select"
  PROVE  AllControlled("select", at_bunch, Despawned(s).list, Despawned(s).all)
<1> DEFINE list == Despawned(s).list
           all  == Despawned(s).all
<1>1. /\ bunches \in Seq(Bunch) /\ connections \in Seq(DOMAIN bunches)
      /\ at_bunch \in DOMAIN bunches \cup {0} /\ IsInjective(connections)
      /\ \A b \in DOMAIN bunches :
            Controlled("select", at_bunch, connections, b, bunches[b])
  BY DEF AllControlled
<1>2. CASE Oldest(s, connections, bunches) = {}
  <2>1. list = connections
    BY <1>2 DEF Despawned
  <2>2. all = [b \in DOMAIN bunches |-> bunches[b]]
    BY <1>2 DEF Despawned
  <2>3. all = bunches
    BY <1>1, <2>2
  <2> QED BY <2>1, <2>3
<1>3. ASSUME NEW k \in DOMAIN connections, Oldest(s, connections, bunches) = {k}
      PROVE  AllControlled("select", at_bunch, list, all)
  <2> DEFINE b == connections[k]
             x == [bunches[b] EXCEPT !.despawned = TRUE]
  <2>1. list = RemoveAt(connections, k)
    BY <1>3 DEF Despawned
  <2>2. b \in DOMAIN bunches /\ b \in ToSet(connections)
    BY <1>1 DEF ToSet
  <2>3. all = [bunches EXCEPT ![b] = x]
    <3>1. all = [c \in DOMAIN bunches |-> IF c = b THEN x ELSE bunches[c]]
      BY <1>3 DEF Despawned
    <3> QED BY <1>1, <2>2, <3>1
  <2> HIDE DEF list, all, b
  <2>4. /\ list \in Seq(DOMAIN bunches) /\ IsInjective(list)
        /\ ToSet(list) = ToSet(connections) \ {b}
    BY <1>1, <2>1, RemoveFromList DEF b
  <2>5. bunches[b] \in Bunch /\ x \in Bunch
    <3>1. bunches[b] \in Bunch
      BY <1>1, <2>2
    <3> QED BY <3>1 DEF Bunch
  <2>6. /\ x.at = bunches[b].at /\ x.rx = bunches[b].rx
        /\ x.despawned = TRUE
    BY <2>5 DEF Bunch
  <2> HIDE DEF x
  <2>7. Controlled("select", at_bunch, list, b, x)
    <3>1. Controlled("select", at_bunch, connections, b, bunches[b])
      BY <1>1, <2>2
    <3>2. /\ "Shutdown" \notin ToSet(bunches[b].rx)
          /\ bunches[b].at # "held"
      BY <2>2, <3>1 DEF Controlled
    <3>3. \A i \in DOMAIN x.rx : x.rx[i] # "Shutdown"
      BY <2>6, <3>2 DEF ToSet
    <3> QED BY <2>4, <2>6, <3>1, <3>2, <3>3 DEF Controlled
  <2>8. ASSUME NEW c \in DOMAIN bunches, c # b
        PROVE  Controlled("select", at_bunch, list, c, bunches[c])
    BY <1>1, <2>4, <2>8 DEF Controlled
  <2>9. /\ all \in Seq(Bunch) /\ DOMAIN all = DOMAIN bunches
         /\ \A c \in DOMAIN bunches :
               all[c] = IF c = b THEN x ELSE bunches[c]
    <3>1. b \in 1..Len(bunches)
      BY <1>1, <2>2
    <3> QED BY <1>1, <2>3, <2>5, <3>1, ExceptSeq
  <2> QED BY <1>1, <2>4, <2>7, <2>8, <2>9 DEF AllControlled
<1> QED
  <2>1. AllControlled(future, at_bunch, connections, bunches)
    BY Zenon
  <2> QED BY <1>2, <1>3, <2>1, OldestUnique

\* A bunch is new in the hands of spawn, or served and listed.
LEMMA SpawnControlled ==
  ASSUME NEW s \in Services, NEW list, NEW all, Spawn(s, list, all),
         AllControlled("select", at_bunch, list, all), future = "select"
  PROVE  AllControlled(future', at_bunch', connections', bunches')
<1> DEFINE n == Len(all) + 1
<1>1. /\ all \in Seq(Bunch) /\ list \in Seq(DOMAIN all)
      /\ at_bunch \in DOMAIN all \cup {0} /\ IsInjective(list)
      /\ \A b \in DOMAIN all : Controlled("select", at_bunch, list, b, all[b])
  BY DEF AllControlled
<1>2. DOMAIN all = 1..Len(all) /\ Len(all) \in Nat /\ n \notin DOMAIN all
  BY <1>1
<1>3. n \notin ToSet(list) /\ list \in Seq(DOMAIN all \cup {n})
  <2>1. ToSet(list) \subseteq DOMAIN all
    BY <1>1 DEF ToSet
  <2> QED BY <1>1, <1>2, <2>1, SeqMonotonic
<1>4. ASSUME NEW at \in Place
      PROVE  LET x == NewBunch(s, at)
                 new == Append(all, x)
             IN  /\ x \in Bunch
                 /\ x.at = at /\ x.rx = <<>> /\ x.despawned = FALSE
                 /\ new \in Seq(Bunch)
                 /\ DOMAIN new = DOMAIN all \cup {n}
                 /\ new[n] = x
                 /\ \A b \in DOMAIN all : new[b] = all[b]
  <2>1. NewBunch(s, at) \in Bunch
    BY EmptyQueue DEF NewBunch, Bunch
  <2>2. /\ NewBunch(s, at).at = at /\ NewBunch(s, at).rx = <<>>
        /\ NewBunch(s, at).despawned = FALSE
    BY DEF NewBunch
  <2> QED BY <1>1, <1>2, <2>1, <2>2
<1> HIDE DEF n
<1>5. CASE /\ bunches' = Append(all, NewBunch(s, "serving"))
           /\ connections' = Append(list, n)
           /\ UNCHANGED <<future, at_bunch>>
  <2> DEFINE x == NewBunch(s, "serving")
  <2>1. /\ x.at = "serving" /\ x.rx = <<>> /\ x.despawned = FALSE
        /\ bunches' \in Seq(Bunch) /\ DOMAIN bunches' = DOMAIN all \cup {n}
        /\ bunches'[n] = x /\ \A b \in DOMAIN all : bunches'[b] = all[b]
    BY <1>4, <1>5 DEF Place, Active
  <2> HIDE DEF x
  <2>2. /\ connections' \in Seq(DOMAIN all \cup {n}) /\ IsInjective(connections')
        /\ ToSet(connections') = ToSet(list) \cup {n}
    BY <1>1, <1>3, <1>5, PushList
  <2>3. Controlled("select", at_bunch, connections', n, x)
    BY <2>1, <2>2, EmptyQueue DEF Controlled
  <2>4. ASSUME NEW b \in DOMAIN all
        PROVE  Controlled("select", at_bunch, connections', b, all[b])
    <3>1. b # n /\ Controlled("select", at_bunch, list, b, all[b])
      BY <1>1, <1>2
    <3>2. b \in ToSet(connections') <=> b \in ToSet(list)
      BY <2>2, <3>1
    <3> QED BY <3>1, <3>2 DEF Controlled
  <2>5. future' = "select" /\ at_bunch' = at_bunch
    BY <1>5
  <2> QED BY <1>1, <2>1, <2>2, <2>3, <2>4, <2>5 DEF AllControlled
<1>6. CASE /\ bunches' = Append(all, NewBunch(s, "held"))
           /\ connections' = list
           /\ future' = "spawning"
           /\ at_bunch' = n
  <2> DEFINE x == NewBunch(s, "held")
  <2>1. /\ x.at = "held" /\ x.rx = <<>> /\ x.despawned = FALSE
        /\ bunches' \in Seq(Bunch) /\ DOMAIN bunches' = DOMAIN all \cup {n}
        /\ bunches'[n] = x /\ \A b \in DOMAIN all : bunches'[b] = all[b]
    BY <1>4, <1>6 DEF Place
  <2> HIDE DEF x
  <2>2. Controlled("spawning", n, list, n, x)
    BY <1>3, <2>1, EmptyQueue DEF Controlled, Active
  <2>3. ASSUME NEW b \in DOMAIN all
        PROVE  Controlled("spawning", n, list, b, all[b])
    BY <1>1, <1>2 DEF Controlled
  <2> QED BY <1>1, <1>3, <1>6, <2>1, <2>2, <2>3 DEF AllControlled
<1> QED BY <1>5, <1>6 DEF Spawn, n

-----------------------------------------------------------------------------
(* The invariant holds.                                                    *)

LEMMA ControlInit == Init => ControlInv
<1> SUFFICES ASSUME Init PROVE ControlInv
  OBVIOUS
<1>1. <<>> \in Seq(Command) /\ <<>> \in Seq(Bunch) /\ <<>> \in Seq(Message)
      /\ <<>> \in Seq(DOMAIN <<>>) /\ DOMAIN <<>> = {}
  BY EmptySeq
<1>2. IsInjective(<<>>)
  BY <1>1 DEF IsInjective
<1> QED
  BY <1>1, <1>2 DEF Init, ControlInv, TypeOK, AllControlled

\* The queues of commands and messages, and the bounds.
RestTypeOK ==
    /\ future \in {"select", "executing", "spawning", "script", "sending",
                  "blocked"}
    /\ commands \in Seq(Command)
    /\ messages \in Seq(Message)
    /\ accepted \in Nat
    /\ events \in Nat
    /\ reported \in Nat
    /\ failed \in Nat

LEMMA ControlParts ==
  ControlInv <=> /\ RestTypeOK
                 /\ AllControlled(future, at_bunch, connections, bunches)
BY DEF ControlInv, TypeOK, RestTypeOK, AllControlled

\* The main task.
LEMMA MainStep ==
  ASSUME ControlInv, MainTask
  PROVE  ControlInv'
<1> USE ControlParts
<1>0. /\ RestTypeOK
      /\ AllControlled(future, at_bunch, connections, bunches)
      /\ bunches \in Seq(Bunch) /\ connections \in Seq(DOMAIN bunches)
      /\ at_bunch \in DOMAIN bunches \cup {0}
      /\ IsInjective(connections)
      /\ \A b \in DOMAIN bunches :
            /\ bunches[b] \in Bunch
            /\ Controlled(future, at_bunch, connections, b, bunches[b])
  BY DEF AllControlled
<1> SUFFICES /\ RestTypeOK'
             /\ AllControlled(future', at_bunch', connections', bunches')
  BY DEF ControlInv, TypeOK, RestTypeOK, AllControlled
<1>1. CASE Accept
  <2>1. RestTypeOK'
    BY <1>0, <1>1 DEF Accept, RestTypeOK
  <2>2. CASE future # "spawning"
    <3>1. /\ future' = "executing" /\ at_bunch' = 0
          /\ UNCHANGED <<connections, bunches>>
      BY <1>1, <2>2 DEF Accept
    <3> QED BY <1>0, <2>1, <2>2, <3>1, MainMoves
  <2>3. CASE future = "spawning"
    <3> DEFINE x == [bunches[at_bunch] EXCEPT !.at = "lost"]
    <3>1. at_bunch \in DOMAIN bunches
      BY <1>0, <2>3 DEF AllControlled
    <3>2. bunches[at_bunch] \in Bunch /\ bunches[at_bunch].at = "held"
      BY <1>0, <2>3, <3>1 DEF Controlled
    <3>3. /\ x \in Bunch /\ x.at = "lost" /\ x.rx = bunches[at_bunch].rx
          /\ x.despawned = bunches[at_bunch].despawned
      BY <3>2 DEF Bunch, Place
    <3>4. bunches' = [bunches EXCEPT ![at_bunch] = x]
      BY <1>1, <2>3 DEF Accept
    <3> HIDE DEF x
    <3>5. /\ bunches' \in Seq(Bunch) /\ DOMAIN bunches' = DOMAIN bunches
          /\ \A c \in DOMAIN bunches :
                bunches'[c] = IF c = at_bunch THEN x ELSE bunches[c]
      BY <1>0, <3>1, <3>3, <3>4
    <3>6. Controlled("executing", 0, connections, at_bunch, x)
      BY <1>0, <3>1, <3>2, <3>3 DEF Controlled, Active
    <3>7. ASSUME NEW c \in DOMAIN bunches, c # at_bunch
          PROVE  Controlled("executing", 0, connections, c, bunches[c])
      BY <1>0, <3>7 DEF Controlled
    <3>8. future' = "executing" /\ at_bunch' = 0 /\ connections' = connections
      BY <1>1 DEF Accept
    <3>9. \A c \in DOMAIN bunches' :
             Controlled("executing", 0, connections, c, bunches'[c])
      BY <3>5, <3>6, <3>7
    <3> QED BY <1>0, <2>1, <3>5, <3>8, <3>9 DEF AllControlled
  <2> QED BY <2>2, <2>3
<1>2. CASE Execute \/ ExecuteNothing \/ ScriptExits
  <2>1. RestTypeOK'
    <3>1. CASE Execute
      <4>1. /\ commands' \in Seq(Command)
            /\ future' \in {"select", "blocked"}
        <5>1. commands \in Seq(Command)
          BY <1>0 DEF RestTypeOK
        <5> QED BY <3>1, <5>1 DEF Execute
      <4> QED BY <1>0, <3>1, <4>1 DEF Execute, RestTypeOK, bounds
    <3>2. CASE ExecuteNothing \/ ScriptExits
      BY <1>0, <3>2 DEF ExecuteNothing, ScriptExits, RestTypeOK, bounds
    <3> QED BY <1>2, <3>1, <3>2
  <2>2. /\ future # "spawning" /\ future' \notin {"spawning", "sending"}
        /\ UNCHANGED <<at_bunch, connections, bunches>>
    BY <1>2 DEF Execute, ExecuteNothing, ScriptExits
  <2> QED BY <1>0, <2>1, <2>2, MainMoves
<1>8. CASE TakeMessage
  <2>1. /\ future = "select" /\ future' \in {"select", "script"}
        /\ UNCHANGED <<at_bunch, commands, connections, accepted, events,
                       reported, failed>>
        /\ messages # <<>> /\ messages' = Tail(messages)
    BY <1>8 DEF TakeMessage, bounds
  <2>2. RestTypeOK'
    <3>1. messages \in Seq(Message) /\ messages # <<>>
      BY <1>0, <2>1 DEF RestTypeOK
    <3>2. messages' \in Seq(Message)
      BY <2>1, <3>1
    <3> QED BY <1>0, <2>1, <3>2 DEF RestTypeOK
  <2> DEFINE s == bunches[Head(messages).from].service
  <2>3. bunches' = bunches \/ bunches' = ChecksStarted(s, connections, bunches)
    BY <1>8 DEF TakeMessage
  <2> HIDE DEF s
  <2>4. AllControlled(future, at_bunch, connections, bunches')
    BY <1>0, <2>3, ChecksControlled
  <2>5. AllControlled(future', at_bunch, connections, bunches')
    <3>1. at_bunch \in DOMAIN bunches' \cup {0}
      BY <2>4 DEF AllControlled
    <3> QED BY <2>1, <2>4, <3>1 DEF AllControlled, Controlled
  <2> QED BY <2>1, <2>2, <2>5
<1>3. CASE SpawnDone
  <2> DEFINE x == [bunches[at_bunch] EXCEPT !.at = "serving"]
  <2>1. at_bunch \in DOMAIN bunches /\ future = "spawning"
    BY <1>0, <1>3 DEF SpawnDone, AllControlled
  <2>2. /\ bunches[at_bunch] \in Bunch /\ at_bunch \notin ToSet(connections)
        /\ ~bunches[at_bunch].despawned /\ bunches[at_bunch].rx = <<>>
    BY <1>0, <2>1 DEF Controlled
  <2>3. /\ x \in Bunch /\ x.at = "serving" /\ x.rx = <<>> /\ ~x.despawned
    BY <2>2 DEF Bunch, Place, Active
  <2>4. bunches' = [bunches EXCEPT ![at_bunch] = x]
    BY <1>3 DEF SpawnDone
  <2> HIDE DEF x
  <2>5. /\ bunches' \in Seq(Bunch) /\ DOMAIN bunches' = DOMAIN bunches
        /\ \A c \in DOMAIN bunches :
              bunches'[c] = IF c = at_bunch THEN x ELSE bunches[c]
    BY <1>0, <2>1, <2>3, <2>4
  <2>6. /\ future' = "select" /\ at_bunch' = 0
        /\ connections' = Append(connections, at_bunch)
    BY <1>3 DEF SpawnDone
  <2>7. /\ connections' \in Seq(DOMAIN bunches) /\ IsInjective(connections')
        /\ ToSet(connections') = ToSet(connections) \cup {at_bunch}
    BY <1>0, <2>1, <2>2, <2>6, PushList
  <2>8. Controlled("select", 0, connections', at_bunch, x)
    BY <2>3, <2>7, EmptyQueue DEF Controlled
  <2>9. ASSUME NEW c \in DOMAIN bunches, c # at_bunch
        PROVE  Controlled("select", 0, connections', c, bunches[c])
    BY <1>0, <2>7, <2>9 DEF Controlled
  <2>10. RestTypeOK'
    BY <1>0, <1>3 DEF SpawnDone, RestTypeOK, bounds
  <2> QED BY <1>0, <2>5, <2>6, <2>7, <2>8, <2>9, <2>10 DEF AllControlled
<1>4. CASE TakeCommand
  <2> DEFINE c == Head(commands)
             s == c.service
  <2>1. /\ c \in Command /\ Tail(commands) \in Seq(Command)
        /\ s \in Services
    <3>1. commands \in Seq(Command) /\ commands # <<>>
      BY <1>0, <1>4 DEF TakeCommand, RestTypeOK
    <3>2. c \in Command /\ Tail(commands) \in Seq(Command)
      BY <3>1
    <3> QED BY <3>2 DEF Command
  <2>2. /\ future = "select" /\ commands' = Tail(commands)
        /\ UNCHANGED <<messages, accepted, events, reported, failed>>
    BY <1>4 DEF TakeCommand, bounds
  <2> DEFINE list == Despawned(s).list
             left == Despawned(s).all
  <2>3. \/ \E all \in {bunches, ChecksStarted(s, connections, bunches)} :
              Spawn(s, connections, all)
        \/ /\ connections' = list
           /\ bunches' = left
           /\ UNCHANGED <<future, at_bunch>>
        \/ \E all \in {left, ChecksStarted(s, list, left)} : Spawn(s, list, all)
    BY <1>4 DEF TakeCommand
  <2> HIDE DEF s, c
  <2>4. AllControlled("select", at_bunch, list, left)
    BY <1>0, <2>2, DespawnedControlled
  <2> HIDE DEF list, left
  <2>5. AllControlled("select", at_bunch, connections, bunches)
    BY <1>0, <2>2
  <2>6. AllControlled(future', at_bunch', connections', bunches')
    <3>1. ASSUME NEW all \in {bunches, ChecksStarted(s, connections, bunches)},
                 Spawn(s, connections, all)
          PROVE  AllControlled(future', at_bunch', connections', bunches')
      <4>1. AllControlled("select", at_bunch, connections, all)
        BY <2>5, ChecksControlled
      <4> QED BY <2>1, <2>2, <3>1, <4>1, SpawnControlled
    <3>2. ASSUME NEW all \in {left, ChecksStarted(s, list, left)},
                 Spawn(s, list, all)
          PROVE  AllControlled(future', at_bunch', connections', bunches')
      <4>1. AllControlled("select", at_bunch, list, all)
        BY <2>4, ChecksControlled
      <4> QED BY <2>1, <2>2, <3>2, <4>1, SpawnControlled
    <3>3. CASE /\ connections' = list
               /\ bunches' = left
               /\ UNCHANGED <<future, at_bunch>>
      BY <2>2, <2>4, <3>3
    <3> QED BY <2>3, <3>1, <3>2, <3>3
  <2>7. future' \in {"select", "spawning"}
    BY <2>2, <2>3 DEF Spawn
  <2> QED BY <1>0, <2>1, <2>2, <2>6, <2>7 DEF RestTypeOK
<1>5. CASE JoinBunch
  <2> PICK b \in DOMAIN bunches :
         /\ bunches[b].at = "ended"
         /\ bunches' = [bunches EXCEPT ![b].at = "joined"]
    BY <1>5 DEF JoinBunch
  <2> DEFINE x == [bunches[b] EXCEPT !.at = "joined"]
  <2>1. /\ x \in Bunch /\ x.at = "joined" /\ x.rx = bunches[b].rx
        /\ x.despawned = bunches[b].despawned
    BY <1>0 DEF Bunch, Place
  <2>2. bunches' = [bunches EXCEPT ![b] = x]
    OBVIOUS
  <2>3. UNCHANGED <<mainVars, messages, bounds>>
    BY <1>5 DEF JoinBunch
  <2> HIDE DEF x
  <2>4. Controlled(future, at_bunch, connections, b, x)
    BY <1>0, <2>1 DEF Controlled, Active
  <2>5. AllControlled(future, at_bunch, connections, [bunches EXCEPT ![b] = x])
    BY <1>0, <2>1, <2>4, OneBunch
  <2> QED BY <1>0, <2>2, <2>3, <2>5 DEF mainVars, bounds, RestTypeOK
<1>6. CASE FileCreated
  <2> PICK s \in Watched : \E k \in Oldest(s, connections, bunches) :
                              at_bunch' = connections[k]
    BY <1>6 DEF FileCreated
  <2> PICK i \in Oldest(s, connections, bunches) : at_bunch' = connections[i]
    OBVIOUS
  <2>1. at_bunch' \in DOMAIN bunches /\ at_bunch' \in ToSet(connections)
    <3>1. i \in DOMAIN connections
      BY DEF Oldest
    <3> QED BY <1>0, <3>1 DEF ToSet
  <2>2. /\ future = "select" /\ future' = "sending" /\ events' = events + 1
        /\ UNCHANGED <<commands, connections, bunches, messages, accepted,
                       reported, failed>>
    BY <1>6 DEF FileCreated
  <2>3. \A b \in DOMAIN bunches :
           Controlled("sending", at_bunch', connections, b, bunches[b])
    BY <1>0, <2>2 DEF Controlled
  <2>4. RestTypeOK'
    BY <1>0, <2>2 DEF RestTypeOK
  <2> QED BY <1>0, <2>1, <2>2, <2>3, <2>4 DEF AllControlled
<1>7. CASE SendUpdate
  <2>1. /\ future = "sending" /\ future' = "select" /\ at_bunch' = 0
        /\ UNCHANGED <<commands, connections, messages, accepted, events,
                       reported, failed>>
    BY <1>7 DEF SendUpdate, bounds
  <2>2. RestTypeOK'
    BY <1>0, <2>1 DEF RestTypeOK
  <2>3. CASE UNCHANGED bunches
    BY <1>0, <2>1, <2>2, <2>3, MainMoves
  <2>4. CASE /\ RxOpen(at_bunch) /\ RxFree(at_bunch)
             /\ bunches' = [bunches EXCEPT ![at_bunch].rx =
                               Append(@, "StartUpdate")]
    <3> DEFINE b == at_bunch
               q == Append(bunches[b].rx, "StartUpdate")
               x == [bunches[b] EXCEPT !.rx = q]
    <3>1. b \in ToSet(connections) /\ b \in DOMAIN bunches
      <4>1. b \in ToSet(connections)
        BY <1>0, <2>1 DEF AllControlled
      <4> QED BY <1>0, <4>1 DEF ToSet
    <3>2. /\ bunches[b] \in Bunch
          /\ Controlled(future, at_bunch, connections, b, bunches[b])
      BY <1>0, <3>1
    <3>3. ~bunches[b].despawned /\ "Shutdown" \notin ToSet(bunches[b].rx)
      BY <3>1, <3>2 DEF Controlled
    <3>4. /\ q \in Seq(Order)
          /\ ToSet(q) = ToSet(bunches[b].rx) \cup {"StartUpdate"}
      BY <3>2, BunchFields, PushList DEF Order
    <3> HIDE DEF q
    <3>5. /\ x \in Bunch /\ x.at = bunches[b].at /\ x.rx = q
          /\ x.despawned = bunches[b].despawned
      BY <3>2, <3>4 DEF Bunch
    <3>6. bunches' = [bunches EXCEPT ![b] = x]
      BY <2>4 DEF q
    <3> HIDE DEF x
    <3>7. bunches[b].at # "held"
      BY <2>1, <3>2 DEF Controlled
    <3>8. Controlled(future, at_bunch, connections, b, x)
      <4>1. \A i \in DOMAIN x.rx : x.rx[i] # "Shutdown"
        BY <3>3, <3>4, <3>5 DEF ToSet
      <4> QED BY <2>1, <3>1, <3>3, <3>4, <3>5, <3>7, <4>1 DEF Controlled
    <3>9. AllControlled(future, at_bunch, connections, bunches')
      BY <1>0, <3>1, <3>5, <3>6, <3>8, OneBunch
    <3> QED BY <2>1, <2>2, <3>9, MainMoves
  <2> QED BY <1>7, <2>3, <2>4 DEF SendUpdate
<1> QED
  BY <1>1, <1>2, <1>3, <1>4, <1>5, <1>6, <1>7, <1>8 DEF MainTask

\* A bunch takes a message from its queue.
LEMMA TakeFromQueue ==
  ASSUME NEW q \in Seq(Order), q # <<>>
  PROVE  /\ Tail(q) \in Seq(Order)
         /\ ToSet(q) = ToSet(Tail(q)) \cup {Head(q)}
         /\ Len(Tail(q)) = Len(q) - 1
         /\ \A i \in DOMAIN Tail(q) : i + 1 \in DOMAIN q /\ Tail(q)[i] = q[i + 1]
<1> DEFINE t == Tail(q)
<1>1. /\ t \in Seq(Order) /\ Len(t) = Len(q) - 1
      /\ DOMAIN q = 1..Len(q) /\ DOMAIN t = 1..(Len(q) - 1)
      /\ Len(q) \in Nat \ {0} /\ Head(q) = q[1]
      /\ \A i \in 1..(Len(q) - 1) : t[i] = q[i + 1]
  OBVIOUS
<1> HIDE DEF t
<1>2. \A i \in DOMAIN t : i + 1 \in DOMAIN q /\ t[i] = q[i + 1]
  BY <1>1
<1>3. ToSet(q) \subseteq ToSet(t) \cup {q[1]}
  <2> SUFFICES ASSUME NEW i \in DOMAIN q, i # 1 PROVE q[i] \in ToSet(t)
    BY DEF ToSet
  <2>1. i - 1 \in DOMAIN t /\ t[i - 1] = q[i]
    BY <1>1
  <2> QED BY <2>1 DEF ToSet
<1>4. ToSet(t) \cup {q[1]} \subseteq ToSet(q)
  BY <1>1, <1>2 DEF ToSet
<1> QED BY <1>1, <1>2, <1>3, <1>4 DEF t

\* Bunches and detached tasks.
LEMMA BunchStep ==
  ASSUME ControlInv, NEW b \in DOMAIN bunches, BunchTask(b) \/ Detached(b)
  PROVE  ControlInv'
<1>0. /\ RestTypeOK
      /\ AllControlled(future, at_bunch, connections, bunches)
      /\ bunches[b] \in Bunch
      /\ Controlled(future, at_bunch, connections, b, bunches[b])
  BY ControlParts DEF AllControlled
<1> DEFINE old == bunches[b]
<1>1. /\ old.service \in Services /\ old.at \in Place
      /\ old.rx \in Seq(Order)
      /\ old.reports \in Nat /\ old.despawned \in BOOLEAN
  BY <1>0, BunchFields
<1> SUFFICES /\ RestTypeOK' /\ UNCHANGED mainVars
             /\ \E x \in Bunch : /\ bunches' = [bunches EXCEPT ![b] = x]
                                 /\ Controlled(future, at_bunch, connections, b, x)
  <2>1. RestTypeOK' /\ UNCHANGED mainVars
    OBVIOUS
  <2> PICK x \in Bunch : /\ bunches' = [bunches EXCEPT ![b] = x]
                         /\ Controlled(future, at_bunch, connections, b, x)
    OBVIOUS
  <2>2. AllControlled(future, at_bunch, connections, bunches')
    BY <1>0, OneBunch
  <2>3. AllControlled(future', at_bunch', connections', bunches')
    BY <2>1, <2>2 DEF mainVars
  <2> QED BY <2>1, <2>3
          DEF ControlInv, TypeOK, RestTypeOK, AllControlled
<1>2. CASE BunchReceives(b)
  <2> DEFINE q == old.rx
  <2>1. /\ old.at = "serving" /\ q # <<>> /\ UNCHANGED <<mainVars, messages, bounds>>
    BY <1>2 DEF BunchReceives
  <2>2. RestTypeOK' /\ UNCHANGED mainVars
    BY <1>0, <2>1 DEF RestTypeOK, mainVars, bounds
  <2>3. CASE Head(q) = "Shutdown"
    <3> DEFINE x == [End(b) EXCEPT !.reports = @ + 1]
    <3>1. /\ x \in Bunch /\ x.at = "ended" /\ x.rx = <<>>
          /\ x.despawned = old.despawned
      <4>1. /\ End(b) \in Bunch /\ End(b).at = "ended" /\ End(b).rx = <<>>
            /\ End(b).despawned = old.despawned /\ End(b).reports + 1 \in Nat
        <5>1. End(b).reports = old.reports
          BY <1>0 DEF Bunch, End
        <5>2. /\ End(b) \in Bunch /\ End(b).at = "ended" /\ End(b).rx = <<>>
              /\ End(b).despawned = old.despawned
          BY <1>0, <1>1, EmptyQueue DEF Bunch, End, Place
        <5> QED BY <1>1, <5>1, <5>2
      <4> QED BY <4>1 DEF Bunch
    <3> HIDE DEF x
    <3>2. Controlled(future, at_bunch, connections, b, x)
      BY <1>0, <2>1, <3>1, EmptyQueue DEF Controlled, Active
    <3>3. bunches' = [bunches EXCEPT ![b] = x]
      BY <1>2, <2>3 DEF BunchReceives, x
    <3> QED BY <2>2, <3>1, <3>2, <3>3
  <2>4. CASE Head(q) # "Shutdown"
    <3> DEFINE left == [old EXCEPT !.rx = Tail(q)]
    <3>1. /\ Tail(q) \in Seq(Order)
          /\ ToSet(q) = ToSet(Tail(q)) \cup {Head(q)}
          /\ Len(Tail(q)) = Len(q) - 1
          /\ \A i \in DOMAIN Tail(q) : i + 1 \in DOMAIN q /\ Tail(q)[i] = q[i + 1]
      BY <1>1, <2>1, TakeFromQueue
    <3>2. /\ left \in Bunch /\ left.at = "serving" /\ left.rx = Tail(q)
          /\ left.despawned = old.despawned /\ left.reports = old.reports
      BY <1>0, <1>1, <2>1, <3>1 DEF Bunch
    <3>3. PICK x \in Bunch : /\ x.at \in {"serving", "updating"} /\ x.rx = Tail(q)
                             /\ x.despawned = old.despawned
                             /\ bunches' = [bunches EXCEPT ![b] = x]
      <4>1. CASE bunches' = [bunches EXCEPT ![b] = [left EXCEPT !.at = "updating"]]
        <5>1. [left EXCEPT !.at = "updating"] \in Bunch
          BY <3>2 DEF Bunch, Place, Active
        <5>2. /\ [left EXCEPT !.at = "updating"].at = "updating"
              /\ [left EXCEPT !.at = "updating"].rx = Tail(q)
              /\ [left EXCEPT !.at = "updating"].despawned = old.despawned
          BY <3>2 DEF Bunch
        <5> HIDE DEF left
        <5> QED BY <4>1, <5>1, <5>2
      <4>2. ASSUME NEW n \in {0, 1},
                   bunches' = [bunches EXCEPT
                                  ![b] = [left EXCEPT !.reports = left.reports + n]]
            PROVE  \E x \in Bunch : /\ x.at \in {"serving", "updating"}
                                    /\ x.rx = Tail(q)
                                    /\ x.despawned = old.despawned
                                    /\ bunches' = [bunches EXCEPT ![b] = x]
        <5> DEFINE y == [left EXCEPT !.reports = left.reports + n]
        <5>1. left.reports + n \in Nat
          BY <1>1, <3>2
        <5>2. /\ y \in Bunch /\ y.at = "serving" /\ y.rx = Tail(q)
              /\ y.despawned = old.despawned
          BY <3>2, <5>1 DEF Bunch
        <5>3. bunches' = [bunches EXCEPT ![b] = y]
          BY <4>2
        <5> HIDE DEF y
        <5> QED BY <5>2, <5>3
      <4> QED BY <1>2, <2>4, <4>1, <4>2 DEF BunchReceives
    <3> HIDE DEF left
    <3>4. "Shutdown" \in ToSet(x.rx) <=> "Shutdown" \in ToSet(q)
      BY <2>4, <3>1, <3>3
    <3>5. ASSUME NEW i \in DOMAIN x.rx, x.rx[i] = "Shutdown"
          PROVE  /\ ~x.despawned
                 /\ \A j \in DOMAIN x.rx : j > i => x.rx[j] = "HealthCheckFailed"
      <4>1. i + 1 \in DOMAIN q /\ q[i + 1] = "Shutdown"
        BY <3>1, <3>3, <3>5
      <4>2. /\ ~old.despawned
            /\ \A j \in DOMAIN q : j > i + 1 => q[j] = "HealthCheckFailed"
        BY <1>0, <4>1 DEF Controlled
      <4>3. ASSUME NEW j \in DOMAIN x.rx, j > i
            PROVE  x.rx[j] = "HealthCheckFailed"
        <5>1. j + 1 \in DOMAIN q /\ x.rx[j] = q[j + 1]
          BY <3>1, <3>3
        <5>2. i \in Nat /\ j \in Nat
          BY <3>1, <3>3
        <5>3. j + 1 > i + 1
          BY <4>3, <5>2
        <5> QED BY <4>2, <5>1, <5>3
      <4> QED BY <3>3, <4>2, <4>3
    <3>6. Controlled(future, at_bunch, connections, b, x)
      BY <1>0, <2>1, <3>3, <3>4, <3>5 DEF Controlled, Active
    <3> QED BY <2>2, <3>3, <3>6
  <2> QED BY <2>3, <2>4
<1>3. CASE UpdateOver(b) \/ Announce(b)
  <2> PICK at \in {"serving", "announcing"} :
         bunches' = [bunches EXCEPT ![b].at = at]
    BY <1>3 DEF UpdateOver, Announce, Move
  <2> DEFINE x == [old EXCEPT !.at = at]
  <2>1. /\ x \in Bunch /\ x.at = at /\ x.rx = old.rx
        /\ x.despawned = old.despawned
    BY <1>0 DEF Bunch, Place, Active
  <2>2. old.at \in Active /\ at \in Active /\ at # "held" /\ old.at # "held"
    BY <1>3 DEF UpdateOver, Announce, Move, Active
  <2>3. bunches' = [bunches EXCEPT ![b] = x]
    OBVIOUS
  <2> HIDE DEF x
  <2>4. Controlled(future, at_bunch, connections, b, x)
    BY <1>0, <2>1, <2>2 DEF Controlled
  <2>5. RestTypeOK' /\ UNCHANGED mainVars
    <3>1. b \in Nat
      BY <1>0 DEF AllControlled
    <3>2. CASE UpdateOver(b)
      BY <1>0, <3>2 DEF UpdateOver, RestTypeOK, mainVars, bounds
    <3>3. CASE Announce(b)
      <4>1. [type |-> "UpdateFinished", from |-> b] \in Message
        BY <3>1 DEF Message
      <4>2. messages' \in Seq(Message)
        BY <1>0, <3>3, <4>1 DEF Announce, RestTypeOK
      <4> QED BY <1>0, <3>3, <4>2 DEF Announce, RestTypeOK, mainVars, bounds
    <3> QED BY <1>3, <3>2, <3>3
  <2> QED BY <2>1, <2>3, <2>4, <2>5
<1>4. CASE Report(b) \/ SendReport(b)
  <2> PICK n \in Nat : bunches' = [bunches EXCEPT ![b].reports = n]
    <3>1. CASE Report(b)
      <4>1. old.reports + 1 \in Nat
        BY <1>1
      <4> QED BY <3>1, <4>1 DEF Report
    <3>2. CASE SendReport(b)
      <4>1. old.reports - 1 \in Nat
        BY <1>1, <3>2 DEF SendReport
      <4> QED BY <3>2, <4>1 DEF SendReport
    <3> QED BY <1>4, <3>1, <3>2
  <2> DEFINE x == [old EXCEPT !.reports = n]
  <2>1. /\ x \in Bunch /\ x.at = old.at /\ x.rx = old.rx
        /\ x.despawned = old.despawned
    BY <1>0 DEF Bunch
  <2>2. bunches' = [bunches EXCEPT ![b] = x]
    OBVIOUS
  <2> HIDE DEF x
  <2>3. Controlled(future, at_bunch, connections, b, x)
    BY <1>0, <2>1 DEF Controlled
  <2>4. RestTypeOK' /\ UNCHANGED mainVars
    <3>1. b \in Nat
      BY <1>0 DEF AllControlled
    <3>2. CASE Report(b)
      BY <1>0, <3>2 DEF Report, RestTypeOK, mainVars
    <3>3. CASE SendReport(b)
      <4>1. [type |-> "Units", from |-> b] \in Message
        BY <3>1 DEF Message
      <4>2. messages' \in Seq(Message)
        BY <1>0, <3>3, <4>1 DEF SendReport, RestTypeOK
      <4> QED BY <1>0, <3>3, <4>2 DEF SendReport, RestTypeOK, mainVars, bounds
    <3> QED BY <1>4, <3>2, <3>3
  <2> QED BY <2>1, <2>2, <2>3, <2>4
<1>5. CASE EndsAlone(b)
  <2> DEFINE x == End(b)
  <2>1. /\ x \in Bunch /\ x.at = "ended" /\ x.rx = <<>>
        /\ x.despawned = old.despawned
    BY <1>0, EmptyQueue DEF Bunch, End, Place
  <2>2. bunches' = [bunches EXCEPT ![b] = x] /\ old.at # "held"
    BY <1>5 DEF EndsAlone
  <2> HIDE DEF x
  <2>3. Controlled(future, at_bunch, connections, b, x)
    BY <1>0, <2>1, <2>2, EmptyQueue DEF Controlled, Active
  <2>4. RestTypeOK' /\ UNCHANGED mainVars
    BY <1>0, <1>5 DEF EndsAlone, RestTypeOK, mainVars, bounds
  <2> QED BY <2>1, <2>2, <2>3, <2>4
<1>6. CASE SendShutdown(b)
  <2>1. RestTypeOK' /\ UNCHANGED mainVars
    BY <1>0, <1>6 DEF SendShutdown, RestTypeOK, mainVars, bounds
  <2>2. /\ old.despawned /\ b \notin ToSet(connections)
        /\ "Shutdown" \notin ToSet(old.rx) /\ old.at # "held"
    <3>1. old.despawned
      BY <1>6 DEF SendShutdown
    <3> QED BY <1>0, <3>1 DEF Controlled, ToSet
  <2>3. CASE RxOpen(b)
    <3> DEFINE q == Append(old.rx, "Shutdown")
               x == [old EXCEPT !.despawned = FALSE,
                            !.rx = Append(old.rx, "Shutdown")]
    <3>1. /\ q \in Seq(Order)
          /\ ToSet(q) = ToSet(old.rx) \cup {"Shutdown"}
          /\ Len(q) = Len(old.rx) + 1
          /\ \A i \in DOMAIN q : i # Len(q) => i \in DOMAIN old.rx /\ q[i] = old.rx[i]
      BY <1>1, PushList DEF Order
    <3>2. \A i, j \in DOMAIN q : q[i] = "Shutdown" => ~(j > i)
      <4>1. \A i \in DOMAIN q : q[i] = "Shutdown" => i = Len(q)
        BY <2>2, <3>1 DEF ToSet
      <4>2. DOMAIN q = 1..Len(q) /\ Len(q) \in Nat
        BY <3>1
      <4> HIDE DEF q
      <4> QED BY <4>1, <4>2
    <3> HIDE DEF q
    <3>3. x \in Bunch /\ x.at = old.at /\ x.rx = q /\ x.despawned = FALSE
      BY <1>0, <3>1 DEF Bunch, q
    <3>4. bunches' = [bunches EXCEPT ![b] = x]
      BY <1>6, <2>3, Zenon DEF SendShutdown
    <3> HIDE DEF x
    <3>5. Controlled(future, at_bunch, connections, b, x)
      BY <1>0, <2>2, <3>1, <3>2, <3>3 DEF Controlled
    <3> QED BY <2>1, <3>3, <3>4, <3>5
  <2>4. CASE ~RxOpen(b)
    <3> DEFINE x == [old EXCEPT !.despawned = FALSE]
    <3>1. x \in Bunch /\ x.at = old.at /\ x.rx = old.rx /\ x.despawned = FALSE
      BY <1>0 DEF Bunch
    <3>2. bunches' = [bunches EXCEPT ![b] = x]
      BY <1>6, <2>4, Zenon DEF SendShutdown
    <3> HIDE DEF x
    <3>3. x.at \notin Active
      BY <2>4, <3>1 DEF RxOpen
    <3>4. Controlled(future, at_bunch, connections, b, x)
      BY <1>0, <2>2, <3>1, <3>3 DEF Controlled
    <3> QED BY <2>1, <3>1, <3>2, <3>4
  <2> QED BY <2>3, <2>4
<1>7. CASE CheckFails(b)
  <2> DEFINE q == Append(old.rx, "HealthCheckFailed")
             x == [old EXCEPT !.rx = q]
  <2>1. RestTypeOK' /\ UNCHANGED mainVars
    BY <1>0, <1>7 DEF CheckFails, RestTypeOK, mainVars, bounds
  <2>2. /\ q \in Seq(Order)
        /\ ToSet(q) = ToSet(old.rx) \cup {"HealthCheckFailed"}
        /\ \A i \in DOMAIN q :
              \/ q[i] = "HealthCheckFailed"
              \/ i \in DOMAIN old.rx /\ q[i] = old.rx[i]
    BY <1>1, PushList DEF Order
  <2> HIDE DEF q
  <2>3. x \in Bunch /\ x.at = old.at /\ x.rx = q /\ x.despawned = old.despawned
    BY <1>0, <2>2 DEF Bunch
  <2>4. bunches' = [bunches EXCEPT ![b] = x]
    BY <1>7 DEF CheckFails, q
  <2> HIDE DEF x
  <2>5. ASSUME NEW i \in DOMAIN q, q[i] = "Shutdown"
        PROVE  /\ ~old.despawned
               /\ \A j \in DOMAIN q : j > i => q[j] = "HealthCheckFailed"
    <3>1. /\ ~old.despawned
          /\ \A j \in DOMAIN old.rx : j > i => old.rx[j] = "HealthCheckFailed"
      BY <1>0, <2>2, <2>5 DEF Controlled
    <3> QED BY <2>2, <3>1
  <2>6. old.at # "held"
    BY <1>7 DEF CheckFails, RxOpen, Active
  <2>7. Controlled(future, at_bunch, connections, b, x)
    BY <1>0, <2>2, <2>3, <2>5, <2>6 DEF Controlled
  <2> QED BY <2>1, <2>3, <2>4, <2>7
<1> QED
  BY <1>2, <1>3, <1>4, <1>5, <1>6, <1>7 DEF BunchTask, Detached

LEMMA ControlInvHolds == Spec => []ControlInv
<1>1. ASSUME ControlInv, [Next]_vars PROVE ControlInv'
  <2>1. CASE MainTask
    BY <1>1, <2>1, MainStep
  <2>2. CASE \E b \in DOMAIN bunches : BunchTask(b) \/ Detached(b)
    BY <1>1, <2>2, BunchStep
  <2>3. CASE Stuck \/ Finished \/ UNCHANGED vars
    BY <1>1, <2>3 DEF Stuck, Finished, vars, bounds, ControlInv, TypeOK, AllControlled,
       Controlled
  <2> QED BY <1>1, <2>1, <2>2, <2>3 DEF Next
<1> QED BY <1>1, ControlInit, PTL DEF Spec

-----------------------------------------------------------------------------
(* The theorems.                                                           *)

\* The types of the controller's list, queues and bunches (TypeOK): every
\* connection is one of a bunch, no report is sent that nobody made, and the
\* position despawn removes exists.
THEOREM ControllerTypeCorrect == Spec => []TypeOK
BY ControlInvHolds, PTL DEF ControlInv

\* A bunch whose task runs can be reached, or has been told, or is about to be
\* told, to stop, and one that has no task yet is in the hands of spawn
\* (UnderControl): for every number of commands, connections that cancel a
\* wait, duplicate spawns and bunches that end by themselves.
THEOREM NoneEscapes == Spec => []UnderControl
<1>1. ControlInv => UnderControl
  BY DEF ControlInv, AllControlled, UnderControl, Controlled, Listed
<1> QED BY <1>1, ControlInvHolds, PTL

\* The controller sends nothing to a bunch after Shutdown, and once, and only
\* failed health checks can stand behind it (ShutdownIsLast; despawn,
\* send_update_message and start_health_check_tasks): despawn takes the
\* connection out of the list before its detached task sends, and no bunch is
\* listed twice.
THEOREM ShutdownComesLast == Spec => []ShutdownIsLast
<1>1. ASSUME ControlInv PROVE ShutdownIsLast
  <2> SUFFICES ASSUME NEW b \in DOMAIN bunches
               PROVE  LET rx == bunches[b].rx IN
                      /\ (bunches[b].despawned \/ "Shutdown" \in ToSet(rx)) =>
                            /\ b \notin Listed
                            /\ ~(future = "sending" /\ at_bunch = b)
                      /\ \A i \in DOMAIN rx :
                            rx[i] = "Shutdown" =>
                               /\ ~bunches[b].despawned
                               /\ \A j \in DOMAIN rx :
                                     j > i => rx[j] = "HealthCheckFailed"
    BY <1>1 DEF ControlInv, AllControlled, ShutdownIsLast
  <2>1. /\ Controlled(future, at_bunch, connections, b, bunches[b])
        /\ future = "sending" => at_bunch \in ToSet(connections)
    BY <1>1 DEF ControlInv, AllControlled
  <2> QED BY <2>1 DEF Controlled, Listed
<1> QED BY <1>1, ControlInvHolds, PTL
=============================================================================
