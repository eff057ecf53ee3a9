--------------------------- MODULE AddressesProofs ---------------------------
(***************************************************************************)
(* What a scan for TCP ports finds, for every number of ports, of scans at *)
(* the same time, of ports asked for, and whatever others take and release *)
(* meanwhile; and which numbers sockets get, for every directory.          *)
(*                                                                         *)
(* The library's induction takes an operator; where the proofs about       *)
(* sockets need one, they look at the least counterexample instead.        *)
(***************************************************************************)
EXTENDS Addresses, SequenceTheorems, FiniteSetTheorems, TLAPS

-----------------------------------------------------------------------------
(* The inductive invariant of one scan, given the ports available.         *)

\* As long as the number has not come round, the next port to probe is as many
\* steps from the configured one as were made.
PortFollows(s) ==
    s.probes <= PortCount =>
       s.port = BasePort + s.probes \/ s.port = BasePort + s.probes - PortCount

\* What was available all the time is available now, and what is so now was so at
\* some time.
FreeNow(s, free) == s.at = "scanning" => s.calm \subseteq free /\ free \subseteq s.ever

\* The scan's part of ScanFinds.
Finds(s) ==
    s.probes <= PortCount =>
       /\ \A i, j \in DOMAIN s.found :
             i < j => Dist(s.found[i]) < Dist(s.found[j])
       /\ \A i \in DOMAIN s.found :
             s.found[i] \in s.ever /\ Dist(s.found[i]) < s.probes
       /\ \A p \in s.calm :
             Dist(p) < s.probes => \E i \in DOMAIN s.found : s.found[i] = p

\* The scan's part of RoundOnlyIfFull, and why: it goes on only with too few.
Short(s) ==
    /\ s.at = "scanning" => Len(s.found) < s.want
    /\ s.probes > PortCount => Cardinality(s.calm) < s.want

ScanOK(s, free) == /\ s \in Scan
                   /\ PortFollows(s)
                   /\ FreeNow(s, free)
                   /\ Finds(s)
                   /\ Short(s)

ScanInv == /\ DOMAIN scan = Scanners
           /\ scan = [b \in Scanners |-> scan[b]]
           /\ \A b \in Scanners : ScanOK(scan[b], Available)

-----------------------------------------------------------------------------
LEMMA ScanFields ==
  ASSUME NEW s \in Scan
  PROVE  /\ s.at \in {"idle", "scanning", "found"}
         /\ s.want \in 1..InstancesCount
         /\ s.port \in Port
         /\ s.found \in Seq(Port)
         /\ s.probes \in 0..(PortCount + 1)
         /\ s.calm \subseteq Port
         /\ s.ever \subseteq Port
BY DEF Scan

\* Every port is less than a round away, and no two are equally far.
LEMMA DistProperties ==
  /\ \A p \in Port : Dist(p) \in 0..(PortCount - 1)
  /\ \A p, q \in Port : Dist(p) = Dist(q) => p = q
  /\ \A p \in Port : \A n \in 0..(PortCount - 1) :
        (p = BasePort + n \/ p = BasePort + n - PortCount) => Dist(p) = n
BY PortAssumption DEF Dist, Port

\* The next port, and the one after the last.
LEMMA SuccProperties ==
  ASSUME NEW p \in Port
  PROVE  /\ Succ(p) \in Port
         /\ Succ(p) = p + 1 \/ (p = PortCount - 1 /\ Succ(p) = 0)
BY PortAssumption DEF Succ, Port

\* A list holds no more different ports than it is long.
LEMMA ListCardinality ==
  ASSUME NEW s \in Seq(Port)
  PROVE  IsFiniteSet(ToSet(s)) /\ Cardinality(ToSet(s)) <= Len(s)
<1>1. DOMAIN s = 1..Len(s) /\ Len(s) \in Nat
  OBVIOUS
<1>2. IsFiniteSet(1..Len(s)) /\ Cardinality(1..Len(s)) = Len(s)
  BY <1>1, FS_Interval
<1>3. s \in Surjection(1..Len(s), ToSet(s))
  BY <1>1 DEF Surjection, ToSet
<1> QED BY <1>2, <1>3, FS_Surjection

-----------------------------------------------------------------------------
(* The steps of a scan.                                                    *)

\* One probe.
LEMMA ProbedOK ==
  ASSUME NEW s, ScanOK(s, Available), s.at = "scanning"
  PROVE  LET t == Probed(s) IN
         ScanOK(IF Len(t.found) = t.want THEN [t EXCEPT !.at = "found"] ELSE t,
                Available)
<1> DEFINE t == Probed(s)
           r == IF Len(t.found) = t.want THEN [t EXCEPT !.at = "found"] ELSE t
<1>1. /\ s \in Scan /\ s.want \in Nat /\ s.port \in Port
      /\ s.found \in Seq(Port) /\ s.probes \in 0..(PortCount + 1)
      /\ s.calm \subseteq Port /\ Len(s.found) \in Nat
      /\ DOMAIN s.found = 1..Len(s.found)
  BY ScanFields, InstancesAssumption DEF ScanOK
<1>2. PortCount \in Nat /\ PortCount > 0 /\ BasePort \in 0..(PortCount - 1)
  BY PortAssumption
<1>3. /\ PortFollows(s) /\ Finds(s) /\ Short(s)
      /\ s.calm \subseteq Available /\ Available \subseteq s.ever
  BY DEF ScanOK, FreeNow
<1>4. /\ t.want = s.want /\ t.calm = s.calm /\ t.ever = s.ever
      /\ t.at = s.at /\ t.port = Succ(s.port) /\ t.probes = Count(s.probes)
      /\ t.found = IF is_port_available(s.port) THEN Append(s.found, s.port)
                                                ELSE s.found
  BY <1>1 DEF Probed, Scan
<1>5. t.found \in Seq(Port) /\ Len(t.found) <= Len(s.found) + 1
  BY <1>1, <1>4
<1>6. t.probes \in 0..(PortCount + 1)
  BY <1>1, <1>2, <1>4 DEF Count
<1>7. t \in Scan
  <2>1. t.port \in Port
    BY <1>1, <1>4, SuccProperties
  <2>2. Count(s.probes) \in 0..(PortCount + 1) /\ Succ(s.port) \in Port
        /\ (IF is_port_available(s.port) THEN Append(s.found, s.port)
                                         ELSE s.found) \in Seq(Port)
    BY <1>4, <1>5, <1>6, <2>1
  <2> QED BY <1>1, <2>2 DEF Probed, Scan
<1> HIDE DEF t
<1>8. /\ r \in Scan /\ r.want = t.want /\ r.calm = t.calm /\ r.ever = t.ever
      /\ r.port = t.port /\ r.probes = t.probes /\ r.found = t.found
      /\ r.at = IF Len(t.found) = t.want THEN "found" ELSE t.at
  BY <1>7 DEF Scan
<1> HIDE DEF r
<1>9. PortFollows(r)
  <2> SUFFICES ASSUME r.probes <= PortCount
               PROVE  \/ r.port = BasePort + r.probes
                      \/ r.port = BasePort + r.probes - PortCount
    BY DEF PortFollows
  <2>1. s.probes <= PortCount - 1 /\ r.probes = s.probes + 1
    BY <1>1, <1>2, <1>4, <1>8 DEF Count
  <2>2. r.port = s.port + 1 \/ (s.port = PortCount - 1 /\ r.port = 0)
    BY <1>1, <1>4, <1>8, SuccProperties
  <2>3. \/ s.port = BasePort + s.probes
        \/ s.port = BasePort + s.probes - PortCount
    BY <1>1, <1>2, <1>3, <2>1 DEF PortFollows
  <2> QED BY <1>1, <1>2, <2>1, <2>2, <2>3
<1>10. FreeNow(r, Available)
  BY <1>3, <1>4, <1>8 DEF FreeNow
<1>11. Finds(r)
  <2> SUFFICES ASSUME r.probes <= PortCount PROVE Finds(r)
    BY DEF Finds
  <2>1. /\ s.probes \in 0..(PortCount - 1) /\ r.probes = s.probes + 1
    BY <1>1, <1>2, <1>4, <1>8 DEF Count
  <2>2. Dist(s.port) = s.probes
    BY <1>1, <1>2, <1>3, <2>1, DistProperties DEF PortFollows
  <2>3. /\ \A i, j \in DOMAIN s.found :
              i < j => Dist(s.found[i]) < Dist(s.found[j])
        /\ \A i \in DOMAIN s.found :
              s.found[i] \in s.ever /\ Dist(s.found[i]) < s.probes
        /\ \A p \in s.calm :
              Dist(p) < s.probes => \E i \in DOMAIN s.found : s.found[i] = p
    BY <1>1, <1>2, <1>3, <2>1 DEF Finds
  <2>4. \A i \in DOMAIN s.found : Dist(s.found[i]) \in Nat
    BY <1>1, <1>2, DistProperties
  <2>5. CASE is_port_available(s.port)
    <3>1. /\ r.found = Append(s.found, s.port)
          /\ DOMAIN r.found = 1..(Len(s.found) + 1)
          /\ \A i \in 1..Len(s.found) : r.found[i] = s.found[i]
          /\ r.found[Len(s.found) + 1] = s.port
      BY <1>1, <1>4, <1>8, <2>5
    <3>2. s.port \in r.ever
      BY <1>1, <1>3, <1>4, <1>8, <2>5 DEF Available
    <3>3. ASSUME NEW i \in DOMAIN r.found, NEW j \in DOMAIN r.found, i < j
          PROVE  Dist(r.found[i]) < Dist(r.found[j])
      <4>1. i \in DOMAIN s.found /\ r.found[i] = s.found[i]
        BY <1>1, <3>1, <3>3
      <4>2. CASE j \in DOMAIN s.found
        BY <1>1, <2>3, <3>1, <3>3, <4>1, <4>2
      <4>3. CASE j = Len(s.found) + 1
        BY <2>2, <2>3, <3>1, <4>1, <4>3
      <4> QED BY <1>1, <3>1, <4>2, <4>3
    <3>4. ASSUME NEW i \in DOMAIN r.found
          PROVE  r.found[i] \in r.ever /\ Dist(r.found[i]) < r.probes
      <4>1. CASE i \in DOMAIN s.found
        BY <1>1, <1>4, <1>8, <2>1, <2>3, <2>4, <3>1, <4>1
      <4>2. CASE i = Len(s.found) + 1
        BY <2>1, <2>2, <3>1, <3>2, <4>2
      <4> QED BY <1>1, <3>1, <4>1, <4>2
    <3>5. ASSUME NEW p \in r.calm, Dist(p) < r.probes
          PROVE  \E i \in DOMAIN r.found : r.found[i] = p
      <4>1. p \in Port /\ p \in s.calm /\ Dist(p) \in Nat
        BY <1>1, <1>2, <1>4, <1>8, DistProperties
      <4>2. CASE p = s.port
        BY <1>1, <3>1, <4>2
      <4>3. CASE p # s.port
        <5>1. Dist(p) < s.probes
          BY <1>1, <2>1, <2>2, <3>5, <4>1, <4>3, DistProperties
        <5>2. PICK i \in DOMAIN s.found : s.found[i] = p
          BY <2>3, <4>1, <5>1
        <5> QED BY <1>1, <3>1, <5>2
      <4> QED BY <4>2, <4>3
    <3> QED BY <3>3, <3>4, <3>5 DEF Finds
  <2>6. CASE ~is_port_available(s.port)
    <3>1. r.found = s.found /\ r.calm = s.calm /\ r.ever = s.ever
      BY <1>4, <1>8, <2>6
    <3>2. s.port \notin s.calm
      BY <1>3, <2>6 DEF Available
    <3>3. ASSUME NEW p \in s.calm, Dist(p) < r.probes
          PROVE  \E i \in DOMAIN s.found : s.found[i] = p
      <4>1. p \in Port /\ p # s.port /\ Dist(p) \in Nat
        BY <1>1, <1>2, <3>2, DistProperties
      <4>2. Dist(p) < s.probes
        BY <1>1, <2>1, <2>2, <3>3, <4>1, DistProperties
      <4> QED BY <2>3, <4>2
    <3>4. \A i \in DOMAIN s.found : Dist(s.found[i]) < r.probes
      BY <2>1, <2>3, <2>4
    <3> QED BY <2>3, <3>1, <3>3, <3>4 DEF Finds
  <2> QED BY <2>5, <2>6
<1>12. Short(r)
  <2>1. r.at = "scanning" => Len(r.found) < r.want
    <3>1. Len(s.found) < s.want
      BY <1>3 DEF Short
    <3>2. Len(t.found) \in Nat /\ Len(t.found) <= Len(s.found) + 1
      BY <1>5
    <3> QED BY <1>1, <1>4, <1>8, <3>1, <3>2
  <2>2. ASSUME r.probes > PortCount PROVE Cardinality(r.calm) < r.want
    <3>1. CASE s.probes > PortCount
      BY <1>3, <1>4, <1>8, <3>1 DEF Short
    <3>2. CASE s.probes = PortCount
      <4>1. s.calm \subseteq ToSet(s.found)
        <5> SUFFICES ASSUME NEW p \in s.calm
                     PROVE  \E i \in DOMAIN s.found : s.found[i] = p
          BY DEF ToSet
        <5>1. Dist(p) < s.probes
          BY <1>1, <1>2, <3>2, DistProperties
        <5> QED BY <1>2, <1>3, <3>2, <5>1 DEF Finds
      <4>2. /\ IsFiniteSet(ToSet(s.found))
            /\ Cardinality(ToSet(s.found)) <= Len(s.found)
        BY <1>1, ListCardinality
      <4>3. /\ IsFiniteSet(s.calm)
            /\ Cardinality(s.calm) <= Cardinality(ToSet(s.found))
        BY <4>1, <4>2, FS_Subset
      <4>4. Cardinality(s.calm) \in Nat /\ Cardinality(ToSet(s.found)) \in Nat
        BY <4>2, <4>3, FS_CardinalityType
      <4>5. Len(s.found) < s.want
        BY <1>3 DEF Short
      <4>6. Cardinality(s.calm) < s.want
        BY <1>1, <4>2, <4>3, <4>4, <4>5
      <4> QED BY <1>4, <1>8, <4>6
    <3> QED BY <1>1, <1>2, <1>4, <1>8, <2>2, <3>1, <3>2 DEF Count
  <2> QED BY <2>1, <2>2 DEF Short
<1> QED BY <1>8, <1>9, <1>10, <1>11, <1>12 DEF ScanOK, r, t

\* The beginning of a scan for n ports, and a scan not begun.
LEMMA BegunOK ==
  ASSUME NEW n \in 1..InstancesCount, NEW at \in {"idle", "scanning"},
         NEW free \in SUBSET Port, NEW now, at = "scanning" => now = free
  PROVE  ScanOK(Entered(at, n, free), now)
<1> DEFINE s == Entered(at, n, free)
<1>1. /\ <<>> \in Seq(Port) /\ DOMAIN <<>> = {} /\ Len(<<>>) = 0
  BY EmptySeq
<1>2. PortCount \in Nat /\ PortCount > 0 /\ BasePort \in Port /\ n \in Nat /\ n > 0
  BY PortAssumption, InstancesAssumption DEF Port
<1>3. /\ s.at = at /\ s.want = n /\ s.port = BasePort /\ s.found = <<>>
      /\ s.probes = 0 /\ s.calm = free /\ s.ever = free /\ s \in Scan
  BY <1>1, <1>2 DEF Scan, Entered
<1> HIDE DEF s
<1>4. PortFollows(s) /\ Short(s)
  BY <1>1, <1>2, <1>3, PortAssumption DEF PortFollows, Short
<1>5. FreeNow(s, now)
  BY <1>3 DEF FreeNow
<1>6. Finds(s)
  <2>1. \A p \in free : ~(Dist(p) < 0)
    BY <1>2, DistProperties
  <2> QED BY <1>1, <1>3, <2>1 DEF Finds
<1> QED BY <1>3, <1>4, <1>5, <1>6 DEF ScanOK, s

\* What others do to the ports leaves a scan right about what it found.
LEMMA NoticedOK ==
  ASSUME NEW s, NEW free, NEW now \in SUBSET Port, ScanOK(s, free)
  PROVE  ScanOK(IF s.at = "scanning"
                THEN [s EXCEPT !.calm = @ \cap now, !.ever = @ \cup now]
                ELSE s, now)
<1>0. CASE s.at # "scanning"
  BY <1>0 DEF ScanOK, FreeNow
<1> SUFFICES ASSUME s.at = "scanning"
             PROVE  ScanOK([s EXCEPT !.calm = @ \cap now, !.ever = @ \cup now], now)
  BY <1>0
<1> DEFINE t == [s EXCEPT !.calm = @ \cap now, !.ever = @ \cup now]
<1>1. s \in Scan /\ s.calm \subseteq Port /\ s.ever \subseteq Port /\ s.want \in Nat
  BY ScanFields, InstancesAssumption DEF ScanOK
<1>2. /\ t \in Scan /\ t.at = s.at /\ t.want = s.want /\ t.port = s.port
      /\ t.found = s.found /\ t.probes = s.probes /\ t.ever = s.ever \cup now
      /\ t.calm = s.calm \cap now
  BY <1>1 DEF Scan
<1> HIDE DEF t
<1>3. Cardinality(s.calm) < s.want => Cardinality(t.calm) < t.want
  <2>1. IsFiniteSet(s.calm)
    <3>1. IsFiniteSet(Port)
      BY PortAssumption, FS_Interval DEF Port
    <3> QED BY <1>1, <3>1, FS_Subset
  <2>2. Cardinality(t.calm) <= Cardinality(s.calm) /\ IsFiniteSet(t.calm)
    BY <1>2, <2>1, FS_Subset
  <2>3. Cardinality(s.calm) \in Nat /\ Cardinality(t.calm) \in Nat
    BY <2>1, <2>2, FS_CardinalityType
  <2> QED BY <1>1, <1>2, <2>2, <2>3
<1>4. Short(t)
  BY <1>2, <1>3 DEF ScanOK, Short
<1>5. PortFollows(t) /\ Finds(t)
  BY <1>2 DEF ScanOK, PortFollows, Finds
<1>6. FreeNow(t, now)
  BY <1>2 DEF FreeNow
<1> QED BY <1>2, <1>4, <1>5, <1>6 DEF ScanOK, t

-----------------------------------------------------------------------------
LEMMA ScanInvInit == Init => ScanInv
<1> SUFFICES ASSUME Init PROVE ScanInv
  OBVIOUS
<1>1. ScanOK(Idle, Available)
  <2>1. 1 \in 1..InstancesCount /\ {} \in SUBSET Port
    BY InstancesAssumption
  <2>2. ScanOK(Entered("idle", 1, {}), Available)
    BY <2>1, BegunOK
  <2> QED BY <2>2 DEF Idle
<1> QED BY <1>1 DEF Init, ScanInv

LEMMA ScanInvStep == ScanInv /\ [Next]_vars => ScanInv'
<1> SUFFICES ASSUME ScanInv, [Next]_vars PROVE ScanInv'
  OBVIOUS
<1>1. \A b \in Scanners : ScanOK(scan[b], Available)
  BY DEF ScanInv
<1>2. UNCHANGED <<connect_addr, used, refused>> => Available' = Available
  BY DEF Available, is_port_available
<1>3. ASSUME NEW b \in Scanners, NEW s, UNCHANGED <<connect_addr, used, refused>>,
             scan' = [scan EXCEPT ![b] = s], ScanOK(s, Available)
      PROVE  ScanInv'
  BY <1>2, <1>3 DEF ScanInv
<1>4. ASSUME NEW b \in Scanners, Begin(b) PROVE ScanInv'
  <2> PICK n \in {1, InstancesCount} :
         scan' = [scan EXCEPT ![b] = Entered("scanning", n, Available)]
    BY <1>4 DEF Begin
  <2>1. n \in 1..InstancesCount /\ Available \in SUBSET Port
    BY InstancesAssumption DEF Available
  <2>2. ScanOK(Entered("scanning", n, Available), Available)
    BY <2>1, BegunOK
  <2> QED BY <1>3, <1>4, <2>2 DEF Begin
<1>5. ASSUME NEW b \in Scanners, Probe(b) PROVE ScanInv'
  <2> DEFINE t == Probed(scan[b])
             s == IF Len(t.found) = t.want THEN [t EXCEPT !.at = "found"] ELSE t
  <2>1. /\ scan[b].at = "scanning" /\ scan' = [scan EXCEPT ![b] = s]
        /\ UNCHANGED <<connect_addr, used, refused>>
    BY <1>5 DEF Probe
  <2>2. ScanOK(s, Available)
    BY <1>1, <2>1, ProbedOK
  <2> QED BY <1>3, <2>1, <2>2
<1>6. CASE Noticed
  <2> DEFINE seen(s) == IF s.at = "scanning"
                        THEN [s EXCEPT !.calm = @ \cap Available',
                                       !.ever = @ \cup Available']
                        ELSE s
  <2>1. \A b \in Scanners : ScanOK(seen(scan[b]), Available')
    <3>1. Available' \in SUBSET Port
      BY DEF Available
    <3> QED BY <1>1, <3>1, NoticedOK
  <2>2. scan' = [b \in Scanners |-> seen(scan[b])]
    BY <1>6 DEF Noticed
  <2> HIDE DEF seen
  <2> QED BY <2>1, <2>2 DEF ScanInv
<1>7. CASE LookUp \/ UNCHANGED vars
  <2>1. UNCHANGED <<connect_addr, used, refused, scan>>
    BY <1>7 DEF LookUp, vars
  <2> QED BY <1>2, <2>1 DEF ScanInv
<1> QED BY <1>4, <1>5, <1>6, <1>7 DEF Next, Listen, Others

LEMMA ScanInvHolds == Spec => []ScanInv
BY ScanInvInit, ScanInvStep, PTL DEF Spec

-----------------------------------------------------------------------------
(* The theorems about scans.                                               *)

\* Until it comes round, a scan has found ports in ascending order, each available at
\* some time since it began, and has passed over none that stayed so
\* (ScanFinds; find_available_addresses): for every number of scans and
\* whatever ports are taken and released meanwhile.
THEOREM ScansFind == Spec => []ScanFinds
<1>1. ScanInv => ScanFinds
  BY DEF ScanInv, ScanOK, Finds, ScanFinds
<1> QED BY <1>1, ScanInvHolds, PTL

\* A scan comes round only if fewer ports stayed available than it was asked for
\* (RoundOnlyIfFull): with that many available no number is found twice, and
\* the u16 does not overflow twice.
THEOREM RoundsOnlyIfFull == Spec => []RoundOnlyIfFull
<1>1. ScanInv => RoundOnlyIfFull
  BY DEF ScanInv, ScanOK, Short, RoundOnlyIfFull
<1> QED BY <1>1, ScanInvHolds, PTL

-----------------------------------------------------------------------------
(* Unix sockets: the number that is free.                                  *)

\* The library's well-foundedness of <, over sets.
LEMMA LeastNumber ==
  ASSUME NEW T, T \subseteq Nat, T # {}
  PROVE  \E i \in T : \A j \in T : i <= j
<1>1. PICK i \in T : \A j \in T : ~(<<j, i>> \in OpToRel(<, Nat))
  BY WFMin, NatLessThanWellFounded
<1>2. ASSUME NEW j \in T, j < i PROVE FALSE
  <2>1. <<j, i>> \in Nat \X Nat /\ <<j, i>>[1] < <<j, i>>[2]
    BY <1>2
  <2>2. <<j, i>> \in OpToRel(<, Nat)
    BY <2>1 DEF OpToRel
  <2> QED BY <1>1, <2>2
<1> QED BY <1>2

\* Every number has a place of its own, and the order is that of the places.
LEMMA PlaceProperties ==
  ASSUME NEW s \in Seq(Nat)
  PROVE  /\ \A i \in DOMAIN s : Place(s, i) \in DOMAIN s
         /\ \A i, j \in DOMAIN s : Place(s, i) = Place(s, j) => i = j
         /\ \A i, j \in DOMAIN s : Place(s, i) < Place(s, j) => s[i] <= s[j]
         /\ \A k \in DOMAIN s : \E i \in DOMAIN s : Place(s, i) = k
<1>1. /\ DOMAIN s = 1..Len(s) /\ Len(s) \in Nat
      /\ \A i \in DOMAIN s : i \in Nat /\ s[i] \in Nat
  OBVIOUS
<1>2. IsFiniteSet(DOMAIN s) /\ Cardinality(DOMAIN s) = Len(s)
  <2>1. IsFiniteSet(1..Len(s))
        /\ Cardinality(1..Len(s)) = IF 1 > Len(s) THEN 0 ELSE Len(s) - 1 + 1
    BY <1>1, FS_Interval
  <2>2. (IF 1 > Len(s) THEN 0 ELSE Len(s) - 1 + 1) = Len(s)
    BY <1>1
  <2> QED BY <1>1, <2>1, <2>2
<1> DEFINE Before(i) == {j \in DOMAIN s : s[j] < s[i] \/ (s[j] = s[i] /\ j <= i)}
<1>3. ASSUME NEW i \in DOMAIN s
      PROVE  /\ IsFiniteSet(Before(i)) /\ i \in Before(i)
             /\ Place(s, i) = Cardinality(Before(i))
             /\ Place(s, i) \in Nat /\ Place(s, i) \in DOMAIN s
  <2>1. Before(i) \in SUBSET DOMAIN s /\ i \in Before(i)
    BY <1>1
  <2>2. Place(s, i) = Cardinality(Before(i))
    BY DEF Place
  <2> HIDE DEF Before
  <2>3. IsFiniteSet(Before(i)) /\ Cardinality(Before(i)) <= Len(s)
    BY <1>2, <2>1, FS_Subset
  <2>4. Cardinality(Before(i)) \in Nat /\ Cardinality(Before(i)) # 0
    BY <2>1, <2>3, FS_CardinalityType, FS_EmptySet
  <2> QED BY <1>1, <2>1, <2>2, <2>3, <2>4
<1>4. ASSUME NEW i \in DOMAIN s, NEW j \in DOMAIN s,
             s[i] < s[j] \/ (s[i] = s[j] /\ i < j)
      PROVE  Place(s, i) < Place(s, j)
  <2>1. Before(i) \in SUBSET Before(j) /\ j \notin Before(i)
    BY <1>1, <1>4
  <2> HIDE DEF Before
  <2>2. /\ Cardinality(Before(i)) <= Cardinality(Before(j))
        /\ Cardinality(Before(i)) # Cardinality(Before(j))
    BY <1>3, <2>1, FS_Subset
  <2> QED BY <1>3, <2>2
<1> HIDE DEF Before
<1>5. ASSUME NEW i \in DOMAIN s, NEW j \in DOMAIN s
      PROVE  /\ Place(s, i) = Place(s, j) => i = j
             /\ Place(s, i) < Place(s, j) => s[i] <= s[j]
  <2>1. Place(s, i) \in Nat /\ Place(s, j) \in Nat
    BY <1>3
  <2>2. i = j \/ (s[i] < s[j] \/ (s[i] = s[j] /\ i < j))
              \/ (s[j] < s[i] \/ (s[j] = s[i] /\ j < i))
    BY <1>1
  <2>3. (s[j] < s[i] \/ (s[j] = s[i] /\ j < i)) => Place(s, j) < Place(s, i)
    BY <1>4
  <2>4. (s[i] < s[j] \/ (s[i] = s[j] /\ i < j)) => Place(s, i) < Place(s, j)
    BY <1>4
  <2>5. Place(s, i) = Place(s, j) => i = j
    BY <2>1, <2>2, <2>3, <2>4
  <2>6. Place(s, i) < Place(s, j) => s[i] <= s[j]
    BY <1>1, <2>1, <2>2, <2>3
  <2> QED BY <2>5, <2>6
<1>6. ASSUME NEW k \in DOMAIN s PROVE \E i \in DOMAIN s : Place(s, i) = k
  <2> DEFINE place == [i \in DOMAIN s |-> Place(s, i)]
  <2>1. place \in Injection(DOMAIN s, DOMAIN s)
    BY <1>3, <1>5 DEF Injection, IsInjective
  <2>2. place \in Surjection(DOMAIN s, DOMAIN s)
    BY <1>2, <2>1, FS_Injection
  <2> QED BY <2>2 DEF Surjection
<1> QED BY <1>3, <1>5, <1>6

Ascending(s) == \A i, j \in DOMAIN s : i < j => s[i] <= s[j]

LEMMA SortedProperties ==
  ASSUME NEW s \in Seq(Nat)
  PROVE  /\ Sorted(s) \in Seq(Nat) /\ Len(Sorted(s)) = Len(s)
         /\ Ascending(Sorted(s))
         /\ ToSet(Sorted(s)) = ToSet(s)
         /\ IsInjective(s) => IsInjective(Sorted(s))
<1> DEFINE At(k) == CHOOSE i \in DOMAIN s : Place(s, i) = k
           t == Sorted(s)
<1>1. /\ DOMAIN s = 1..Len(s) /\ Len(s) \in Nat
      /\ \A i \in DOMAIN s : s[i] \in Nat
  OBVIOUS
<1>2. ASSUME NEW k \in DOMAIN s PROVE At(k) \in DOMAIN s /\ Place(s, At(k)) = k
  BY PlaceProperties
<1>3. t = [k \in DOMAIN s |-> s[At(k)]]
  BY DEF Sorted
<1> HIDE DEF At, t
<1>4. /\ DOMAIN t = DOMAIN s
      /\ \A k \in DOMAIN s : t[k] = s[At(k)] /\ t[k] \in Nat
  BY <1>1, <1>2, <1>3
<1>5. t \in Seq(Nat) /\ Len(t) = Len(s)
  <2>1. t \in [1..Len(s) -> Nat]
    BY <1>1, <1>3, <1>4
  <2>2. t \in Seq(Nat)
    BY <1>1, <2>1, SeqDef
  <2> QED BY <1>1, <1>4, <2>2, LenProperties
<1>6. Ascending(t)
  <2> SUFFICES ASSUME NEW i \in DOMAIN s, NEW j \in DOMAIN s, i < j
               PROVE  t[i] <= t[j]
    BY <1>4 DEF Ascending
  <2>1. Place(s, At(i)) < Place(s, At(j)) /\ At(i) \in DOMAIN s /\ At(j) \in DOMAIN s
    BY <1>2
  <2> QED BY <1>4, <2>1, PlaceProperties
<1>7. ToSet(t) = ToSet(s)
  <2>1. ASSUME NEW i \in DOMAIN s PROVE \E k \in DOMAIN t : t[k] = s[i]
    <3>1. Place(s, i) \in DOMAIN s
      BY PlaceProperties
    <3>2. At(Place(s, i)) = i
      BY <1>2, <3>1, PlaceProperties
    <3> QED BY <1>4, <3>1, <3>2
  <2>2. ASSUME NEW k \in DOMAIN t PROVE \E i \in DOMAIN s : s[i] = t[k]
    BY <1>2, <1>4
  <2> QED BY <2>1, <2>2 DEF ToSet
<1>8. IsInjective(s) => IsInjective(t)
  <2> SUFFICES ASSUME IsInjective(s), NEW i \in DOMAIN s, NEW j \in DOMAIN s, t[i] = t[j]
               PROVE  i = j
    BY <1>4 DEF IsInjective
  <2>1. At(i) = At(j)
    BY <1>2, <1>4 DEF IsInjective
  <2> QED BY <1>2, <2>1
<1> QED BY <1>5, <1>6, <1>7, <1>8 DEF t

LEMMA LoopEndProperties ==
  ASSUME NEW s \in Seq(Nat)
  PROVE  /\ LoopEnd(s) \in 1..(Len(s) + 1)
         /\ LoopEnd(s) <= Len(s) => s[LoopEnd(s)] > LoopEnd(s)
         /\ \A i \in 1..(LoopEnd(s) - 1) : s[i] <= i
<1>1. /\ DOMAIN s = 1..Len(s) /\ Len(s) \in Nat
      /\ \A i \in DOMAIN s : s[i] \in Nat
  OBVIOUS
<1> DEFINE T == {p \in 1..(Len(s) + 1) : p <= Len(s) => s[p] > p}
<1>2. T \subseteq Nat /\ T # {}
  <2>1. Len(s) + 1 \in T
    BY <1>1
  <2> QED BY <2>1
<1>3. PICK p \in T : \A q \in T : p <= q
  <2> HIDE DEF T
  <2> QED BY <1>2, LeastNumber
<1>4. /\ p \in 1..(Len(s) + 1) /\ (p <= Len(s) => s[p] > p)
      /\ \A i \in 1..(p - 1) : s[i] <= i
  <2>1. ASSUME NEW i \in 1..(p - 1), ~(s[i] <= i) PROVE FALSE
    <3>1. i \in 1..Len(s) /\ s[i] > i /\ i < p
      BY <1>1, <2>1
    <3> QED BY <1>1, <1>3, <3>1
  <2> QED BY <2>1
<1> QED BY <1>4 DEF LoopEnd

\* The number is positive and not among the given ones; and if those are distinct
\* and positive, all numbers below it are.
LEMMA FreeNumber ==
  ASSUME NEW s \in Seq(Nat)
  PROVE  LET m == find_min_not_occupied(s) IN
         /\ m \in Nat /\ m >= 1 /\ m \notin ToSet(s)
         /\ IsInjective(s) /\ 0 \notin ToSet(s) => 1..(m - 1) \subseteq ToSet(s)
<1> DEFINE t == Sorted(s)
           m == LoopEnd(t)
<1>1. find_min_not_occupied(s) = m
  BY DEF find_min_not_occupied
<1>2. /\ t \in Seq(Nat) /\ Len(t) = Len(s) /\ Ascending(t) /\ ToSet(t) = ToSet(s)
      /\ IsInjective(s) => IsInjective(t)
  BY SortedProperties
<1> HIDE DEF t
<1>3. /\ m \in 1..(Len(t) + 1)
      /\ m <= Len(t) => t[m] > m
      /\ \A i \in 1..(m - 1) : t[i] <= i
  BY <1>2, LoopEndProperties
<1> HIDE DEF m
<1>4. /\ DOMAIN t = 1..Len(t) /\ Len(t) \in Nat /\ m \in Nat /\ m >= 1
      /\ \A i \in DOMAIN t : t[i] \in Nat
  BY <1>2, <1>3
<1>5. m \notin ToSet(t)
  <2> SUFFICES ASSUME NEW i \in DOMAIN t, t[i] = m PROVE FALSE
    BY DEF ToSet
  <2>1. CASE i < m
    BY <1>3, <1>4, <2>1
  <2>2. CASE i = m
    BY <1>3, <1>4, <2>2
  <2>3. CASE i > m
    <3>1. m \in DOMAIN t /\ t[m] > m /\ t[m] <= t[i]
      BY <1>2, <1>3, <1>4, <2>3 DEF Ascending
    <3> QED BY <1>4, <3>1
  <2> QED BY <1>4, <2>1, <2>2, <2>3
<1>6. ASSUME IsInjective(t), 0 \notin ToSet(t) PROVE 1..(m - 1) \subseteq ToSet(t)
  <2> DEFINE D == 1..(m - 1)
             f == [i \in D |-> t[i]]
  <2>1. IsFiniteSet(D)
    BY <1>4, FS_Interval
  <2>2. D \subseteq DOMAIN t
    BY <1>3, <1>4
  <2>3. \A i \in D : t[i] \in D
    <3> SUFFICES ASSUME NEW i \in D PROVE t[i] \in D
      OBVIOUS
    <3>1. t[i] # 0 /\ t[i] \in Nat
      BY <1>4, <1>6, <2>2 DEF ToSet
    <3>2. t[i] <= i
      BY <1>3
    <3> QED BY <1>4, <3>1, <3>2
  <2> HIDE DEF D
  <2>4. f \in Injection(D, D)
    BY <1>6, <2>2, <2>3 DEF Injection, IsInjective
  <2>5. f \in Surjection(D, D)
    BY <2>1, <2>4, FS_Injection
  <2>6. \A n \in D : \E i \in D : f[i] = n
    BY <2>5 DEF Surjection
  <2>7. D \subseteq ToSet(t)
    BY <2>2, <2>6 DEF ToSet
  <2> QED BY <2>7 DEF D
<1> QED BY <1>1, <1>2, <1>4, <1>5, <1>6

-----------------------------------------------------------------------------
(* Unix sockets: the list of numbers.                                      *)

\* What is to be shown of the list after n turns of the loop.
Numbered(listing, s, n) ==
    /\ s \in Seq(Nat) /\ Len(s) = Len(listing) + n
    /\ \A i \in 1..Len(listing) : s[i] = listing[i]
    /\ \A i \in (Len(listing) + 1)..Len(s) :
          /\ s[i] >= 1
          /\ \A j \in 1..(i - 1) : s[j] # s[i]
          /\ IsInjective(listing) /\ 0 \notin ToSet(listing) =>
                \A m \in 1..(s[i] - 1) : \E j \in 1..(i - 1) : s[j] = m

Longer(s) == Append(s, find_min_not_occupied(s))

\* One turn.
LEMMA LongerNumbered ==
  ASSUME NEW listing \in Seq(Nat), NEW n \in Nat, NEW s, Numbered(listing, s, n)
  PROVE  Numbered(listing, Longer(s), n + 1)
<1> DEFINE l == Len(listing)
           t == Longer(s)
           m == find_min_not_occupied(s)
           Good == IsInjective(listing) /\ 0 \notin ToSet(listing)
<1>1. /\ l \in Nat /\ DOMAIN listing = 1..l
      /\ s \in Seq(Nat) /\ Len(s) = l + n /\ DOMAIN s = 1..(l + n)
      /\ \A i \in 1..(l + n) : s[i] \in Nat
      /\ \A i \in 1..l : listing[i] \in Nat
  BY DEF Numbered
<1>2. /\ \A i \in 1..l : s[i] = listing[i]
      /\ \A i \in (l + 1)..(l + n) :
            /\ s[i] >= 1
            /\ \A j \in 1..(i - 1) : s[j] # s[i]
            /\ Good => \A k \in 1..(s[i] - 1) : \E j \in 1..(i - 1) : s[j] = k
  BY <1>1 DEF Numbered
<1>3. /\ m \in Nat /\ m >= 1 /\ m \notin ToSet(s)
      /\ IsInjective(s) /\ 0 \notin ToSet(s) => 1..(m - 1) \subseteq ToSet(s)
  BY <1>1, FreeNumber
<1> HIDE DEF m
<1>4. /\ t \in Seq(Nat) /\ Len(t) = l + n + 1
      /\ \A i \in 1..(l + n) : t[i] = s[i]
      /\ t[l + n + 1] = m
  <2>1. t = Append(s, m)
    BY DEF Longer, m
  <2> HIDE DEF t
  <2>2. /\ t \in Seq(Nat) /\ Len(t) = Len(s) + 1
        /\ \A i \in 1..Len(s) : t[i] = s[i]
        /\ t[Len(s) + 1] = m
    <3>1. s \in Seq(Nat) /\ m \in Nat
      BY <1>1, <1>3
    <3> QED BY <2>1, <3>1, AppendProperties
  <2> QED BY <1>1, <2>2
<1> HIDE DEF t
<1>5. ASSUME Good
      PROVE  IsInjective(s) /\ 0 \notin ToSet(s)
  <2>1. ASSUME NEW i \in 1..(l + n), NEW j \in 1..(l + n), j < i PROVE s[j] # s[i]
    <3>1. CASE i \in 1..l
      <4>1. i \in 1..l /\ j \in 1..l /\ i # j
        BY <1>1, <2>1, <3>1
      <4>2. listing[i] # listing[j]
        BY <1>1, <1>5, <4>1 DEF IsInjective
      <4> QED BY <1>2, <4>1, <4>2
    <3>2. CASE i \in (l + 1)..(l + n)
      BY <1>1, <1>2, <2>1, <3>2
    <3> QED BY <1>1, <3>1, <3>2
  <2>2. IsInjective(s)
    <3> SUFFICES ASSUME NEW i \in 1..(l + n), NEW j \in 1..(l + n), s[i] = s[j], i # j
                 PROVE  FALSE
      BY <1>1 DEF IsInjective
    <3>1. i < j \/ j < i
      OBVIOUS
    <3> QED BY <2>1, <3>1
  <2>3. ASSUME NEW i \in 1..(l + n) PROVE s[i] # 0
    <3>1. CASE i \in 1..l
      BY <1>1, <1>2, <1>5, <3>1 DEF ToSet
    <3>2. CASE i \in (l + 1)..(l + n)
      BY <1>1, <1>2, <3>2
    <3> QED BY <1>1, <3>1, <3>2
  <2> QED BY <1>1, <2>2, <2>3 DEF ToSet
<1>6. ASSUME NEW i \in (l + 1)..(l + n + 1)
      PROVE  /\ t[i] >= 1
             /\ \A j \in 1..(i - 1) : t[j] # t[i]
             /\ Good => \A k \in 1..(t[i] - 1) : \E j \in 1..(i - 1) : t[j] = k
  <2>1. CASE i \in (l + 1)..(l + n)
    <3>1. i \in 1..(l + n) /\ t[i] = s[i] /\ \A j \in 1..(i - 1) : t[j] = s[j]
      BY <1>1, <1>4, <2>1
    <3>2. /\ s[i] >= 1
          /\ \A j \in 1..(i - 1) : s[j] # s[i]
          /\ Good => \A k \in 1..(s[i] - 1) : \E j \in 1..(i - 1) : s[j] = k
      BY <1>2, <2>1
    <3> HIDE DEF Good
    <3>3. Good => \A k \in 1..(t[i] - 1) : \E j \in 1..(i - 1) : t[j] = k
      BY <3>1, <3>2
    <3> QED BY <3>1, <3>2, <3>3
  <2>2. CASE i = l + n + 1
    <3>1. t[i] = m /\ 1..(i - 1) = 1..(l + n) /\ \A j \in 1..(l + n) : t[j] = s[j]
      BY <1>1, <1>4, <2>2
    <3>2. \A j \in 1..(l + n) : s[j] # m
      BY <1>1, <1>3 DEF ToSet
    <3>3. Good => \A k \in 1..(m - 1) : \E j \in 1..(l + n) : s[j] = k
      BY <1>1, <1>3, <1>5 DEF ToSet
    <3> HIDE DEF Good
    <3> QED BY <1>3, <3>1, <3>2, <3>3
  <2> QED BY <1>1, <2>1, <2>2
<1>7. \A i \in 1..l : t[i] = listing[i]
  BY <1>1, <1>2, <1>4
<1>8. Len(t) = l + (n + 1)
  BY <1>1, <1>4
<1>9. l + n + 1 = Len(t)
  BY <1>1, <1>4
<1> QED BY <1>4, <1>6, <1>7, <1>8, <1>9 DEF Numbered, t

\* The loop as a function of its turns.
Turns(f, listing, count) ==
    f = [n \in 0..count |-> IF n = 0 THEN listing ELSE Longer(f[n - 1])]

LEMMA TurnsExist ==
  ASSUME NEW listing, NEW count \in Nat
  PROVE  \E f : Turns(f, listing, count)
<1> DEFINE T == {n \in Nat : ~ \E f : Turns(f, listing, n)}
<1> SUFFICES ASSUME T # {} PROVE FALSE
  OBVIOUS
<1>1. PICK n \in T : \A k \in T : n <= k
  <2>1. T \subseteq Nat
    OBVIOUS
  <2> HIDE DEF T
  <2> QED BY <2>1, LeastNumber
<1>2. n # 0
  <2> DEFINE f == [k \in 0..0 |-> listing]
  <2>1. Turns(f, listing, 0)
    BY DEF Turns
  <2> QED BY <1>1, <2>1
<1>3. PICK f : Turns(f, listing, n - 1)
  <2>1. n - 1 \in Nat /\ ~(n <= n - 1)
    BY <1>1, <1>2
  <2> QED BY <1>1, <2>1
<1> DEFINE g == [k \in 0..n |-> IF k = n THEN Longer(f[n - 1]) ELSE f[k]]
<1>4. Turns(g, listing, n)
  <2>1. n \in Nat \ {0}
    BY <1>1, <1>2
  <2>2. ASSUME NEW k \in 0..n
        PROVE  g[k] = IF k = 0 THEN listing ELSE Longer(g[k - 1])
    <3>1. CASE k = n
      BY <2>1, <3>1
    <3>2. CASE k # n
      <4>1. k \in 0..(n - 1) /\ g[k] = f[k] /\ (k # 0 => g[k - 1] = f[k - 1])
        BY <2>1, <3>2
      <4>2. f[k] = IF k = 0 THEN listing ELSE Longer(f[k - 1])
        BY <1>3, <4>1 DEF Turns
      <4> QED BY <4>1, <4>2
    <3> QED BY <3>1, <3>2
  <2>3. g = [k \in 0..n |-> g[k]]
    OBVIOUS
  <2> HIDE DEF g
  <2> QED BY <2>2, <2>3 DEF Turns
<1> QED BY <1>1, <1>4

LEMMA TurnsNumbered ==
  ASSUME NEW listing \in Seq(Nat), NEW count \in Nat, NEW f, Turns(f, listing, count)
  PROVE  \A n \in 0..count : Numbered(listing, f[n], n)
<1> DEFINE T == {n \in 0..count : ~Numbered(listing, f[n], n)}
<1> SUFFICES ASSUME T # {} PROVE FALSE
  OBVIOUS
<1>1. PICK n \in T : \A k \in T : n <= k
  <2>1. T \subseteq Nat
    OBVIOUS
  <2> HIDE DEF T
  <2> QED BY <2>1, LeastNumber
<1>2. n # 0
  <2>1. f[0] = listing
    BY DEF Turns
  <2>2. Numbered(listing, listing, 0)
    BY DEF Numbered
  <2> QED BY <1>1, <2>1, <2>2
<1>3. n - 1 \in 0..count /\ n - 1 \in Nat /\ n \in 0..count /\ ~(n <= n - 1)
      /\ (n - 1) + 1 = n
  BY <1>1, <1>2
<1>4. Numbered(listing, f[n - 1], n - 1)
  BY <1>1, <1>3
<1>5. f[n] = Longer(f[n - 1])
  BY <1>2, <1>3 DEF Turns
<1>6. Numbered(listing, f[n], n)
  BY <1>3, <1>4, <1>5, LongerNumbered
<1> QED BY <1>1, <1>6

LEMMA SockIndicesNumbered ==
  ASSUME NEW listing \in Seq(Nat), NEW count \in Nat
  PROVE  Numbered(listing, SockIndices(listing, count), count)
<1> DEFINE f == CHOOSE f : Turns(f, listing, count)
<1>1. Turns(f, listing, count)
  BY TurnsExist
<1>2. SockIndices(listing, count) = f[count]
  BY DEF SockIndices, Turns, Longer
<1> HIDE DEF f
<1> QED BY <1>1, <1>2, TurnsNumbered

\* What a lookup leaves behind.
LookedOK ==
    /\ looked.use \in {"run", "single", "check"}
    /\ looked.listing \in Seq(Nat)
    /\ \E s : /\ Numbered(looked.listing, s,
                          IF looked.use = "run" THEN InstancesCount ELSE 1)
             /\ looked = [use |-> looked.use, listing |-> looked.listing,
                          addrs |-> Handed(looked.use, s)]

LEMMA HandedIs ==
  ASSUME NEW s \in Seq(Nat), s # <<>>
  PROVE  /\ Handed("run", s) = s
         /\ Handed("single", s) = <<s[Len(s)]>>
         /\ Handed("check", s) = <<s[1]>>
         /\ \A use \in {"run", "single", "check"} : Handed(use, s) \in Seq(Nat)
<1>1. Len(s) \in Nat \ {0} /\ s[Len(s)] \in Nat /\ s[1] \in Nat
  BY EmptySeq
<1>2. Last(s) = s[Len(s)] /\ Head(s) = s[1]
  BY <1>1 DEF Last
<1>3. /\ Handed("run", s) = s
      /\ Handed("single", s) = <<s[Len(s)]>>
      /\ Handed("check", s) = <<s[1]>>
  BY <1>2 DEF Handed
<1>4. <<s[Len(s)]>> \in Seq(Nat) /\ <<s[1]>> \in Seq(Nat)
  BY <1>1
<1> QED BY <1>3, <1>4

LEMMA LookedFresh == LookedOK => looked \in Lookup /\ SocketsFresh
<1> SUFFICES ASSUME LookedOK PROVE looked \in Lookup /\ SocketsFresh
  OBVIOUS
<1> DEFINE listing == looked.listing
           l == Len(listing)
           count == IF looked.use = "run" THEN InstancesCount ELSE 1
<1>1. PICK s : /\ Numbered(listing, s, count)
               /\ looked = [use |-> looked.use, listing |-> listing,
                            addrs |-> Handed(looked.use, s)]
  BY DEF LookedOK
<1>2. /\ looked.use \in {"run", "single", "check"} /\ listing \in Seq(Nat)
      /\ l \in Nat /\ DOMAIN listing = 1..l /\ count \in Nat \ {0}
  BY InstancesAssumption DEF LookedOK
<1>3. /\ s \in Seq(Nat) /\ Len(s) = l + count /\ DOMAIN s = 1..(l + count)
      /\ \A i \in 1..l : s[i] = listing[i]
      /\ \A i \in (l + 1)..(l + count) :
            /\ s[i] >= 1 /\ s[i] \in Nat
            /\ \A j \in 1..(i - 1) : s[j] # s[i]
            /\ IsInjective(listing) /\ 0 \notin ToSet(listing) =>
                  \A m \in 1..(s[i] - 1) : \E j \in 1..(i - 1) : s[j] = m
  <2>1. s \in Seq(Nat) /\ Len(s) = l + count
    BY <1>1 DEF Numbered
  <2>2. DOMAIN s = 1..(l + count) /\ \A i \in (l + 1)..(l + count) : s[i] \in Nat
    BY <1>2, <2>1
  <2> HIDE DEF count
  <2> QED BY <1>1, <2>1, <2>2 DEF Numbered
<1>4. /\ looked.addrs = Handed(looked.use, s) /\ s # <<>>
      /\ looked \in Lookup
  <2>1. s # <<>>
    BY <1>2, <1>3, EmptySeq
  <2>2. Handed(looked.use, s) \in Seq(Nat)
    BY <1>2, <1>3, <2>1, HandedIs
  <2> QED BY <1>1, <1>2, <2>1, <2>2 DEF Lookup
<1> DEFINE old == ToSet(listing)
           new == IF looked.use = "run"
                  THEN SubSeq(looked.addrs, Len(looked.listing) + 1, Len(looked.addrs))
                  ELSE looked.addrs
<1>5. old = {s[i] : i \in 1..l}
  <2>1. old = {listing[i] : i \in 1..l}
    BY <1>2 DEF ToSet
  <2>2. \A i \in 1..l : s[i] = listing[i]
    BY <1>3
  <2> HIDE DEF old, listing, l
  <2> QED BY <2>1, <2>2
<1> HIDE DEF count
<1>6. CASE looked.use = "check"
  BY <1>4, <1>6 DEF SocketsFresh
<1>7. ASSUME looked.use # "check",
             new \in Seq(Nat), DOMAIN new = 1..count,
             \A i \in 1..count : new[i] = s[l + i]
      PROVE  /\ IsInjective(new)
             /\ old \cap ToSet(new) = {}
             /\ (IsInjective(listing) /\ 0 \notin old) =>
                   \A n \in ToSet(new) : 1..n \subseteq old \cup ToSet(new)
  <2> HIDE DEF new, old, listing, l
  <2>1. \A i \in 1..count : /\ l + i \in (l + 1)..(l + count) /\ l + i \in Nat
                            /\ \A j \in 1..(i - 1) : l + j \in 1..(l + i - 1)
                            /\ \A j \in 1..l : j \in 1..(l + i - 1)
    BY <1>2
  <2>0. ASSUME NEW i \in 1..count
        PROVE  /\ \A j \in 1..(l + i - 1) : s[j] # s[l + i]
               /\ IsInjective(listing) /\ 0 \notin old =>
                     \A m \in 1..(s[l + i] - 1) : \E j \in 1..(l + i - 1) : s[j] = m
    <3>1. PICK k \in (l + 1)..(l + count) : k = l + i
      BY <2>1
    <3>2. /\ \A j \in 1..(k - 1) : s[j] # s[k]
          /\ IsInjective(listing) /\ 0 \notin ToSet(listing) =>
                \A m \in 1..(s[k] - 1) : \E j \in 1..(k - 1) : s[j] = m
      BY <1>3
    <3> QED BY <1>2, <3>1, <3>2 DEF old
  <2>2. IsInjective(new)
    <3> SUFFICES ASSUME NEW i \in 1..count, NEW j \in 1..count, j < i
                 PROVE  new[j] # new[i]
      <4>1. \A i, j \in 1..count : i = j \/ i < j \/ j < i
        BY <1>2
      <4> QED BY <1>7, <4>1 DEF IsInjective
    <3>1. j \in 1..(i - 1)
      BY <1>2
    <3>2. l + j \in 1..(l + i - 1) /\ new[j] = s[l + j] /\ new[i] = s[l + i]
      BY <1>7, <2>1, <3>1
    <3> QED BY <2>0, <3>2
  <2>3. old \cap ToSet(new) = {}
    <3>1. ASSUME NEW i \in 1..count, NEW j \in 1..l PROVE s[j] # new[i]
      <4>1. j \in 1..(l + i - 1) /\ new[i] = s[l + i]
        BY <1>7, <2>1
      <4> QED BY <2>0, <4>1
    <3>2. ToSet(new) = {new[i] : i \in 1..count}
      BY <1>7 DEF ToSet
    <3> QED BY <1>5, <3>1, <3>2
  <2>4. ASSUME IsInjective(listing), 0 \notin old, NEW n \in ToSet(new), NEW m \in 1..n
        PROVE  m \in old \cup ToSet(new)
    <3>1. PICK i \in 1..count : n = new[i] /\ n = s[l + i] /\ n \in Nat
      <4>1. \E i \in 1..count : n = new[i]
        BY <1>7, <2>4 DEF ToSet
      <4> QED BY <1>3, <1>7, <2>1, <4>1
    <3>2. CASE m = n
      BY <3>2
    <3>3. CASE m # n
      <4>1. m \in 1..(s[l + i] - 1)
        BY <3>1, <3>3
      <4>2. PICK j \in 1..(l + i - 1) : s[j] = m
        BY <2>0, <2>4, <4>1
      <4>3. CASE j \in 1..l
        BY <1>5, <4>2, <4>3
      <4>4. CASE j \notin 1..l
        <5>1. j - l \in 1..count /\ l + (j - l) = j
          BY <1>2, <4>4
        <5>2. new[j - l] = m
          BY <1>7, <4>2, <5>1
        <5> QED BY <1>7, <5>1, <5>2 DEF ToSet
      <4> QED BY <4>3, <4>4
    <3> QED BY <3>2, <3>3
  <2> QED BY <2>2, <2>3, <2>4
<1>8. CASE looked.use = "single"
  <2>1. looked.addrs = <<s[l + 1]>> /\ count = 1
    BY <1>3, <1>4, <1>8, HandedIs DEF count
  <2>2. s[l + 1] \in Nat
    BY <1>2, <1>3, <2>1
  <2>3. new = <<s[l + 1]>>
    BY <1>8, <2>1
  <2>4. new \in Seq(Nat) /\ DOMAIN new = 1..1 /\ \A i \in 1..1 : new[i] = s[l + i]
    <3> DEFINE x == s[l + 1]
    <3>1. x \in Nat /\ new = <<x>>
      BY <2>2, <2>3
    <3>2. \A i \in 1..1 : s[l + i] = x
      OBVIOUS
    <3> HIDE DEF x, new
    <3> QED BY <3>1, <3>2
  <2>5. /\ IsInjective(new)
        /\ old \cap ToSet(new) = {}
        /\ (IsInjective(listing) /\ 0 \notin old) =>
              \A n \in ToSet(new) : 1..n \subseteq old \cup ToSet(new)
    BY <1>7, <1>8, <2>1, <2>4
  <2> QED BY <1>4, <1>8, <2>5 DEF SocketsFresh
<1>9. CASE looked.use = "run"
  <2>1. looked.addrs = s /\ count = InstancesCount
    BY <1>3, <1>4, <1>9, HandedIs DEF count
  <2>2. new = SubSeq(s, l + 1, l + count)
    BY <1>3, <1>9, <2>1
  <2>3. /\ new \in Seq(Nat) /\ Len(new) = count
        /\ \A i \in 1..count : new[i] = s[l + i]
    <3>1. /\ l + 1 <= l + count /\ (l + count) - (l + 1) + 1 = count
          /\ \A i \in 1..count : l + 1 + i - 1 = l + i
      BY <1>2
    <3>2. \A i \in (l + 1)..(l + count) : s[i] \in Nat
      BY <1>3
    <3>3. l + 1 \in Int /\ l + count \in Int
      BY <1>2
    <3>4. /\ SubSeq(s, l + 1, l + count) \in Seq(Nat)
          /\ Len(SubSeq(s, l + 1, l + count)) =
                IF l + 1 <= l + count THEN (l + count) - (l + 1) + 1 ELSE 0
          /\ \A i \in 1..((l + count) - (l + 1) + 1) :
                SubSeq(s, l + 1, l + count)[i] = s[l + 1 + i - 1]
      BY <3>2, <3>3, SubSeqProperties
    <3> HIDE DEF new
    <3> QED BY <2>2, <3>1, <3>4
  <2>4. DOMAIN new = 1..count
    <3> HIDE DEF new
    <3> QED BY <1>2, <2>3, LenProperties
  <2>5. /\ IsInjective(new)
        /\ old \cap ToSet(new) = {}
        /\ (IsInjective(listing) /\ 0 \notin old) =>
              \A n \in ToSet(new) : 1..n \subseteq old \cup ToSet(new)
    BY <1>7, <1>9, <2>3, <2>4
  <2> QED BY <1>4, <1>9, <2>5 DEF SocketsFresh
<1> QED BY <1>2, <1>6, <1>8, <1>9

\* With the types, which the scans do not need.
SocketsInv ==
    /\ connect_addr \in {"tcp", "remote", "unix"}
    /\ used \subseteq Takeable
    /\ refused \in BOOLEAN
    /\ changes \in Nat
    /\ LookedOK

LEMMA ListingsOK == \A listing \in Listings : listing \in Seq(Nat)
<1> SUFFICES ASSUME NEW m \in 0..MaxFiles, NEW listing \in [1..m -> 0..MaxIndex]
             PROVE  listing \in Seq(Nat)
  BY DEF Listings, SeqOf
<1>1. m \in Nat /\ listing \in [1..m -> Nat]
  BY BoundsAssumption
<1> QED BY <1>1, SeqDef

LEMMA SocketsInvHolds == Spec => []SocketsInv
<1>1. Init => SocketsInv
  <2> SUFFICES ASSUME Init PROVE SocketsInv
    OBVIOUS
  <2>1. /\ connect_addr \in {"tcp", "remote", "unix"} /\ used \subseteq Takeable
        /\ refused \in BOOLEAN /\ changes = 0
        /\ looked = [use |-> "run", listing |-> <<>>,
                     addrs |-> SockIndices(<<>>, InstancesCount)]
    BY DEF Init
  <2>2. <<>> \in Seq(Nat) /\ InstancesCount \in Nat
    BY InstancesAssumption
  <2>3. Numbered(<<>>, SockIndices(<<>>, InstancesCount), InstancesCount)
    BY <2>2, SockIndicesNumbered
  <2>4. Handed("run", SockIndices(<<>>, InstancesCount)) = SockIndices(<<>>, InstancesCount)
    BY DEF Handed
  <2>5. LookedOK
    BY <2>1, <2>2, <2>3, <2>4 DEF LookedOK
  <2> QED BY <2>1, <2>5 DEF SocketsInv
<1>2. SocketsInv /\ ScanInv /\ [Next]_vars => SocketsInv'
  <2> SUFFICES ASSUME SocketsInv, ScanInv, [Next]_vars PROVE SocketsInv'
    OBVIOUS
  <2>1. CASE LookUp
    <3>1. PICK listing \in Listings, use \in {"run", "single", "check"} :
             looked' = [use |-> use, listing |-> listing,
                        addrs |-> Handed(use, SockIndices(listing,
                                    IF use = "run" THEN InstancesCount ELSE 1))]
      BY <2>1 DEF LookUp
    <3>2. PICK count \in Nat : count = IF use = "run" THEN InstancesCount ELSE 1
      BY InstancesAssumption
    <3>3. listing \in Seq(Nat)
      BY ListingsOK
    <3>4. Numbered(listing, SockIndices(listing, count), count)
      BY <3>3, SockIndicesNumbered
    <3>5. looked' = [use |-> use, listing |-> listing,
                     addrs |-> Handed(use, SockIndices(listing, count))]
      BY <3>1, <3>2
    <3>6. looked'.use = use /\ looked'.listing = listing
      BY <3>5
    <3>7. LookedOK'
      BY <3>2, <3>3, <3>4, <3>5, <3>6 DEF LookedOK
    <3> QED BY <2>1, <3>7 DEF LookUp, SocketsInv
  <2>2. CASE UNCHANGED looked
    <3>1. LookedOK'
      BY <2>2 DEF LookedOK, SocketsInv
    <3>2. UNCHANGED connect_addr /\ refused' \in BOOLEAN /\ changes' \in Nat
      <4>1. CASE Others
        <5>1. UNCHANGED connect_addr /\ changes' = changes + 1
          BY <4>1 DEF Others
        <5>2. refused' = refused \/ refused' = ~refused
          BY <4>1 DEF Others
        <5>3. refused' \in BOOLEAN
          BY <5>2, Zenon DEF SocketsInv
        <5> QED BY <5>1, <5>3 DEF SocketsInv
      <4>2. CASE UNCHANGED <<connect_addr, refused, changes>>
        BY <4>2 DEF SocketsInv
      <4> QED BY <4>1, <4>2 DEF Next, Begin, Probe, Listen, LookUp, vars
    <3>3. used' \subseteq Takeable
      <4>1. ASSUME NEW b \in Scanners, Listen(b) PROVE used' \subseteq Takeable
        <5>1. ToSet(scan[b].found) \subseteq Port
          <6>1. scan[b].found \in Seq(Port)
            BY ScanFields DEF ScanInv, ScanOK
          <6> QED BY <6>1 DEF ToSet
        <5>2. PICK p \in ToSet(scan[b].found) \ (used \cup {0}) : used' = used \cup {p}
          BY <4>1 DEF Listen
        <5> QED BY <5>1, <5>2 DEF SocketsInv, Takeable
      <4>2. Others => used' \subseteq Takeable
        BY DEF Others, SocketsInv
      <4>3. ASSUME NEW b \in Scanners, Begin(b) \/ Probe(b) PROVE UNCHANGED used
        BY <4>3 DEF Begin, Probe
      <4>4. LookUp \/ UNCHANGED vars => UNCHANGED used
        BY DEF LookUp, vars
      <4> QED BY <4>1, <4>2, <4>3, <4>4 DEF Next, SocketsInv
    <3> QED BY <3>1, <3>2, <3>3 DEF SocketsInv
  <2> QED BY <2>1, <2>2 DEF Next, Begin, Probe, Listen, Others, vars
<1> QED BY <1>1, <1>2, ScanInvHolds, PTL DEF Spec

\* The port is never outside of its type, not even when a scan comes round, and no
\* list of sockets is: find_available_addresses, get_sockets_paths.
THEOREM AddressesTypeCorrect == Spec => []TypeOK
<1>1. SocketsInv /\ ScanInv => TypeOK
  <2> SUFFICES ASSUME SocketsInv, ScanInv PROVE TypeOK
    OBVIOUS
  <2>1. scan \in [Scanners -> Scan]
    BY DEF ScanInv, ScanOK
  <2>2. looked \in Lookup
    BY LookedFresh DEF SocketsInv
  <2> QED BY <2>1, <2>2 DEF SocketsInv, TypeOK
<1> QED BY <1>1, SocketsInvHolds, ScanInvHolds, PTL

\* With any directory, of any length, with numbers repeated and in any order: what
\* get_sockets_paths adds for run or a replacement is distinct and not in the
\* directory, and the least such if the directory has each number once and no 0
\* (SocketsFresh; find_min_not_occupied).
THEOREM SocketsAreFresh == Spec => []SocketsFresh
<1>1. SocketsInv => SocketsFresh
  BY LookedFresh DEF SocketsInv
<1> QED BY <1>1, SocketsInvHolds, PTL
=============================================================================
