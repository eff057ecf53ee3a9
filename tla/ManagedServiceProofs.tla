------------------------ MODULE ManagedServiceProofs ------------------------
(***************************************************************************)
(* A managed service, for every number of units, addresses, incidents and  *)
(* starts, with either update script, with reports in any order, and with  *)
(* the daemon killed at any time: the types, its executables, which        *)
(* survive a careful operator, and its place with the load balancer.       *)
(***************************************************************************)
EXTENDS ManagedService, SequenceTheorems, TLAPS

-----------------------------------------------------------------------------
(* Sequences.                                                                *)

\* An element is removed.
LEMMA RemoveProperties ==
  ASSUME NEW S, NEW s \in Seq(S), NEW k \in DOMAIN s
  PROVE  /\ RemoveAt(s, k) \in Seq(S)
         /\ DOMAIN RemoveAt(s, k) = 1..(Len(s) - 1)
         /\ \A i \in 1..(Len(s) - 1) :
               /\ RemoveAt(s, k)[i] = IF i < k THEN s[i] ELSE s[i + 1]
               /\ (IF i < k THEN i ELSE i + 1) \in DOMAIN s \ {k}
<1>0. /\ DOMAIN s = 1..Len(s) /\ Len(s) \in Nat /\ k \in 1..Len(s)
      /\ \A i \in 1..Len(s) : s[i] \in S
  OBVIOUS
<1> DEFINE l == SubSeq(s, 1, k - 1)
           r == SubSeq(s, k + 1, Len(s))
           t == RemoveAt(s, k)
<1>1. t = l \o r
  BY DEF RemoveAt
<1>2. /\ l \in Seq(S) /\ Len(l) = k - 1
      /\ \A i \in 1..(k - 1) : l[i] = s[i]
  BY <1>0
<1>3. /\ r \in Seq(S) /\ Len(r) = Len(s) - k
      /\ \A i \in 1..(Len(s) - k) : r[i] = s[k + i]
  <2>1. /\ r \in Seq(S)
        /\ Len(r) = IF k + 1 <= Len(s) THEN Len(s) - (k + 1) + 1 ELSE 0
        /\ \A i \in 1..(Len(s) - (k + 1) + 1) : r[i] = s[k + 1 + i - 1]
    <3>1. \A i \in (k + 1)..Len(s) : s[i] \in S
      BY <1>0
    <3>2. k + 1 \in Int /\ Len(s) \in Int
      BY <1>0
    <3> QED BY <3>1, <3>2, SubSeqProperties
  <2> HIDE DEF r
  <2>2. Len(s) - (k + 1) + 1 = Len(s) - k
    BY <1>0
  <2>3. Len(r) = Len(s) - k
    <3>1. CASE k + 1 <= Len(s)
      BY <2>1, <2>2, <3>1, Zenon
    <3>2. CASE ~(k + 1 <= Len(s))
      <4>1. Len(r) = 0
        BY <2>1, <3>2, Zenon
      <4> QED BY <1>0, <3>2, <4>1
    <3> QED BY <3>1, <3>2
  <2>4. \A i \in 1..(Len(s) - k) : k + 1 + i - 1 = k + i
    BY <1>0
  <2> QED BY <2>1, <2>2, <2>3, <2>4
<1> HIDE DEF l, r, t
<1>4. /\ t \in Seq(S) /\ Len(t) = Len(l) + Len(r)
      /\ \A i \in 1..(Len(l) + Len(r)) :
            t[i] = IF i <= Len(l) THEN l[i] ELSE r[i - Len(l)]
  BY <1>1, <1>2, <1>3, ConcatProperties
<1>5. Len(l) + Len(r) = Len(s) - 1
  BY <1>0, <1>2, <1>3
<1>6. DOMAIN t = 1..(Len(s) - 1)
  BY <1>4, <1>5, LenProperties
<1>7. ASSUME NEW i \in 1..(Len(s) - 1)
      PROVE  /\ t[i] = IF i < k THEN s[i] ELSE s[i + 1]
             /\ (IF i < k THEN i ELSE i + 1) \in DOMAIN s \ {k}
  <2>1. CASE i < k
    BY <1>0, <1>2, <1>4, <1>5, <2>1
  <2>2. CASE ~(i < k)
    <3>1. i - (k - 1) \in 1..(Len(s) - k) /\ k + (i - (k - 1)) = i + 1
      BY <1>0, <2>2
    <3>2. t[i] = r[i - (k - 1)]
      BY <1>0, <1>2, <1>4, <1>5, <2>2
    <3>3. t[i] = s[i + 1]
      BY <1>3, <3>1, <3>2
    <3>4. i + 1 \in DOMAIN s \ {k}
      BY <1>0, <2>2
    <3> QED BY <2>2, <3>3, <3>4
  <2> QED BY <2>1, <2>2
<1> QED BY <1>4, <1>6, <1>7 DEF t


-----------------------------------------------------------------------------
(* The type invariant, in parts.                                             *)

ConfigOK ==
    /\ update_exec \in {"bash", "rust"}
    /\ instances_count \in Instances

\* An update has a unit of the new version from its first step on.
BunchOK ==
    /\ bunch \in {"off", "held", "running", "rolling"}
    /\ units \in Seq(Addrs)
    /\ fresh \in Seq(Addrs)
    /\ bunch = "rolling" => fresh # <<>>

ReportsOK == IsABag(outbox) /\ DOMAIN outbox \subseteq Report

MainOK ==
    /\ event \in BOOLEAN
    /\ main \in {"select", "script", "renaming", "down"}

ScriptsOK ==
    /\ scripts \in Seq(Script)
    /\ conf \subseteq Addrs
    /\ bak = NoFile \/ bak \subseteq Addrs
    /\ excused \subseteq Addrs

FilesOK ==
    /\ stable \in 0..(MaxIncidents + 1)
    /\ new \in 0..(MaxIncidents + 1)
    /\ torn \in BOOLEAN

\* Each unit that was retired after it had exited is an incident, and so is each file.
CountOK ==
    /\ count \in [starts : 0..MaxStarts, incidents : 0..MaxIncidents,
                  files : 0..MaxIncidents]
    /\ unheard \in Nat /\ unheard <= count.incidents
    /\ count.files <= count.incidents

TypeInv ==
    ConfigOK /\ BunchOK /\ ReportsOK /\ MainOK /\ ScriptsOK /\ FilesOK /\ CountOK

LEMMA TypeInvTypeOK == TypeInv => TypeOK
<1> SUFFICES ASSUME TypeInv PROVE TypeOK
  OBVIOUS
<1>1. unheard \in 0..MaxIncidents
  BY BoundsAssumption DEF TypeInv, CountOK
<1>2. conf # NoFile /\ conf \subseteq Addrs
  BY NoFileAssumption DEF TypeInv, ScriptsOK
<1>3. BagToSet(outbox) \subseteq Report
  BY DEF TypeInv, ReportsOK, BagToSet
<1> QED BY <1>1, <1>2, <1>3 DEF TypeInv, ConfigOK, BunchOK, ReportsOK, MainOK,
                                ScriptsOK, FilesOK, CountOK, TypeOK

LEMMA Spent ==
  ASSUME TypeInv, NEW starts \in Nat, NEW n \in Nat, Spend(starts, n),
         count.starts + starts <= MaxStarts
  PROVE  /\ count' \in [starts : 0..MaxStarts, incidents : 0..MaxIncidents,
                        files : 0..MaxIncidents]
         /\ count'.files = count.files
         /\ count'.incidents \in Nat /\ count'.incidents = count.incidents + n
         /\ (unheard' \in Nat /\ unheard' <= unheard + n) => CountOK'
<1>1. /\ count \in [starts : 0..MaxStarts, incidents : 0..MaxIncidents,
                    files : 0..MaxIncidents]
      /\ unheard \in Nat /\ unheard <= count.incidents
      /\ count.files <= count.incidents
  BY DEF TypeInv, CountOK
<1>2. /\ count.starts + starts \in 0..MaxStarts /\ count.incidents \in Nat
      /\ count.incidents + n \in 0..MaxIncidents
  BY <1>1, BoundsAssumption DEF Spend
<1>3. /\ count' \in [starts : 0..MaxStarts, incidents : 0..MaxIncidents,
                     files : 0..MaxIncidents]
      /\ count'.files = count.files /\ count'.incidents = count.incidents + n
  BY <1>1, <1>2 DEF Spend
<1> QED BY <1>1, <1>2, <1>3 DEF CountOK

LEMMA Counted ==
  ASSUME TypeInv, NEW n \in Nat, Incidents(n) \/ (n = 0 /\ UNCHANGED count)
  PROVE  /\ count' \in [starts : 0..MaxStarts, incidents : 0..MaxIncidents,
                        files : 0..MaxIncidents]
         /\ count'.files = count.files
         /\ count'.incidents \in Nat /\ count'.incidents = count.incidents + n
         /\ (unheard' \in Nat /\ unheard' <= unheard + n) => CountOK'
<1>1. CASE Incidents(n)
  <2>1. count.starts + 0 <= MaxStarts
    BY BoundsAssumption DEF TypeInv, CountOK
  <2>2. Spend(0, n)
    BY <1>1 DEF Incidents
  <2>3. 0 \in Nat
    OBVIOUS
  <2> QED BY <2>1, <2>2, <2>3, Spent
<1>2. CASE n = 0 /\ UNCHANGED count
  BY <1>2 DEF TypeInv, CountOK
<1> QED BY <1>1, <1>2

\* One thing that is bounded happens, or nothing.
LEMMA CountedOnce ==
  ASSUME TypeInv, Incident \/ UNCHANGED count,
         unheard' \in Nat, unheard' <= unheard
  PROVE  CountOK'
<1>1. unheard \in Nat
  BY DEF TypeInv, CountOK
<1>2. CASE Incident
  <2>1. Incidents(1) /\ 1 \in Nat
    BY <1>2 DEF Incident
  <2> QED BY <1>1, <2>1, Counted
<1>3. CASE UNCHANGED count
  BY <1>1, <1>3, Counted
<1> QED BY <1>2, <1>3

LEMMA ToldOf ==
  ASSUME ReportsOK, NEW reports \in SUBSET Report, Tell(reports)
  PROVE  ReportsOK' /\ DOMAIN outbox' = DOMAIN outbox \cup reports
<1>1. outbox' = [r \in DOMAIN outbox \cup reports |->
                    (IF r \in DOMAIN outbox THEN outbox[r] ELSE 0)
                    + (IF r \in reports THEN 1 ELSE 0)]
  BY DEF Tell, (+), SetToBag
<1>2. \A r \in DOMAIN outbox : outbox[r] \in Nat /\ outbox[r] > 0
  BY DEF ReportsOK, IsABag
<1>3. DOMAIN outbox' = DOMAIN outbox \cup reports
  BY <1>1
<1>4. IsABag(outbox')
  <2>1. \A r \in DOMAIN outbox' : outbox'[r] \in Nat /\ outbox'[r] > 0
    BY <1>1, <1>2
  <2> QED BY <1>1, <2>1 DEF IsABag
<1> QED BY <1>3, <1>4 DEF ReportsOK

LEMMA TakenFrom ==
  ASSUME ReportsOK, NEW report \in DOMAIN outbox,
         outbox' = outbox (-) SetToBag({report})
  PROVE  ReportsOK' /\ DOMAIN outbox \ {report} \subseteq DOMAIN outbox'
<1> DEFINE left == [r \in DOMAIN outbox |-> IF r = report THEN outbox[r] - 1
                                                          ELSE outbox[r]]
<1>1. outbox' = [r \in {d \in DOMAIN left : left[d] > 0} |-> left[r]]
  BY DEF (-), SetToBag
<1>2. \A r \in DOMAIN outbox : outbox[r] \in Nat /\ outbox[r] > 0
  BY DEF ReportsOK, IsABag
<1>3. /\ DOMAIN outbox' = {d \in DOMAIN outbox : left[d] > 0}
      /\ \A r \in DOMAIN outbox' : outbox'[r] = left[r] /\ left[r] \in Nat
  BY <1>1, <1>2
<1>4. \A r \in DOMAIN outbox \ {report} : left[r] > 0
  BY <1>2
<1>5. IsABag(outbox')
  <2>1. \A r \in DOMAIN outbox' : outbox'[r] \in {n \in Nat : n > 0}
    BY <1>3
  <2> HIDE DEF left
  <2> QED BY <1>1, <2>1 DEF IsABag
<1> HIDE DEF left
<1> QED BY <1>3, <1>4, <1>5 DEF ReportsOK

LEMMA ReportsTyped ==
  /\ \A came \in SUBSET Addrs : Spawned(came) \in Report
  /\ \A went \in SUBSET Addrs : Despawned(went) \in Report
  /\ \A old, addr \in Addrs : Replaced(old, addr) \in Report
  /\ UpdateFinished \in Report
BY DEF Report, Spawned, Despawned, Replaced, UpdateFinished, NewReport

LEMMA AddrsOf ==
  ASSUME NEW s \in Seq(Addrs)
  PROVE  /\ ToSet(s) \in SUBSET Addrs
         /\ s # <<>> => Last(s) \in Addrs /\ Front(s) \in Seq(Addrs)
         /\ \A a \in Addrs : Append(s, a) \in Seq(Addrs) /\ Append(s, a) # <<>>
         /\ \A i \in DOMAIN s : s[i] \in Addrs /\ RemoveAt(s, i) \in Seq(Addrs)
<1>1. ToSet(s) \in SUBSET Addrs
  BY DEF ToSet
<1>2. s # <<>> => Last(s) \in Addrs /\ Front(s) \in Seq(Addrs)
  <2> SUFFICES ASSUME s # <<>> PROVE Last(s) \in Addrs /\ Front(s) \in Seq(Addrs)
    OBVIOUS
  <2>1. Len(s) \in Nat \ {0}
    BY EmptySeq
  <2> QED BY <2>1 DEF Last, Front
<1>3. \A a \in Addrs : Append(s, a) \in Seq(Addrs) /\ Append(s, a) # <<>>
  BY AppendProperties
<1>4. \A i \in DOMAIN s : s[i] \in Addrs /\ RemoveAt(s, i) \in Seq(Addrs)
  BY RemoveProperties
<1> QED BY <1>1, <1>2, <1>3, <1>4

-----------------------------------------------------------------------------
(* Every step keeps the types.                                               *)

LEMMA OffOK ==
  ASSUME TypeInv, Off, Incident \/ UNCHANGED count
  PROVE  BunchOK' /\ CountOK'
<1>1. BunchOK'
  BY DEF Off, BunchOK
<1>2. unheard' \in Nat /\ unheard' <= unheard
  BY DEF Off, TypeInv, CountOK
<1> QED BY <1>1, <1>2, CountedOnce

LEMMA BunchTypes ==
  ASSUME TypeInv, Bunch
  PROVE  TypeInv'
<1>1. /\ BunchOK /\ ReportsOK /\ ScriptsOK /\ CountOK
      /\ units \in Seq(Addrs) /\ fresh \in Seq(Addrs) /\ unheard \in Nat
  BY DEF TypeInv, BunchOK, CountOK
<1>2. ConfigOK' /\ MainOK' /\ FilesOK'
  <2>1. UNCHANGED <<configVars, main, fileVars>> /\ event' \in {event, FALSE}
    BY DEF Bunch, Restart, RestartUnlisted, RestartPanics, Stop, StartUpdate, Roll,
           RollPanics
  <2> QED BY <2>1 DEF TypeInv, ConfigOK, MainOK, FilesOK, configVars, fileVars
<1>3. CASE Restart
  <2>1. PICK i \in DOMAIN units, addr \in Addrs :
           /\ units' = Append(RemoveAt(units, i), addr)
           /\ Tell({Replaced(units[i], addr)})
    BY <1>3 DEF Restart
  <2>2. units[i] \in Addrs /\ units' \in Seq(Addrs)
    BY <1>1, <2>1, AddrsOf
  <2>3. Incident /\ UNCHANGED <<bunch, fresh, unheard, scriptVars>>
    BY <1>3 DEF Restart
  <2>4. ReportsOK'
    <3>1. {Replaced(units[i], addr)} \in SUBSET Report
      BY <2>2, ReportsTyped
    <3> QED BY <1>1, <2>1, <3>1, ToldOf
  <2>5. BunchOK' /\ ScriptsOK' /\ CountOK'
    BY <1>1, <2>2, <2>3, CountedOnce DEF BunchOK, ScriptsOK, scriptVars
  <2> QED BY <1>2, <2>4, <2>5 DEF TypeInv
<1>4. CASE RestartUnlisted
  <2>1. PICK addr \in Addrs : units' = Append(units, addr) /\ excused' = excused \cup {addr}
    BY <1>4 DEF RestartUnlisted
  <2>2. units' \in Seq(Addrs)
    BY <1>1, <2>1, AddrsOf
  <2>3. /\ UNCHANGED <<bunch, fresh, outbox, scripts, conf, bak>>
        /\ \/ unheard > 0 /\ unheard' = unheard - 1 /\ UNCHANGED count
           \/ Incident /\ UNCHANGED unheard
    BY <1>4 DEF RestartUnlisted
  <2>4. BunchOK' /\ ReportsOK' /\ ScriptsOK'
    BY <1>1, <2>1, <2>2, <2>3 DEF BunchOK, ReportsOK, ScriptsOK
  <2>5. CountOK'
    <3>1. CASE unheard > 0 /\ unheard' = unheard - 1 /\ UNCHANGED count
      BY <1>1, <3>1 DEF CountOK
    <3>2. CASE Incident /\ UNCHANGED unheard
      BY <1>1, <3>2, CountedOnce
    <3> QED BY <2>3, <3>1, <3>2
  <2> QED BY <1>2, <2>4, <2>5 DEF TypeInv
<1>5. CASE RestartPanics \/ RollPanics
  <2>1. Off /\ (Incident \/ UNCHANGED count) /\ UNCHANGED <<outbox, scriptVars>>
    BY <1>5 DEF RestartPanics, RollPanics
  <2>2. BunchOK' /\ CountOK'
    BY <2>1, OffOK
  <2>3. ReportsOK' /\ ScriptsOK'
    BY <1>1, <2>1 DEF ReportsOK, ScriptsOK, scriptVars
  <2> QED BY <1>2, <2>2, <2>3 DEF TypeInv
<1>6. CASE Stop
  <2>1. Off /\ UNCHANGED <<count, scriptVars>> /\ Tell({Despawned(ToSet(units))})
    BY <1>6 DEF Stop
  <2>2. BunchOK' /\ CountOK'
    BY <2>1, OffOK
  <2>3. ReportsOK'
    <3>1. {Despawned(ToSet(units))} \in SUBSET Report
      BY <1>1, AddrsOf, ReportsTyped
    <3> QED BY <1>1, <2>1, <3>1, ToldOf
  <2>4. ScriptsOK'
    BY <1>1, <2>1 DEF ScriptsOK, scriptVars
  <2> QED BY <1>2, <2>2, <2>3, <2>4 DEF TypeInv
<1>7. CASE StartUpdate
  <2>1. UNCHANGED <<units, unheard, scriptVars>>
    BY <1>7 DEF StartUpdate
  <2>2. ScriptsOK'
    BY <1>1, <2>1 DEF ScriptsOK, scriptVars
  <2>3. CASE /\ bunch' = "rolling" /\ UNCHANGED count
             /\ \E addr \in Addrs : fresh' = Append(fresh, addr) /\ Tell({Spawned({addr})})
    <3>1. PICK addr \in Addrs : fresh' = Append(fresh, addr) /\ Tell({Spawned({addr})})
      BY <2>3
    <3>2. fresh' \in Seq(Addrs) /\ fresh' # <<>>
      BY <1>1, <3>1, AddrsOf
    <3>3. ReportsOK'
      <4>1. {Spawned({addr})} \in SUBSET Report
        BY ReportsTyped
      <4> QED BY <1>1, <3>1, <4>1, ToldOf
    <3>4. BunchOK' /\ CountOK'
      BY <1>1, <2>1, <2>3, <3>2, CountedOnce DEF BunchOK
    <3> QED BY <1>2, <2>2, <3>3, <3>4 DEF TypeInv
  <2>4. CASE Incident /\ UNCHANGED <<bunch, fresh, outbox>>
    <3>1. CountOK'
      BY <1>1, <2>1, <2>4, CountedOnce
    <3>2. BunchOK' /\ ReportsOK'
      BY <1>1, <2>1, <2>4 DEF BunchOK, ReportsOK
    <3> QED BY <1>2, <2>2, <3>1, <3>2 DEF TypeInv
  <2> QED BY <1>7, <2>3, <2>4 DEF StartUpdate
<1>8. CASE Roll
  <2>1. /\ bunch = "rolling" /\ fresh # <<>> /\ UNCHANGED scriptVars
        /\ Last(fresh) \in Addrs
    BY <1>1, <1>8, AddrsOf DEF Roll, BunchOK
  <2>2. Retired \in SUBSET Report /\ UpdateFinished \in Report
    BY <2>1, ReportsTyped DEF Retired
  <2>3. ScriptsOK'
    BY <1>1, <2>1 DEF ScriptsOK, scriptVars
  <2>4. Len(units) >= 1 => Front(units) \in Seq(Addrs)
    <3>1. Len(units) >= 1 => units # <<>>
      OBVIOUS
    <3> QED BY <1>1, <3>1, AddrsOf
  <2>5. PICK gone \in {0, 1} :
           /\ unheard' = unheard + gone
           /\ \/ /\ Len(units) > 1 /\ Incidents(gone) /\ units' = Front(units)
                 /\ \E addr \in Addrs : /\ fresh' = Append(fresh, addr)
                                        /\ Tell(Retired \cup {Spawned({addr})})
                 /\ UNCHANGED bunch
              \/ /\ Len(units) > 1 /\ Incidents(gone + 1) /\ units' = Front(units)
                 /\ bunch' = "running" /\ Tell(Retired) /\ UNCHANGED fresh
              \/ /\ Incidents(gone) /\ units' = fresh /\ fresh' = <<>>
                 /\ bunch' = "running" /\ Tell(Retired \cup {UpdateFinished})
    BY <1>8 DEF Roll
  <2>6. CountOK'
    <3>1. unheard' \in Nat /\ unheard' <= unheard + gone /\ unheard' <= unheard + (gone + 1)
      BY <1>1, <2>5
    <3>2. gone \in Nat /\ gone + 1 \in Nat
      OBVIOUS
    <3>3. Incidents(gone) \/ Incidents(gone + 1)
      BY <2>5
    <3> QED BY <3>1, <3>2, <3>3, Counted
  <2>7. CASE /\ Len(units) > 1 /\ units' = Front(units) /\ UNCHANGED bunch
             /\ \E addr \in Addrs : /\ fresh' = Append(fresh, addr)
                                    /\ Tell(Retired \cup {Spawned({addr})})
    <3>1. PICK addr \in Addrs : /\ fresh' = Append(fresh, addr)
                                /\ Tell(Retired \cup {Spawned({addr})})
      BY <2>7
    <3>2. fresh' \in Seq(Addrs) /\ fresh' # <<>>
      BY <1>1, <3>1, AddrsOf
    <3>3. ReportsOK'
      <4>1. Retired \cup {Spawned({addr})} \in SUBSET Report
        BY <2>2, ReportsTyped
      <4> QED BY <1>1, <3>1, <4>1, ToldOf
    <3>4. BunchOK'
      BY <1>1, <2>4, <2>7, <3>2 DEF BunchOK
    <3> QED BY <1>2, <2>3, <2>6, <3>3, <3>4 DEF TypeInv
  <2>8. CASE /\ Len(units) > 1 /\ units' = Front(units) /\ bunch' = "running"
             /\ Tell(Retired) /\ UNCHANGED fresh
    <3>1. ReportsOK'
      BY <1>1, <2>2, <2>8, ToldOf
    <3>2. BunchOK'
      BY <1>1, <2>4, <2>8 DEF BunchOK
    <3> QED BY <1>2, <2>3, <2>6, <3>1, <3>2 DEF TypeInv
  <2>9. CASE /\ units' = fresh /\ fresh' = <<>> /\ bunch' = "running"
             /\ Tell(Retired \cup {UpdateFinished})
    <3>1. ReportsOK'
      <4>1. Retired \cup {UpdateFinished} \in SUBSET Report
        BY <2>2
      <4> QED BY <1>1, <2>9, <4>1, ToldOf
    <3>2. BunchOK'
      BY <1>1, <2>9 DEF BunchOK
    <3> QED BY <1>2, <2>3, <2>6, <3>1, <3>2 DEF TypeInv
  <2> QED BY <2>5, <2>7, <2>8, <2>9
<1> QED BY <1>3, <1>4, <1>5, <1>6, <1>7, <1>8 DEF Bunch

\* A script goes from one of its operations to the next.
LEMMA ScriptMoves ==
  ASSUME scripts \in Seq(Script), NEW k \in DOMAIN scripts, NEW s \in Script,
         scripts' = [scripts EXCEPT ![k] = s]
  PROVE  /\ scripts' \in Seq(Script) /\ DOMAIN scripts' = DOMAIN scripts
         /\ Len(scripts') = Len(scripts) /\ scripts'[k] = s
         /\ \A j \in DOMAIN scripts \ {k} : scripts'[j] = scripts[j]
<1>1. scripts' \in Seq(Script) /\ Len(scripts') = Len(scripts)
  BY ExceptSeq
<1> QED BY <1>1

\* Whatever a script writes are addresses.
LEMMA UnwrittenAddrs ==
  ASSUME ScriptsOK
  PROVE  /\ \A k \in DOMAIN scripts : /\ Skipped(scripts[k]) \subseteq Addrs
                                      /\ Edited(scripts[k]) \subseteq Addrs
                                      /\ Missing(scripts[k]) \subseteq Addrs
                                      /\ scripts[k].saved \subseteq Addrs
                                      /\ scripts[k].add \subseteq Addrs
         /\ Unwritten \subseteq Addrs
<1>1. ASSUME NEW k \in DOMAIN scripts
      PROVE  /\ Skipped(scripts[k]) \subseteq Addrs /\ Edited(scripts[k]) \subseteq Addrs
             /\ Missing(scripts[k]) \subseteq Addrs
             /\ scripts[k].saved \subseteq Addrs /\ scripts[k].add \subseteq Addrs
  <2>1. scripts[k] \in Script
    BY DEF ScriptsOK
  <2> QED BY <2>1 DEF Skipped, Edited, Missing, Content, Script
<1> QED BY <1>1 DEF Unwritten

\* What Read makes of a script.
HasRead(s, text) == [s EXCEPT !.at = "write", !.saved = text]

LEMMA ReadIs ==
  ASSUME ScriptsOK, NEW k \in DOMAIN scripts, Read(k)
  PROVE  \E part \in SUBSET Unwritten :
         /\ scripts' \in Seq(Script) /\ DOMAIN scripts' = DOMAIN scripts
         /\ Len(scripts') = Len(scripts)
         /\ \A j \in DOMAIN scripts \ {k} : scripts'[j] = scripts[j]
         /\ scripts[k].at = "read" /\ scripts'[k].at = "write"
         /\ scripts'[k].saved = conf \cup part
         /\ scripts'[k].add = scripts[k].add /\ scripts'[k].remove = scripts[k].remove
         /\ scripts'[k].clean = scripts[k].clean
         /\ bak' = (IF update_exec = "bash" THEN conf \cup part ELSE bak)
         /\ bak' = bak \/ bak' \subseteq Addrs
         /\ excused' = excused \cup (Unwritten \ part)
         /\ excused' \subseteq Addrs
<1>0. PICK part \in SUBSET Unwritten :
         /\ scripts' = [scripts EXCEPT ![k].at = "write", ![k].saved = conf \cup part]
         /\ bak' = IF update_exec = "bash" THEN conf \cup part ELSE bak
         /\ excused' = excused \cup (Unwritten \ part)
  BY DEF Read
<1>1. /\ scripts \in Seq(Script) /\ scripts[k] \in Script /\ conf \subseteq Addrs
      /\ excused \subseteq Addrs /\ Unwritten \subseteq Addrs
  BY UnwrittenAddrs DEF ScriptsOK
<1> DEFINE text == conf \cup part
           s == HasRead(scripts[k], text)
<1>2. /\ s \in Script /\ s.at = "write" /\ s.saved = text
      /\ s.add = scripts[k].add /\ s.remove = scripts[k].remove
      /\ s.clean = scripts[k].clean
  BY <1>1 DEF Script, HasRead
<1>3. scripts' = [scripts EXCEPT ![k] = s]
  BY <1>0, <1>1 DEF HasRead
<1> HIDE DEF s
<1>4. /\ scripts' \in Seq(Script) /\ DOMAIN scripts' = DOMAIN scripts
      /\ Len(scripts') = Len(scripts) /\ scripts'[k] = s
      /\ \A j \in DOMAIN scripts \ {k} : scripts'[j] = scripts[j]
  BY <1>1, <1>2, <1>3, ScriptMoves
<1>5. scripts[k].at = "read"
  BY DEF Read
<1>6. /\ bak' = bak \/ bak' \subseteq Addrs
      /\ excused' \subseteq Addrs
  BY <1>0, <1>1
<1> QED BY <1>0, <1>2, <1>4, <1>5, <1>6

LEMMA WriteIs ==
  ASSUME ScriptsOK, NEW k \in DOMAIN scripts, Write(k)
  PROVE  /\ scripts' \in Seq(Script) /\ DOMAIN scripts' = DOMAIN scripts
         /\ Len(scripts') = Len(scripts)
         /\ \A j \in DOMAIN scripts \ {k} : scripts'[j] = scripts[j]
         /\ scripts[k].at = "writing" /\ scripts'[k].at = "test"
         /\ update_exec = "rust" => scripts'[k].saved = scripts[k].saved
         /\ scripts'[k].add = scripts[k].add \ Skipped(scripts[k])
         /\ scripts'[k].remove = scripts[k].remove
         /\ scripts'[k].clean = scripts[k].clean
<1>1. scripts \in Seq(Script) /\ scripts[k] \in Script
  BY DEF ScriptsOK
<1> DEFINE less  == scripts[k].add \ Skipped(scripts[k])
           saved == IF update_exec = "rust" THEN scripts[k].saved ELSE {}
           s == [scripts[k] EXCEPT !.at = "test", !.add = less, !.saved = saved]
<1>2. less \in SUBSET Addrs /\ saved \in SUBSET Addrs
  BY <1>1 DEF Script
<1>3. scripts' = [scripts EXCEPT ![k] = s]
  BY <1>1 DEF Write
<1> HIDE DEF less, saved
<1>4. /\ s \in Script /\ s.at = "test" /\ s.saved = saved
      /\ s.add = less /\ s.remove = scripts[k].remove
      /\ s.clean = scripts[k].clean
  BY <1>1, <1>2 DEF Script
<1> HIDE DEF s
<1>5. /\ scripts' \in Seq(Script) /\ DOMAIN scripts' = DOMAIN scripts
      /\ Len(scripts') = Len(scripts) /\ scripts'[k] = s
      /\ \A j \in DOMAIN scripts \ {k} : scripts'[j] = scripts[j]
  BY <1>1, <1>3, <1>4, ScriptMoves
<1>6. scripts[k].at = "writing"
  BY DEF Write
<1> QED BY <1>4, <1>5, <1>6 DEF less, saved

\* What a script is that goes on with the same arguments, and with what it has read.
GoesOn(s, at, clean) == [s EXCEPT !.at = at, !.clean = clean]

LEMMA GoesOnIs ==
  ASSUME ScriptsOK, NEW k \in DOMAIN scripts, NEW clean \in BOOLEAN,
         NEW at \in {"read", "write", "writing", "test", "reverting"},
         scripts' = [scripts EXCEPT ![k] = GoesOn(scripts[k], at, clean)]
  PROVE  /\ scripts' \in Seq(Script) /\ DOMAIN scripts' = DOMAIN scripts
         /\ Len(scripts') = Len(scripts)
         /\ \A j \in DOMAIN scripts \ {k} : scripts'[j] = scripts[j]
         /\ scripts'[k].at = at /\ scripts'[k].clean = clean
         /\ scripts'[k].add = scripts[k].add /\ scripts'[k].remove = scripts[k].remove
         /\ scripts'[k].saved = scripts[k].saved
         /\ scripts'[k].waited = scripts[k].waited
<1>1. scripts \in Seq(Script) /\ scripts[k] \in Script
  BY DEF ScriptsOK
<1> DEFINE s == GoesOn(scripts[k], at, clean)
<1>2. /\ s \in Script /\ s.at = at /\ s.clean = clean /\ s.saved = scripts[k].saved
      /\ s.add = scripts[k].add /\ s.remove = scripts[k].remove
      /\ s.waited = scripts[k].waited
  BY <1>1 DEF Script, GoesOn
<1> HIDE DEF s
<1>3. /\ scripts' \in Seq(Script) /\ DOMAIN scripts' = DOMAIN scripts
      /\ Len(scripts') = Len(scripts) /\ scripts'[k] = s
      /\ \A j \in DOMAIN scripts \ {k} : scripts'[j] = scripts[j]
  <2>1. scripts' = [scripts EXCEPT ![k] = s]
    BY DEF s
  <2> QED BY <1>1, <1>2, <2>1, ScriptMoves
<1> QED BY <1>2, <1>3

\* Overwrite, Skip and RevertRust are of that kind.
LEMMA StepsGoOn ==
  ASSUME ScriptsOK, NEW k \in DOMAIN scripts
  PROVE  /\ Overwrite(k) => scripts' = [scripts EXCEPT
               ![k] = GoesOn(scripts[k], "writing", scripts[k].clean)]
         /\ Skip(k) => scripts' = [scripts EXCEPT
               ![k] = GoesOn(scripts[k], "test", FALSE)]
         /\ RevertRust(k) => scripts' = [scripts EXCEPT
               ![k] = GoesOn(scripts[k], "reverting", FALSE)]
         /\ scripts[k].clean \in BOOLEAN
<1>1. scripts \in Seq(Script) /\ scripts[k] \in Script
  BY DEF ScriptsOK
<1>2. [scripts[k] EXCEPT !.at = "writing"] = GoesOn(scripts[k], "writing", scripts[k].clean)
  BY <1>1 DEF Script, GoesOn
<1>3. scripts[k].clean \in BOOLEAN
  BY <1>1 DEF Script
<1> QED BY <1>1, <1>2, <1>3 DEF Overwrite, Skip, RevertRust, GoesOn

\* A script exits: the others stay as they are.
LEMMA ExitIs ==
  ASSUME ScriptsOK, NEW k \in DOMAIN scripts, ExitScript(k)
  PROVE  /\ scripts' \in Seq(Script) /\ Len(scripts') = Len(scripts) - 1
         /\ \A i \in DOMAIN scripts' : \E j \in DOMAIN scripts \ {k} :
               scripts'[i] = scripts[j]
         /\ \A j \in DOMAIN scripts \ {k} : \E i \in DOMAIN scripts' :
               scripts'[i] = scripts[j]
<1>1. scripts \in Seq(Script) /\ scripts' = RemoveAt(scripts, k)
      /\ Len(scripts) \in Nat \ {0}
  BY EmptySeq DEF ScriptsOK, ExitScript
<1>2. /\ scripts' \in Seq(Script) /\ DOMAIN scripts' = 1..(Len(scripts) - 1)
      /\ \A i \in 1..(Len(scripts) - 1) :
            /\ scripts'[i] = IF i < k THEN scripts[i] ELSE scripts[i + 1]
            /\ (IF i < k THEN i ELSE i + 1) \in DOMAIN scripts \ {k}
  BY <1>1, RemoveProperties
<1>3. Len(scripts') = Len(scripts) - 1
  BY <1>1, <1>2
<1>4. ASSUME NEW i \in DOMAIN scripts'
      PROVE  \E j \in DOMAIN scripts \ {k} : scripts'[i] = scripts[j]
  <2> DEFINE j == IF i < k THEN i ELSE i + 1
  <2>1. j \in DOMAIN scripts \ {k} /\ scripts'[i] = scripts[j]
    BY <1>2
  <2> QED BY <2>1
<1>5. ASSUME NEW j \in DOMAIN scripts \ {k}
      PROVE  \E i \in DOMAIN scripts' : scripts'[i] = scripts[j]
  <2> DEFINE i == IF j < k THEN j ELSE j - 1
  <2>1. DOMAIN scripts = 1..Len(scripts)
    BY <1>1
  <2>2. CASE j < k
    <3>1. i \in 1..(Len(scripts) - 1) /\ i < k /\ i = j
      BY <1>1, <2>1, <2>2
    <3>2. scripts'[i] = scripts[j]
      BY <1>2, <3>1
    <3> QED BY <1>2, <3>1, <3>2
  <2>3. CASE ~(j < k)
    <3>1. i \in 1..(Len(scripts) - 1) /\ ~(i < k) /\ i + 1 = j
      BY <1>1, <2>1, <2>3
    <3>2. scripts'[i] = scripts[j]
      BY <1>2, <3>1
    <3> QED BY <1>2, <3>1, <3>2
  <2> QED BY <2>2, <2>3
<1> QED BY <1>2, <1>3, <1>4, <1>5

\* Whoever waited for the scripts does so no more.
LEMMA AloneIs ==
  ASSUME ScriptsOK,
         scripts' = [k \in DOMAIN scripts |-> [scripts[k] EXCEPT !.waited = FALSE]]
  PROVE  /\ scripts' \in Seq(Script) /\ DOMAIN scripts' = DOMAIN scripts
         /\ Len(scripts') = Len(scripts)
         /\ \A k \in DOMAIN scripts :
               /\ scripts'[k].at = scripts[k].at /\ scripts'[k].saved = scripts[k].saved
               /\ scripts'[k].add = scripts[k].add
               /\ scripts'[k].remove = scripts[k].remove
               /\ scripts'[k].clean = scripts[k].clean
<1>1. /\ DOMAIN scripts = 1..Len(scripts) /\ Len(scripts) \in Nat
      /\ \A k \in DOMAIN scripts : scripts[k] \in Script
  BY DEF ScriptsOK
<1>2. ASSUME NEW k \in DOMAIN scripts
      PROVE  /\ scripts'[k] \in Script
             /\ scripts'[k].at = scripts[k].at /\ scripts'[k].saved = scripts[k].saved
             /\ scripts'[k].add = scripts[k].add
             /\ scripts'[k].remove = scripts[k].remove
             /\ scripts'[k].clean = scripts[k].clean
  <2>1. scripts'[k] = [scripts[k] EXCEPT !.waited = FALSE]
    OBVIOUS
  <2> QED BY <1>1, <2>1 DEF Script
<1>3. scripts' \in Seq(Script) /\ Len(scripts') = Len(scripts)
  BY <1>1, <1>2
<1> QED BY <1>2, <1>3

\* A report leads to a script, or is refused.
LEMMA ScriptedIs ==
  ASSUME ScriptsOK, ConfigOK, NEW came \in SUBSET Addrs, NEW went \in SUBSET Addrs,
         NEW held \in SUBSET Addrs, NEW failures, Scripted(came, went, held, failures)
  PROVE  /\ scripts' \in Seq(Script) /\ excused' \subseteq Addrs
         /\ UNCHANGED <<conf, bak>> /\ main' \in {"select", "script"}
         /\ excused \subseteq excused'
         /\ \/ UNCHANGED scripts /\ (came \ went) \subseteq excused'
            \/ /\ Len(scripts') = Len(scripts) + 1
               /\ DOMAIN scripts' = DOMAIN scripts \cup {Len(scripts) + 1}
               /\ \A k \in DOMAIN scripts :
                     /\ k # Len(scripts) + 1
                     /\ scripts'[k].at = scripts[k].at
                     /\ scripts'[k].saved = scripts[k].saved
                     /\ scripts'[k].remove = scripts[k].remove
                     /\ scripts'[k].add = scripts[k].add
                     /\ scripts'[k].clean = FALSE
                     /\ scripts[k].add \subseteq excused'
               /\ LET s == scripts'[Len(scripts) + 1] IN
                  /\ s.at = "read" /\ s.add = came \ went /\ s.remove \subseteq went
                  /\ s.add # {} => s.remove = {}
                  /\ s.remove \cap held \subseteq excused'
                  /\ s.clean \/ s.add \subseteq excused'
                  /\ s.clean => Len(scripts) = 0
<1> DEFINE args == Args(came, went)
           n == Len(scripts)
<1>1. /\ scripts \in Seq(Script) /\ n \in Nat /\ DOMAIN scripts = 1..n
      /\ \A k \in DOMAIN scripts : scripts[k] \in Script
      /\ excused \subseteq Addrs
  BY DEF ScriptsOK
<1>2. /\ args.add = came \ went
      /\ args.remove = IF came # {} /\ went # {} THEN {} ELSE went
  BY DEF Args
<1> HIDE DEF args
<1>3. CASE args.refused \/ failures = 1
  <2>1. /\ excused' = excused \cup args.add /\ UNCHANGED <<scripts, conf, bak>>
        /\ main' = "select"
    BY <1>3 DEF Scripted, args
  <2> QED BY <1>1, <1>2, <2>1
<1>4. CASE ~(args.refused \/ failures = 1)
  <2> DEFINE script == [add |-> args.add, remove |-> args.remove, old |-> went \ came,
                        at |-> "read", saved |-> {}, clean |-> scripts = <<>>,
                        waited |-> TRUE]
             others == [k \in DOMAIN scripts |-> [scripts[k] EXCEPT !.clean = FALSE]]
             mixed  == UNION {scripts[k].add : k \in DOMAIN scripts}
  <2>1. /\ scripts' = Append(others, script)
        /\ excused' = excused
               \cup (args.remove \cap held)
               \cup (IF scripts = <<>> THEN {} ELSE args.add \cup mixed)
        /\ UNCHANGED <<conf, bak>> /\ main' = "script"
    BY <1>4 DEF Scripted, args
  <2>2. script \in Script /\ (script.clean <=> scripts = <<>>)
        /\ script.add = args.add /\ script.remove = args.remove /\ script.at = "read"
    BY <1>2 DEF Script
  <2>3. ASSUME NEW k \in DOMAIN scripts
        PROVE  /\ others[k] \in Script /\ others[k].clean = FALSE
               /\ others[k].at = scripts[k].at /\ others[k].saved = scripts[k].saved
               /\ others[k].remove = scripts[k].remove
               /\ others[k].add = scripts[k].add
    <3>1. others[k] = [scripts[k] EXCEPT !.clean = FALSE]
      OBVIOUS
    <3> HIDE DEF others
    <3> QED BY <1>1, <3>1 DEF Script
  <2>4. others \in Seq(Script) /\ Len(others) = n
    <3>1. DOMAIN others = 1..n /\ others = [k \in DOMAIN others |-> others[k]]
      BY <1>1
    <3> HIDE DEF others
    <3>2. others \in [1..n -> Script]
      BY <1>1, <2>3, <3>1
    <3> QED BY <1>1, <3>1, <3>2, SeqDef, LenProperties
  <2> HIDE DEF script, others
  <2>5. /\ scripts' \in Seq(Script) /\ Len(scripts') = n + 1
        /\ DOMAIN scripts' = 1..(n + 1)
        /\ \A k \in 1..n : scripts'[k] = others[k]
        /\ scripts'[n + 1] = script
    BY <1>1, <2>1, <2>2, <2>4, AppendProperties
  <2>6. mixed \subseteq Addrs /\ \A k \in DOMAIN scripts : scripts[k].add \subseteq mixed
    BY <1>1 DEF Script
  <2> HIDE DEF mixed
  <2>7. excused' \subseteq Addrs /\ excused \subseteq excused'
    BY <1>1, <1>2, <2>1, <2>6
  <2>8. \A k \in DOMAIN scripts :
           /\ k # n + 1 /\ scripts'[k] = others[k] /\ scripts # <<>>
           /\ scripts[k].add \subseteq excused'
    BY <1>1, <2>1, <2>5, <2>6
  <2>9. /\ script.add # {} => script.remove = {}
        /\ script.remove \cap held \subseteq excused'
        /\ script.clean \/ script.add \subseteq excused'
        /\ script.clean => n = 0
    <3>1. CASE scripts = <<>>
      <4>1. script.clean /\ n = 0
        BY <2>2, <3>1
      <4> QED BY <1>2, <2>1, <2>2, <4>1
    <3>2. CASE scripts # <<>>
      <4>1. ~script.clean
        BY <2>2, <3>2
      <4> QED BY <1>2, <2>1, <2>2, <3>2, <4>1
    <3> QED BY <3>1, <3>2
  <2>10. script.at = "read" /\ script.add = came \ went /\ script.remove \subseteq went
    BY <1>2, <2>2
  <2>11. DOMAIN scripts' = DOMAIN scripts \cup {n + 1}
    BY <1>1, <2>5
  <2>12. \A k \in DOMAIN scripts :
            /\ k # n + 1
            /\ scripts'[k].at = scripts[k].at
            /\ scripts'[k].saved = scripts[k].saved
            /\ scripts'[k].remove = scripts[k].remove
            /\ scripts'[k].add = scripts[k].add
            /\ scripts'[k].clean = FALSE
            /\ scripts[k].add \subseteq excused'
    BY <2>3, <2>8
  <2>13. scripts'[n + 1] = script
    BY <2>5
  <2> QED BY <2>1, <2>5, <2>7, <2>9, <2>10, <2>11, <2>12, <2>13
<1> QED BY <1>3, <1>4

LEMMA ScriptTypes ==
  ASSUME TypeInv, NEW k \in DOMAIN scripts, UpdateScript(k)
  PROVE  TypeInv'
<1>1. /\ ConfigOK /\ BunchOK /\ ReportsOK /\ ScriptsOK
      /\ scripts[k] \in Script /\ conf \subseteq Addrs /\ excused \subseteq Addrs
      /\ bak = NoFile \/ bak \subseteq Addrs
      /\ Skipped(scripts[k]) \subseteq Addrs /\ Edited(scripts[k]) \subseteq Addrs
      /\ Missing(scripts[k]) \subseteq Addrs
      /\ scripts[k].saved \subseteq Addrs /\ scripts[k].add \subseteq Addrs
  BY UnwrittenAddrs DEF TypeInv, ScriptsOK
<1>2. /\ UNCHANGED <<configVars, units, fresh, unheard, outbox, event, fileVars>>
      /\ Incident \/ UNCHANGED count
      /\ main' \in {main, "select"}
      /\ bunch' = bunch \/ bunch' = "running"
  BY DEF UpdateScript, Read, Overwrite, Write, Skip, Abort, TestOk, TestFails, Reverted,
         RevertBash, RevertRust, ExitScript, bunchVars
<1>3. ConfigOK' /\ BunchOK' /\ ReportsOK' /\ MainOK' /\ FilesOK' /\ CountOK'
  <2>1. ConfigOK' /\ ReportsOK' /\ FilesOK'
    BY <1>2 DEF TypeInv, ConfigOK, ReportsOK, FilesOK, configVars, fileVars
  <2>2. BunchOK' /\ MainOK'
    BY <1>2 DEF TypeInv, BunchOK, MainOK
  <2>3. CountOK'
    <3>1. unheard' \in Nat /\ unheard' <= unheard
      BY <1>2 DEF TypeInv, CountOK
    <3> QED BY <1>2, <3>1, CountedOnce
  <2> QED BY <2>1, <2>2, <2>3
<1>4. CASE Read(k)
  <2>1. /\ scripts' \in Seq(Script) /\ excused' \subseteq Addrs
        /\ bak' = bak \/ bak' \subseteq Addrs
    BY <1>1, <1>4, ReadIs
  <2>2. UNCHANGED conf
    BY <1>4 DEF Read
  <2> QED BY <1>1, <1>3, <2>1, <2>2 DEF TypeInv, ScriptsOK
<1>5. CASE Write(k)
  <2>1. scripts' \in Seq(Script)
    BY <1>1, <1>5, WriteIs
  <2>2. /\ conf' = Edited(scripts[k]) /\ UNCHANGED bak
        /\ excused' = excused \cup (Skipped(scripts[k]) \ scripts[k].saved)
    BY <1>5 DEF Write
  <2> QED BY <1>1, <1>3, <2>1, <2>2 DEF TypeInv, ScriptsOK
<1>6. CASE Overwrite(k) \/ Skip(k) \/ (TestFails(k) /\ RevertRust(k))
  <2>1. scripts' \in Seq(Script)
    BY <1>1, <1>6, StepsGoOn, GoesOnIs
  <2>2. /\ conf' = conf \/ conf' = {}
        /\ UNCHANGED bak
        /\ excused' = excused \/ excused' = excused \cup scripts[k].add
    BY <1>6 DEF Overwrite, Skip, TestFails, RevertRust
  <2> QED BY <1>1, <1>3, <2>1, <2>2 DEF TypeInv, ScriptsOK
<1>7. CASE TestOk(k) \/ (TestFails(k) /\ RevertBash(k)) \/ Abort(k) \/ Reverted(k)
  <2>1. scripts' \in Seq(Script)
    BY <1>1, <1>7, ExitIs DEF TestOk, RevertBash, Abort, Reverted
  <2>2. /\ conf' \subseteq conf \cup Missing(scripts[k]) \cup scripts[k].saved
           \/ (bak # NoFile /\ conf' = bak)
        /\ bak' = NoFile \/ bak' = bak
        /\ excused' \subseteq excused \cup scripts[k].add \cup Missing(scripts[k])
    BY <1>7 DEF TestOk, TestFails, RevertBash, Abort, Reverted
  <2> QED BY <1>1, <1>3, <2>1, <2>2 DEF TypeInv, ScriptsOK
<1> QED BY <1>4, <1>5, <1>6, <1>7 DEF UpdateScript, TestFails

LEMMA ControllerTypes ==
  ASSUME TypeInv, Controller
  PROVE  TypeInv'
<1>1. /\ ConfigOK /\ BunchOK /\ ReportsOK /\ ScriptsOK /\ FilesOK /\ CountOK /\ MainOK
      /\ UNCHANGED configVars /\ ConfigOK'
  BY DEF TypeInv, ConfigOK, configVars, Controller, Start, TakeReport, RemoveStable, Rename,
         EventDropped
<1>2. CASE Start
  <2>1. /\ units' \in [1..instances_count -> Addrs]
        /\ Tell({Spawned(ToSet(units'))})
        /\ bunch' \in {"held", "running"} /\ UNCHANGED <<fresh, unheard, event, fileVars>>
        /\ (count.starts + 1) * instances_count <= MaxStarts
    BY <1>2 DEF Start
  <2>0. PICK failures \in {0, 1} : /\ Scripted(ToSet(units'), {}, {}, failures)
                                   /\ Spend(1, failures + IF count.starts = 0 THEN 0 ELSE 1)
    BY <1>2 DEF Start
  <2>2. instances_count \in Nat /\ instances_count >= 1
    BY <1>1, InstancesAssumption DEF ConfigOK
  <2>3. units' \in Seq(Addrs)
    BY <2>1, <2>2, SeqDef
  <2>4. BunchOK' /\ ToSet(units') \in SUBSET Addrs
    BY <1>1, <2>1, <2>3, AddrsOf DEF BunchOK
  <2>5. ReportsOK'
    <3>1. {Spawned(ToSet(units'))} \in SUBSET Report
      BY <2>4, ReportsTyped
    <3> QED BY <1>1, <2>1, <3>1, ToldOf
  <2>6. ScriptsOK' /\ main' \in {"select", "script"}
    <3>1. PICK addrs \in SUBSET Addrs : addrs = ToSet(units')
      BY <2>4
    <3>2. Scripted(addrs, {}, {}, failures)
      BY <2>0, <3>1
    <3>3. /\ scripts' \in Seq(Script) /\ excused' \subseteq Addrs
          /\ UNCHANGED <<conf, bak>> /\ main' \in {"select", "script"}
      <4>1. {} \in SUBSET Addrs
        OBVIOUS
      <4> QED BY <1>1, <3>2, <4>1, ScriptedIs
    <3> QED BY <1>1, <3>3 DEF ScriptsOK
  <2>7. CountOK'
    <3>1. count.starts \in Nat
      BY <1>1 DEF CountOK
    <3>2. count.starts + 1 <= (count.starts + 1) * instances_count
      BY <2>2, <3>1
    <3>3. count.starts + 1 <= MaxStarts
      BY <2>1, <2>2, <3>1, <3>2, BoundsAssumption
    <3>4. PICK n \in Nat : n = failures + IF count.starts = 0 THEN 0 ELSE 1
      OBVIOUS
    <3>5. unheard' \in Nat /\ unheard' <= unheard + n
      BY <1>1, <2>1 DEF CountOK
    <3>6. Spend(1, n) /\ 1 \in Nat
      BY <2>0, <3>4
    <3> QED BY <3>3, <3>5, <3>6, Spent
  <2>8. MainOK' /\ FilesOK'
    BY <1>1, <2>1, <2>6 DEF MainOK, FilesOK, fileVars
  <2> QED BY <1>1, <2>4, <2>5, <2>6, <2>7, <2>8 DEF TypeInv
<1>3. CASE TakeReport
  <2>1. PICK report \in DOMAIN outbox :
           /\ outbox' = outbox (-) SetToBag({report})
           /\ \E failures \in {0, 1} :
                 /\ Incidents(failures)
                 /\ Scripted(report.came, report.went, InUse, failures)
    BY <1>3 DEF TakeReport, BagToSet
  <2>0. PICK failures \in {0, 1} : /\ Incidents(failures)
                                   /\ Scripted(report.came, report.went, InUse, failures)
    BY <2>1
  <2>2. UNCHANGED <<bunchVars, event, fileVars>>
    BY <1>3 DEF TakeReport
  <2>3. ReportsOK'
    BY <1>1, <2>1, TakenFrom
  <2>4. ScriptsOK' /\ main' \in {"select", "script"}
    <3>1. /\ report.came \in SUBSET Addrs /\ report.went \in SUBSET Addrs
          /\ InUse \in SUBSET Addrs
      BY <1>1, <2>1, AddrsOf DEF ReportsOK, Report, InUse, BunchOK
    <3>2. /\ scripts' \in Seq(Script) /\ excused' \subseteq Addrs
          /\ UNCHANGED <<conf, bak>> /\ main' \in {"select", "script"}
      BY <1>1, <2>0, <3>1, ScriptedIs
    <3> QED BY <1>1, <3>2 DEF ScriptsOK
  <2>5. BunchOK' /\ MainOK' /\ FilesOK'
    BY <1>1, <2>2, <2>4 DEF BunchOK, MainOK, FilesOK, bunchVars, fileVars
  <2>6. CountOK'
    <3>1. unheard' \in Nat /\ unheard' <= unheard + failures /\ failures \in Nat
      BY <1>1, <2>2 DEF CountOK, bunchVars
    <3> QED BY <2>0, <3>1, Counted
  <2> QED BY <1>1, <2>3, <2>4, <2>5, <2>6 DEF TypeInv
<1>4. CASE RemoveStable
  <2>1. /\ \E report \in DOMAIN outbox : outbox' = outbox (-) SetToBag({report})
        /\ UNCHANGED <<bunchVars, event, scriptVars, new, torn, count>>
        /\ stable' = 0 /\ main' \in {"renaming", "select"}
    BY <1>4 DEF RemoveStable, BagToSet
  <2>2. ReportsOK'
    BY <1>1, <2>1, TakenFrom
  <2>3. BunchOK' /\ ScriptsOK' /\ CountOK' /\ MainOK'
    BY <1>1, <2>1 DEF BunchOK, ScriptsOK, CountOK, MainOK, bunchVars, scriptVars
  <2>4. FilesOK'
    BY <1>1, <2>1, BoundsAssumption DEF FilesOK
  <2> QED BY <1>1, <2>2, <2>3, <2>4 DEF TypeInv
<1>5. CASE Rename
  <2>1. /\ UNCHANGED <<bunchVars, outbox, event, scriptVars, torn, count>>
        /\ stable' = new /\ new' = 0 /\ main' = "select"
    BY <1>5 DEF Rename
  <2>2. BunchOK' /\ ReportsOK' /\ ScriptsOK' /\ CountOK' /\ MainOK'
    BY <1>1, <2>1 DEF BunchOK, ReportsOK, ScriptsOK, CountOK, MainOK, bunchVars, scriptVars
  <2>3. FilesOK'
    BY <1>1, <2>1, BoundsAssumption DEF FilesOK
  <2> QED BY <1>1, <2>2, <2>3 DEF TypeInv
<1>6. CASE EventDropped
  <2>1. event' = FALSE /\ UNCHANGED <<bunchVars, outbox, main, scriptVars, fileVars, count>>
    BY <1>6 DEF EventDropped
  <2> QED BY <1>1, <2>1 DEF TypeInv, BunchOK, ReportsOK, ScriptsOK, CountOK, MainOK,
                            FilesOK, bunchVars, scriptVars, fileVars
<1> QED BY <1>2, <1>3, <1>4, <1>5, <1>6 DEF Controller

LEMMA WorldTypes ==
  ASSUME TypeInv, World
  PROVE  TypeInv'
<1>1. /\ ConfigOK /\ BunchOK /\ ReportsOK /\ ScriptsOK /\ FilesOK /\ CountOK /\ MainOK
      /\ ConfigOK'
  BY DEF TypeInv, ConfigOK, configVars, World, Accept, DropFile, Crash, Boot
<1>2. CASE Accept
  <2>1. /\ Incident /\ main' = "select"
        /\ scripts' = [k \in DOMAIN scripts |-> [scripts[k] EXCEPT !.waited = FALSE]]
        /\ bunch' = bunch \/ bunch' = "off"
        /\ units' = units \/ units' = <<>>
        /\ UNCHANGED <<fresh, unheard, outbox, event, conf, bak, excused, fileVars>>
    BY <1>2 DEF Accept
  <2>2. ScriptsOK'
    BY <1>1, <2>1, AloneIs DEF ScriptsOK
  <2>3. ReportsOK' /\ MainOK' /\ FilesOK'
    BY <1>1, <2>1 DEF ReportsOK, MainOK, FilesOK, fileVars
  <2>4. BunchOK'
    <3>1. units' \in Seq(Addrs) /\ fresh' \in Seq(Addrs)
      <4>1. /\ units \in Seq(Addrs) /\ fresh \in Seq(Addrs) /\ fresh' = fresh
            /\ units' = units \/ units' = <<>>
        BY <1>1, <2>1 DEF BunchOK
      <4>2. <<>> \in Seq(Addrs)
        OBVIOUS
      <4>3. \A s : s = units \/ s = <<>> => s \in Seq(Addrs)
        BY <4>1, <4>2
      <4> QED BY <4>1, <4>3
    <3>2. bunch' = "rolling" => fresh' # <<>>
      BY <1>1, <2>1 DEF BunchOK
    <3> QED BY <1>1, <2>1, <3>1, <3>2 DEF BunchOK
  <2>5. CountOK'
    <3>1. unheard' \in Nat /\ unheard' <= unheard
      BY <1>1, <2>1 DEF CountOK
    <3> QED BY <2>1, <3>1, CountedOnce
  <2> QED BY <1>1, <2>2, <2>3, <2>4, <2>5 DEF TypeInv
<1>3. CASE DropFile
  <2>1. /\ count.incidents < MaxIncidents /\ new' = count.files + 2
        /\ count' = [count EXCEPT !.incidents = @ + 1, !.files = @ + 1]
        /\ event' = (main # "down")
        /\ UNCHANGED <<bunchVars, outbox, main, scriptVars, stable, torn>>
    BY <1>3 DEF DropFile
  <2>2. /\ count.incidents \in Nat /\ count.files \in Nat
        /\ count.files <= count.incidents /\ unheard \in Nat
        /\ unheard <= count.incidents
    BY <1>1 DEF CountOK
  <2>3. /\ count.incidents + 1 \in 0..MaxIncidents /\ count.files + 1 \in 0..MaxIncidents
        /\ count.files + 2 \in 0..(MaxIncidents + 1)
    BY <2>1, <2>2, BoundsAssumption
  <2>4. CountOK'
    <3>1. count' \in [starts : 0..MaxStarts, incidents : 0..MaxIncidents,
                      files : 0..MaxIncidents]
          /\ count'.incidents = count.incidents + 1 /\ count'.files = count.files + 1
      BY <1>1, <2>1, <2>3 DEF CountOK
    <3>2. unheard' = unheard
      BY <2>1 DEF bunchVars
    <3> QED BY <2>2, <3>1, <3>2 DEF CountOK
  <2>5. FilesOK'
    BY <1>1, <2>1, <2>3 DEF FilesOK
  <2>6. BunchOK' /\ ReportsOK' /\ ScriptsOK' /\ MainOK'
    BY <1>1, <2>1 DEF BunchOK, ReportsOK, ScriptsOK, MainOK, bunchVars, scriptVars
  <2> QED BY <1>1, <2>4, <2>5, <2>6 DEF TypeInv
<1>4. CASE Crash
  <2>1. /\ Incident /\ Off /\ main' = "down" /\ outbox' = EmptyBag /\ event' = FALSE
        /\ scripts' = [k \in DOMAIN scripts |-> [scripts[k] EXCEPT !.waited = FALSE]]
        /\ torn' = (torn \/ main = "renaming")
        /\ UNCHANGED <<conf, bak, excused, stable, new>>
    BY <1>4 DEF Crash
  <2>2. ScriptsOK'
    BY <1>1, <2>1, AloneIs DEF ScriptsOK
  <2>3. BunchOK' /\ CountOK'
    BY <2>1, OffOK
  <2>4. ReportsOK'
    BY <2>1 DEF ReportsOK, EmptyBag, SetToBag, IsABag
  <2>5. MainOK' /\ FilesOK'
    BY <1>1, <2>1 DEF MainOK, FilesOK
  <2> QED BY <1>1, <2>2, <2>3, <2>4, <2>5 DEF TypeInv
<1>5. CASE Boot
  <2>1. main' = "select" /\ UNCHANGED <<bunchVars, outbox, event, scriptVars, fileVars, count>>
    BY <1>5 DEF Boot
  <2> QED BY <1>1, <2>1 DEF TypeInv, BunchOK, ReportsOK, ScriptsOK, CountOK, MainOK,
                            FilesOK, bunchVars, scriptVars, fileVars
<1> QED BY <1>2, <1>3, <1>4, <1>5 DEF World

LEMMA TypeInvInit == Init => TypeInv
<1> SUFFICES ASSUME Init PROVE TypeInv
  OBVIOUS
<1>1. /\ update_exec \in {"bash", "rust"} /\ instances_count \in Instances
      /\ bunch = "off" /\ units = <<>> /\ fresh = <<>> /\ unheard = 0
      /\ outbox = EmptyBag /\ event = FALSE /\ main = "select"
      /\ scripts = <<>> /\ conf = {} /\ bak = NoFile /\ excused = {}
      /\ stable = 1 /\ new = 0 /\ torn = FALSE
      /\ count = [starts |-> 0, incidents |-> 0, files |-> 0]
  BY DEF Init
<1>2. ConfigOK /\ MainOK
  BY <1>1 DEF ConfigOK, MainOK
<1>3. BunchOK
  BY <1>1 DEF BunchOK
<1>4. ScriptsOK
  BY <1>1 DEF ScriptsOK
<1>5. ReportsOK
  BY <1>1 DEF ReportsOK, EmptyBag, SetToBag, IsABag
<1>6. FilesOK
  <2>1. 0 \in 0..(MaxIncidents + 1) /\ 1 \in 0..(MaxIncidents + 1)
    BY BoundsAssumption
  <2> QED BY <1>1, <2>1 DEF FilesOK
<1>7. CountOK
  BY <1>1, BoundsAssumption DEF CountOK
<1> QED BY <1>2, <1>3, <1>4, <1>5, <1>6, <1>7 DEF TypeInv

LEMMA TypeInvAlways == Spec => []TypeInv
<1>1. TypeInv /\ [Next]_vars => TypeInv'
  <2> SUFFICES ASSUME TypeInv, [Next]_vars PROVE TypeInv'
    OBVIOUS
  <2>1. CASE UNCHANGED vars
    BY <2>1 DEF vars, configVars, bunchVars, scriptVars, fileVars, TypeInv, ConfigOK,
                BunchOK, ReportsOK, MainOK, ScriptsOK, FilesOK, CountOK
  <2> QED BY <2>1, BunchTypes, ScriptTypes, ControllerTypes, WorldTypes DEF Next, Rest
<1> QED BY <1>1, TypeInvInit, PTL DEF Spec

\* Whatever the order of reports, runs of the script, restarts, updates and crashes:
\* the script is only ever given addresses, an update always has a unit of the new
\* version to report (Retired names the last of them), and a backup is a
\* configuration (bunch_controller.rs, nginx-update.rs, bash/nginx-update).
THEOREM ManagedServiceTypeCorrect == Spec => []TypeOK
BY TypeInvAlways, TypeInvTypeOK, PTL

-----------------------------------------------------------------------------
(* The executables: the inductive invariant.                                 *)

\* The bag of reports: one copy of UpdateFinished at most.
OutboxOK ==
    \A r \in DOMAIN outbox :
       /\ outbox[r] \in Nat \ {0}
       /\ r.type = "UpdateFinished" => r = UpdateFinished /\ outbox[r] = 1

Pending == UpdateFinished \in DOMAIN outbox

\* The last version delivered.
Latest == count.files + 1

\* An update goes through four stages, of which only one is under way at a time,
\* and meanwhile the new file is the last version delivered: the file was
\* noticed, units are being replaced, UpdateFinished is under way, the stable
\* file is gone.  (Without this, UpdateFinished would remove the only copy.)
OneStage ==
    /\ event => bunch # "rolling" /\ ~Pending /\ main # "renaming"
    /\ bunch = "rolling" => ~Pending /\ main # "renaming"
    /\ Pending => main # "renaming"
    /\ (event \/ bunch = "rolling" \/ Pending \/ main = "renaming") => new = Latest

\* The main task waits for one script at most, and only while it does nothing
\* else: no script's exit makes it leave replace_stable_exec half-way.
OneWait ==
    /\ scripts \in Seq(ToSet(scripts))
    /\ \A k \in DOMAIN scripts : "waited" \in DOMAIN scripts[k]
    /\ \A k \in DOMAIN scripts : scripts[k].waited => main = "script"
    /\ \A j, k \in DOMAIN scripts :
          scripts[j].waited /\ scripts[k].waited => j = k

ExecInv ==
    /\ OneWait
    /\ count \in [starts : Nat, incidents : Nat, files : Nat]
    /\ OutboxOK
    /\ OneStage
    /\ main = "renaming" => stable = 0
    /\ ExecutableKept

-----------------------------------------------------------------------------
(* The bag of reports.                                                       *)

LEMMA ReportTypes ==
  /\ \A came, went : Replaced(came, went).type = "Replaced"
  /\ \A came : Spawned(came).type = "Spawned"
  /\ \A went : Despawned(went).type = "Despawned"
  /\ UpdateFinished.type = "UpdateFinished"
BY DEF Replaced, Spawned, Despawned, UpdateFinished, NewReport

\* Reports about units are sent.
LEMMA TellUnits ==
  ASSUME OutboxOK, NEW reports, Tell(reports),
         \A r \in reports : r.type # "UpdateFinished"
  PROVE  OutboxOK' /\ (Pending' <=> Pending)
<1>1. outbox' = [r \in DOMAIN outbox \cup reports |->
                    (IF r \in DOMAIN outbox THEN outbox[r] ELSE 0)
                    + (IF r \in reports THEN 1 ELSE 0)]
  BY DEF Tell, (+), SetToBag
<1>2. ASSUME NEW r \in DOMAIN outbox'
      PROVE  /\ outbox'[r] \in Nat \ {0}
             /\ r.type = "UpdateFinished" => r = UpdateFinished /\ outbox'[r] = 1
  BY <1>1, <1>2 DEF OutboxOK
<1>3. UpdateFinished \notin reports
  BY ReportTypes
<1>4. Pending' <=> Pending
  BY <1>1, <1>3 DEF Pending, UpdateFinished, NewReport
<1> QED BY <1>2, <1>4 DEF OutboxOK

\* The end of an update is reported, and it is the only one.
LEMMA TellFinished ==
  ASSUME OutboxOK, ~Pending, NEW reports, Tell(reports \cup {UpdateFinished}),
         \A r \in reports : r.type # "UpdateFinished"
  PROVE  OutboxOK' /\ Pending'
<1> DEFINE all == reports \cup {UpdateFinished}
<1>1. outbox' = [r \in DOMAIN outbox \cup all |->
                    (IF r \in DOMAIN outbox THEN outbox[r] ELSE 0)
                    + (IF r \in all THEN 1 ELSE 0)]
  BY DEF Tell, (+), SetToBag
<1>2. UpdateFinished \in all /\ UpdateFinished \notin DOMAIN outbox
  BY DEF Pending
<1>3. \A r \in all : r.type = "UpdateFinished" => r = UpdateFinished
  OBVIOUS
<1> HIDE DEF all
<1>4. ASSUME NEW r \in DOMAIN outbox'
      PROVE  /\ outbox'[r] \in Nat \ {0}
             /\ r.type = "UpdateFinished" => r = UpdateFinished /\ outbox'[r] = 1
  BY <1>1, <1>2, <1>3, <1>4 DEF OutboxOK
<1>5. Pending'
  BY <1>1, <1>2 DEF Pending, UpdateFinished, NewReport
<1> QED BY <1>4, <1>5 DEF OutboxOK

\* A report is taken.
LEMMA TakeOne ==
  ASSUME OutboxOK, NEW report \in DOMAIN outbox,
         outbox' = outbox (-) SetToBag({report})
  PROVE  /\ OutboxOK'
         /\ Pending' => Pending
         /\ report.type = "UpdateFinished" => Pending /\ ~Pending'
<1> DEFINE left == [r \in DOMAIN outbox |->
                      IF r = report THEN outbox[r] - 1 ELSE outbox[r]]
<1>1. outbox' = [r \in {d \in DOMAIN left : left[d] > 0} |-> left[r]]
  BY DEF (-), SetToBag
<1>2. /\ DOMAIN outbox' = {d \in DOMAIN outbox : left[d] > 0}
      /\ \A r \in DOMAIN outbox' : outbox'[r] = left[r]
  BY <1>1
<1>3. ASSUME NEW r \in DOMAIN outbox'
      PROVE  /\ outbox'[r] \in Nat \ {0}
             /\ r.type = "UpdateFinished" => r = UpdateFinished /\ outbox'[r] = 1
  <2>1. r \in DOMAIN outbox /\ outbox'[r] = left[r] /\ left[r] > 0
    BY <1>2, <1>3
  <2> QED BY <2>1 DEF OutboxOK
<1>4. Pending' => Pending
  BY <1>2 DEF Pending, UpdateFinished, NewReport
<1>5. report.type = "UpdateFinished" => Pending /\ ~Pending'
  <2> SUFFICES ASSUME report.type = "UpdateFinished" PROVE Pending /\ ~Pending'
    OBVIOUS
  <2>1. report = UpdateFinished /\ outbox[report] = 1
    BY DEF OutboxOK
  <2>2. UpdateFinished \notin DOMAIN outbox'
    <3>1. left[report] = 0
      BY <2>1
    <3> HIDE DEF left
    <3> QED BY <1>2, <2>1, <3>1
  <2> QED BY <2>1, <2>2 DEF Pending, UpdateFinished, NewReport
<1> QED BY <1>3, <1>4, <1>5 DEF OutboxOK

-----------------------------------------------------------------------------
(* The scripts.                                                              *)

\* The processes stay; a wait may end.
LEMMA ScriptsStay ==
  ASSUME OneWait, DOMAIN scripts' = DOMAIN scripts,
         scripts' = [k \in DOMAIN scripts |-> scripts'[k]],
         \A k \in DOMAIN scripts :
            /\ "waited" \in DOMAIN scripts'[k]
            /\ scripts'[k].waited => scripts[k].waited /\ main' = main
  PROVE  OneWait'
<1>1. Len(scripts) \in Nat /\ DOMAIN scripts = 1..Len(scripts)
  BY DEF OneWait
<1>2. \A k \in 1..Len(scripts) : scripts'[k] \in ToSet(scripts')
  BY <1>1 DEF ToSet
<1>3. scripts' \in [1..Len(scripts) -> ToSet(scripts')]
  BY <1>1, <1>2
<1>4. scripts' \in Seq(ToSet(scripts'))
  BY <1>1, <1>3
<1>5. /\ \A k \in DOMAIN scripts : scripts[k].waited => main = "script"
      /\ \A j, k \in DOMAIN scripts :
            scripts[j].waited /\ scripts[k].waited => j = k
  BY DEF OneWait
<1> QED BY <1>4, <1>5 DEF OneWait

\* A script exits: if the main task waited for it, it waits for none any more,
\* and was in the middle of nothing else.
LEMMA ScriptExits ==
  ASSUME OneWait, NEW k \in DOMAIN scripts, ExitScript(k)
  PROVE  /\ OneWait'
         /\ main' # main => main = "script" /\ main' = "select"
         /\ bunch' = "rolling" => bunch = "rolling"
<1>1. /\ scripts \in Seq(ToSet(scripts))
      /\ \A i \in DOMAIN scripts : "waited" \in DOMAIN scripts[i]
      /\ \A i \in DOMAIN scripts : scripts[i].waited => main = "script"
      /\ \A i, j \in DOMAIN scripts :
            scripts[i].waited /\ scripts[j].waited => i = j
  BY DEF OneWait
<1> DEFINE at(i) == IF i < k THEN i ELSE i + 1
           rest  == 1..(Len(scripts) - 1)
<1>2. /\ scripts' \in Seq(ToSet(scripts)) /\ DOMAIN scripts' = rest
      /\ \A i \in rest : /\ scripts'[i] = scripts[at(i)]
                          /\ at(i) \in DOMAIN scripts \ {k}
  <2>1. scripts' = RemoveAt(scripts, k)
    BY DEF ExitScript
  <2>2. \A i \in rest : scripts'[i] = scripts[at(i)]
    <3> SUFFICES ASSUME NEW i \in rest PROVE scripts'[i] = scripts[at(i)]
      OBVIOUS
    <3>1. scripts'[i] = IF i < k THEN scripts[i] ELSE scripts[i + 1]
      BY <1>1, <2>1, RemoveProperties
    <3> QED BY <3>1
  <2> QED BY <1>1, <2>1, <2>2, RemoveProperties
<1>3. \A i, j \in rest : at(i) = at(j) => i = j
  <2>1. k \in Nat /\ rest \subseteq Nat
    BY <1>1
  <2> QED BY <2>1
<1> HIDE DEF at
<1>4. scripts' \in Seq(ToSet(scripts'))
  <2>1. DOMAIN scripts' = 1..Len(scripts') /\ Len(scripts') \in Nat
    BY <1>2
  <2>2. scripts' = [i \in 1..Len(scripts') |-> scripts'[i]]
    BY <1>2, <2>1
  <2>3. \A i \in 1..Len(scripts') : scripts'[i] \in ToSet(scripts')
    BY <2>1 DEF ToSet
  <2>4. scripts' \in [1..Len(scripts') -> ToSet(scripts')]
    BY <2>2, <2>3
  <2> QED BY <2>1, <2>4
<1>5. main' = IF scripts[k].waited THEN "select" ELSE main
  BY DEF ExitScript
<1>6. \A i \in rest : scripts'[i].waited => ~scripts[k].waited /\ main = "script"
  BY <1>1, <1>2
<1>7. OneWait'
  <2>1. \A i \in rest : scripts'[i].waited => main' = "script"
    BY <1>5, <1>6
  <2>2. \A i, j \in rest : scripts'[i].waited /\ scripts'[j].waited => i = j
    BY <1>1, <1>2, <1>3
  <2>3. \A i \in rest : "waited" \in DOMAIN scripts'[i]
    BY <1>1, <1>2
  <2> QED BY <1>2, <1>4, <2>1, <2>2, <2>3 DEF OneWait
<1> QED BY <1>1, <1>5, <1>7 DEF ExitScript

\* A report leads to a script, or not.
LEMMA ScriptStarts ==
  ASSUME OneWait, main # "script", NEW came, NEW went, NEW held, NEW failures,
         Scripted(came, went, held, failures)
  PROVE  OneWait' /\ main' \in {"select", "script"}
<1>1. /\ scripts \in Seq(ToSet(scripts))
      /\ \A i \in DOMAIN scripts : "waited" \in DOMAIN scripts[i]
      /\ \A i \in DOMAIN scripts : ~scripts[i].waited
      /\ DOMAIN scripts = 1..Len(scripts) /\ Len(scripts) \in Nat
  BY DEF OneWait
<1>2. CASE Args(came, went).refused \/ failures = 1
  <2>1. scripts' = scripts /\ main' = "select"
    BY <1>2 DEF Scripted
  <2> QED BY <1>1, <2>1 DEF OneWait
<1>3. CASE ~(Args(came, went).refused \/ failures = 1)
  <2> DEFINE n == Len(scripts)
             others == [i \in DOMAIN scripts |-> [scripts[i] EXCEPT !.clean = FALSE]]
  <2>1. PICK script : /\ scripts' = Append(others, script)
                      /\ "waited" \in DOMAIN script
                      /\ main' = "script"
    <3> DEFINE args == Args(came, went)
               s == [add |-> args.add, remove |-> args.remove,
                     old |-> went \ came, at |-> "read", saved |-> {},
                     clean |-> scripts = <<>>, waited |-> TRUE]
    <3>1. scripts' = Append(others, s) /\ main' = "script"
      BY <1>3 DEF Scripted
    <3>2. "waited" \in DOMAIN s
      OBVIOUS
    <3> QED BY <3>1, <3>2
  <2>2. /\ \A i \in 1..n : "waited" \in DOMAIN others[i] /\ ~others[i].waited
        /\ others \in Seq(ToSet(others))
    <3>1. others \in [1..n -> ToSet(others)]
      <4>1. \A i \in 1..n : others[i] \in ToSet(others)
        BY <1>1 DEF ToSet
      <4> HIDE DEF ToSet
      <4> QED BY <1>1, <4>1
    <3> HIDE DEF ToSet
    <3>2. ASSUME NEW i \in 1..n
          PROVE  "waited" \in DOMAIN others[i] /\ ~others[i].waited
      <4>1. others[i] = [scripts[i] EXCEPT !.clean = FALSE]
        BY <1>1
      <4>2. "waited" \in DOMAIN scripts[i] /\ ~scripts[i].waited
        BY <1>1
      <4> QED BY <4>1, <4>2
    <3> QED BY <1>1, <3>1, <3>2
  <2>3. Len(others) = n
    BY <1>1, <2>2
  <2> HIDE DEF others
  <2>4. /\ scripts' \in Seq(ToSet(others) \cup {script})
        /\ DOMAIN scripts' = 1..(n + 1)
        /\ \A i \in 1..n : scripts'[i] = others[i]
        /\ scripts'[n + 1] = script
    <3> DEFINE T == ToSet(others) \cup {script}
    <3>1. others \in Seq(T) /\ script \in T
      BY <2>2
    <3> HIDE DEF T
    <3>2. scripts' \in Seq(T)
      BY <2>1, <3>1
    <3> QED BY <1>1, <2>1, <2>3, <3>1, <3>2 DEF T
  <2>5. scripts' \in Seq(ToSet(scripts'))
    <3>1. /\ DOMAIN scripts' = 1..Len(scripts') /\ Len(scripts') \in Nat
          /\ scripts' = [i \in 1..Len(scripts') |-> scripts'[i]]
      BY <2>4
    <3>2. \A i \in 1..Len(scripts') : scripts'[i] \in ToSet(scripts')
      BY <3>1 DEF ToSet
    <3>3. scripts' \in [1..Len(scripts') -> ToSet(scripts')]
      BY <3>1, <3>2
    <3> QED BY <3>1, <3>3
  <2>6. \A i \in 1..(n + 1) : "waited" \in DOMAIN scripts'[i]
    BY <1>1, <2>1, <2>2, <2>4
  <2>7. \A i \in 1..(n + 1) : scripts'[i].waited => i = n + 1
    BY <1>1, <2>2, <2>4
  <2> QED BY <2>1, <2>4, <2>5, <2>6, <2>7 DEF OneWait
<1> QED BY <1>2, <1>3

-----------------------------------------------------------------------------
(* The steps.                                                                *)

\* A step that moves no file, and in which no update gets further.
LEMMA NothingMoves ==
  ASSUME ExecInv, OneWait', UNCHANGED <<stable, new>>, torn => torn', OutboxOK',
         count' \in [starts : Nat, incidents : Nat, files : Nat],
         count'.files = count.files,
         event' => event, bunch' = "rolling" => bunch = "rolling",
         Pending' => Pending, main' = "renaming" => main = "renaming",
         main = "renaming" => main' = "renaming" \/ torn'
  PROVE  ExecInv'
BY DEF ExecInv, OneStage, ExecutableKept, Latest

LEMMA SpendCount ==
  ASSUME ExecInv, NEW starts \in Nat, NEW n \in Nat, Spend(starts, n)
  PROVE  /\ count' \in [starts : Nat, incidents : Nat, files : Nat]
         /\ count'.files = count.files
<1>1. count \in [starts : Nat, incidents : Nat, files : Nat]
  BY DEF ExecInv
<1>2. count.starts + starts \in Nat /\ count.incidents + n \in Nat
  BY <1>1
<1> QED BY <1>1, <1>2 DEF Spend

LEMMA IncidentCount ==
  ASSUME ExecInv, Incident
  PROVE  /\ count' \in [starts : Nat, incidents : Nat, files : Nat]
         /\ count'.files = count.files
<1>1. Spend(0, 1) /\ 0 \in Nat /\ 1 \in Nat
  BY DEF Incident, Incidents
<1> QED BY <1>1, SpendCount

\* The scripts and who waits for them are left alone.
LEMMA SameScripts ==
  ASSUME OneWait, UNCHANGED <<main, scripts>>
  PROVE  OneWait'
BY DEF OneWait

LEMMA BunchStep ==
  ASSUME ExecInv, Bunch
  PROVE  ExecInv'
<1>0. /\ OutboxOK /\ OneStage
      /\ count \in [starts : Nat, incidents : Nat, files : Nat]
      /\ OneWait'
  <2>1. UNCHANGED <<main, scripts>>
    BY DEF Bunch, Restart, RestartUnlisted, RestartPanics, Stop, StartUpdate, Roll,
           RollPanics, scriptVars
  <2> QED BY <2>1, SameScripts DEF ExecInv
<1>1. CASE Restart
  <2>1. /\ UNCHANGED <<bunch, event, main, stable, new, torn>> /\ Incident
        /\ \E old, addr : Tell({Replaced(old, addr)})
    BY <1>1 DEF Restart, fileVars
  <2>2. OutboxOK' /\ (Pending' => Pending)
    BY <1>0, <2>1, TellUnits, ReportTypes
  <2> QED BY <1>0, <2>1, <2>2, NothingMoves, IncidentCount
<1>5. CASE RestartUnlisted \/ RestartPanics \/ RollPanics
  <2>1. /\ UNCHANGED <<outbox, event, main, stable, new, torn>>
        /\ bunch' = "rolling" => bunch = "rolling"
        /\ Incident \/ UNCHANGED count
    BY <1>5 DEF RestartUnlisted, RestartPanics, RollPanics, Off, fileVars
  <2>2. OutboxOK' /\ Pending' = Pending
    BY <1>0, <2>1 DEF OutboxOK, Pending
  <2>3. /\ count' \in [starts : Nat, incidents : Nat, files : Nat]
        /\ count'.files = count.files
    BY <1>0, <2>1, IncidentCount
  <2> QED BY <1>0, <2>1, <2>2, <2>3, NothingMoves
<1>2. CASE Stop
  <2>1. OutboxOK' /\ (Pending' => Pending)
    BY <1>0, <1>2, TellUnits, ReportTypes DEF Stop
  <2> QED BY <1>0, <1>2, <2>1, NothingMoves DEF Stop, Off, fileVars
<1>3. CASE StartUpdate
  <2>1. /\ UNCHANGED <<stable, new, torn, main>> /\ event /\ ~event'
        /\ bunch = "running" /\ main # "renaming" /\ ~Pending /\ new = Latest
    BY <1>0, <1>3 DEF StartUpdate, fileVars, OneStage
  <2>2. CASE UNCHANGED count /\ \E addr : Tell({Spawned({addr})})
    <3>1. OutboxOK' /\ ~Pending'
      BY <1>0, <2>1, <2>2, TellUnits, ReportTypes
    <3> QED BY <1>0, <2>1, <2>2, <3>1 DEF ExecInv, OneStage, ExecutableKept, Latest
  <2>3. CASE Incident /\ UNCHANGED <<bunch, fresh, outbox>>
    <3>1. OutboxOK' /\ Pending' = Pending
      BY <1>0, <2>3 DEF OutboxOK, Pending
    <3> QED BY <1>0, <2>1, <2>3, <3>1, NothingMoves, IncidentCount
  <2> QED BY <1>3, <2>2, <2>3 DEF StartUpdate
<1>4. CASE Roll
  <2>1. /\ UNCHANGED <<event, main, stable, new, torn>>
        /\ bunch = "rolling" /\ ~Pending
        /\ \E n \in {0, 1, 2} : Incidents(n)
    <3>1. PICK gone \in {0, 1} : Incidents(gone) \/ Incidents(gone + 1)
      BY <1>4 DEF Roll
    <3>2. gone \in {0, 1, 2} /\ gone + 1 \in {0, 1, 2}
      OBVIOUS
    <3> QED BY <1>0, <1>4, <3>1, <3>2 DEF Roll, fileVars, OneStage
  <2>2. ~event /\ main # "renaming" /\ new = Latest
    BY <1>0, <2>1 DEF OneStage
  <2>3. /\ count' \in [starts : Nat, incidents : Nat, files : Nat]
        /\ count'.files = count.files
    <3>1. PICK n \in {0, 1, 2} : Incidents(n)
      BY <2>1
    <3>2. Spend(0, n) /\ 0 \in Nat /\ n \in Nat
      BY <3>1 DEF Incidents
    <3> QED BY <3>2, SpendCount
  <2>4. \A r \in Retired : r.type # "UpdateFinished"
    BY ReportTypes DEF Retired
  <2>5. CASE /\ bunch' \in {"rolling", "running"}
             /\ \/ \E addr : Tell(Retired \cup {Spawned({addr})})
                \/ Tell(Retired)
    <3>1. PICK some : Tell(some) /\ \A r \in some : r.type # "UpdateFinished"
      <4>1. CASE Tell(Retired)
        BY <2>4, <4>1
      <4>2. CASE \E addr : Tell(Retired \cup {Spawned({addr})})
        <5>1. PICK addr : Tell(Retired \cup {Spawned({addr})})
          BY <4>2
        <5>2. \A r \in Retired \cup {Spawned({addr})} : r.type # "UpdateFinished"
          BY <2>4, ReportTypes
        <5> QED BY <5>1, <5>2
      <4> QED BY <2>5, <4>1, <4>2
    <3>2. OutboxOK' /\ ~Pending'
      BY <1>0, <2>1, <3>1, TellUnits
    <3> QED BY <1>0, <2>1, <2>3, <3>2, NothingMoves
  <2>6. CASE bunch' = "running" /\ Tell(Retired \cup {UpdateFinished})
    <3>1. OutboxOK' /\ Pending'
      BY <1>0, <2>1, <2>4, <2>6, TellFinished
    <3> QED BY <1>0, <2>1, <2>2, <2>3, <2>6, <3>1
            DEF ExecInv, OneStage, ExecutableKept, Latest
  <2> QED BY <1>4, <2>1, <2>5, <2>6 DEF Roll
<1> QED BY <1>1, <1>2, <1>3, <1>4, <1>5 DEF Bunch

LEMMA ScriptStep ==
  ASSUME ExecInv, NEW k \in DOMAIN scripts, UpdateScript(k)
  PROVE  ExecInv'
<1>0. /\ OneWait /\ OutboxOK
      /\ count \in [starts : Nat, incidents : Nat, files : Nat]
      /\ \A i \in DOMAIN scripts : "waited" \in DOMAIN scripts[i]
  BY DEF ExecInv, OneWait
<1>1. /\ UNCHANGED <<outbox, event, stable, new, torn>>
      /\ count' \in [starts : Nat, incidents : Nat, files : Nat]
      /\ count'.files = count.files
  <2>1. /\ UNCHANGED <<outbox, event, stable, new, torn>>
        /\ Incident \/ UNCHANGED count
    BY DEF UpdateScript, Read, Overwrite, Write, Skip, Abort, TestOk, TestFails, Reverted,
           fileVars
  <2> QED BY <1>0, <2>1, IncidentCount
<1>2. OutboxOK' /\ Pending' = Pending
  BY <1>0, <1>1 DEF OutboxOK, Pending
<1>3. CASE Read(k) \/ Overwrite(k) \/ Write(k) \/ Skip(k) \/ (TestFails(k) /\ RevertRust(k))
  <2>1. /\ UNCHANGED <<bunch, main>>
        /\ DOMAIN scripts' = DOMAIN scripts
        /\ scripts' = [i \in DOMAIN scripts |-> scripts'[i]]
    BY <1>3 DEF Read, Overwrite, Write, Skip, TestFails, RevertRust, bunchVars
  <2>2. ASSUME NEW i \in DOMAIN scripts
        PROVE  /\ "waited" \in DOMAIN scripts'[i]
               /\ scripts'[i].waited = scripts[i].waited
    <3>1. CASE Read(k)
      <4>1. PICK part : scripts' = [scripts EXCEPT ![k].at = "write",
                                                   ![k].saved = conf \cup part]
        BY <3>1 DEF Read
      <4>2. scripts'[i] = IF i = k
               THEN [[scripts[i] EXCEPT !.at = "write"] EXCEPT !.saved = conf \cup part]
               ELSE scripts[i]
        BY <4>1
      <4> QED BY <1>0, <4>2
    <3>2. CASE Write(k)
      <4>1. PICK add, saved : scripts'[i] = IF i = k
               THEN [[[scripts[i] EXCEPT !.at = "test"]
                                  EXCEPT !.add = add] EXCEPT !.saved = saved]
               ELSE scripts[i]
        BY <3>2 DEF Write
      <4> QED BY <1>0, <4>1
    <3>3. CASE Overwrite(k)
      <4>1. scripts'[i] = IF i = k THEN [scripts[i] EXCEPT !.at = "writing"]
                                   ELSE scripts[i]
        BY <3>3 DEF Overwrite
      <4> QED BY <1>0, <4>1
    <3>4. CASE Skip(k) \/ RevertRust(k)
      <4>1. PICK at : scripts'[i] = IF i = k
               THEN [[scripts[i] EXCEPT !.at = at] EXCEPT !.clean = FALSE]
               ELSE scripts[i]
        BY <3>4 DEF Skip, RevertRust
      <4> QED BY <1>0, <4>1
    <3> QED BY <1>3, <3>1, <3>2, <3>3, <3>4
  <2>3. OneWait'
    BY <1>0, <2>1, <2>2, ScriptsStay
  <2> QED BY <1>0, <1>1, <1>2, <2>1, <2>3, NothingMoves
<1>4. CASE TestOk(k) \/ (TestFails(k) /\ RevertBash(k)) \/ Abort(k) \/ Reverted(k)
  <2>1. ExitScript(k)
    BY <1>4 DEF TestOk, RevertBash, Abort, Reverted
  <2>2. /\ OneWait'
        /\ main' # main => main = "script" /\ main' = "select"
        /\ bunch' = "rolling" => bunch = "rolling"
    BY <1>0, <2>1, ScriptExits
  <2> QED BY <1>0, <1>1, <1>2, <2>2, NothingMoves
<1> QED BY <1>3, <1>4 DEF UpdateScript, TestFails

LEMMA ControllerStep ==
  ASSUME ExecInv, Controller
  PROVE  ExecInv'
<1>0. /\ OneWait /\ OutboxOK /\ OneStage
      /\ count \in [starts : Nat, incidents : Nat, files : Nat]
  BY DEF ExecInv
<1>1. CASE Start
  <2>1. /\ UNCHANGED <<event, stable, new, torn>>
        /\ main = "select" /\ bunch' \in {"held", "running"}
    BY <1>1 DEF Start, fileVars
  <2>2. OneWait' /\ main' \in {"select", "script"}
    BY <1>0, <1>1, <2>1, ScriptStarts DEF Start
  <2>3. OutboxOK' /\ (Pending' <=> Pending)
    BY <1>0, <1>1, TellUnits, ReportTypes DEF Start
  <2>4. /\ count' \in [starts : Nat, incidents : Nat, files : Nat]
        /\ count'.files = count.files
    <3>1. PICK failures \in {0, 1} : Spend(1, failures + IF count.starts = 0 THEN 0 ELSE 1)
      BY <1>1 DEF Start
    <3>2. PICK n \in Nat : n = failures + IF count.starts = 0 THEN 0 ELSE 1
      OBVIOUS
    <3>3. Spend(1, n) /\ 1 \in Nat
      BY <3>1, <3>2
    <3> QED BY <3>3, SpendCount
  <2> QED BY <1>0, <2>1, <2>2, <2>3, <2>4, NothingMoves
<1>2. CASE TakeReport
  <2>1. /\ UNCHANGED <<bunch, event, stable, new, torn>>
        /\ main = "select"
    BY <1>2 DEF TakeReport, fileVars, bunchVars
  <2>2. PICK report \in DOMAIN outbox :
           /\ outbox' = outbox (-) SetToBag({report})
           /\ \E failures \in {0, 1} :
                 /\ Incidents(failures)
                 /\ Scripted(report.came, report.went, InUse, failures)
    BY <1>2 DEF TakeReport, BagToSet
  <2>3. OneWait' /\ main' \in {"select", "script"}
    BY <1>0, <2>1, <2>2, ScriptStarts
  <2>5. /\ count' \in [starts : Nat, incidents : Nat, files : Nat]
        /\ count'.files = count.files
    <3>1. PICK failures \in {0, 1} : Spend(0, failures)
      BY <2>2 DEF Incidents
    <3>2. 0 \in Nat /\ failures \in Nat
      OBVIOUS
    <3> QED BY <3>1, <3>2, SpendCount
  <2>4. OutboxOK' /\ (Pending' => Pending)
    BY <1>0, <2>2, TakeOne
  <2> QED BY <1>0, <2>1, <2>3, <2>4, <2>5, NothingMoves
<1>3. CASE RemoveStable
  <2>1. /\ UNCHANGED <<bunch, event, new, torn, count, scripts>>
        /\ main = "select" /\ stable' = 0
        /\ main' = IF stable # 0 THEN "renaming" ELSE "select"
    BY <1>3 DEF RemoveStable, scriptVars, bunchVars
  <2>2. OutboxOK' /\ Pending /\ ~Pending'
    <3>1. PICK report \in DOMAIN outbox :
             /\ report.type = "UpdateFinished"
             /\ outbox' = outbox (-) SetToBag({report})
      BY <1>3 DEF RemoveStable, BagToSet
    <3> QED BY <1>0, <3>1, TakeOne
  <2>3. ~event /\ bunch # "rolling" /\ new = Latest
    BY <1>0, <2>2 DEF OneStage
  <2>4. OneWait'
    BY <1>0, <2>1 DEF OneWait
  <2>5. ExecutableKept'
    BY <2>1, <2>3 DEF ExecInv, ExecutableKept, Latest
  <2> QED BY <1>0, <2>1, <2>2, <2>3, <2>4, <2>5 DEF ExecInv, OneStage, Latest
<1>4. CASE Rename
  <2>1. /\ UNCHANGED <<bunch, event, torn, count, scripts, outbox>>
        /\ main = "renaming" /\ stable' = new /\ new' = 0 /\ main' = "select"
    BY <1>4 DEF Rename, scriptVars, bunchVars
  <2>2. OutboxOK' /\ ~Pending' /\ ~event' /\ bunch' # "rolling" /\ new = Latest
    BY <1>0, <2>1 DEF OneStage, OutboxOK, Pending
  <2>3. OneWait'
    BY <1>0, <2>1 DEF OneWait
  <2>4. ExecutableKept'
    BY <1>0, <2>1, <2>2 DEF ExecutableKept, Latest
  <2> QED BY <1>0, <2>1, <2>2, <2>3, <2>4 DEF ExecInv, OneStage
<1>5. CASE EventDropped
  <2>1. /\ UNCHANGED <<bunch, main, scripts, outbox, stable, new, torn, count>>
        /\ ~event'
    BY <1>5 DEF EventDropped, scriptVars, bunchVars, fileVars
  <2>2. OutboxOK' /\ Pending' = Pending /\ OneWait'
    BY <1>0, <2>1, SameScripts DEF OutboxOK, Pending
  <2> QED BY <1>0, <2>1, <2>2, NothingMoves
<1> QED BY <1>1, <1>2, <1>3, <1>4, <1>5 DEF Controller

LEMMA WorldStep ==
  ASSUME ExecInv, World
  PROVE  ExecInv'
<1>0. /\ OneWait /\ OutboxOK /\ OneStage
      /\ count \in [starts : Nat, incidents : Nat, files : Nat]
      /\ \A i \in DOMAIN scripts : "waited" \in DOMAIN scripts[i]
  BY DEF ExecInv, OneWait
<1> DEFINE alone == [k \in DOMAIN scripts |-> [scripts[k] EXCEPT !.waited = FALSE]]
<1>1. ASSUME scripts' = alone
      PROVE  OneWait'
  <2>1. DOMAIN scripts' = DOMAIN scripts
    BY <1>1
  <2>2. scripts' = [k \in DOMAIN scripts |-> scripts'[k]]
    BY <1>1
  <2>3. ASSUME NEW k \in DOMAIN scripts
        PROVE  "waited" \in DOMAIN scripts'[k] /\ ~scripts'[k].waited
    <3>1. scripts'[k] = [scripts[k] EXCEPT !.waited = FALSE]
      BY <1>1
    <3> QED BY <1>0, <3>1
  <2> QED BY <1>0, <2>1, <2>2, <2>3, ScriptsStay
<1> HIDE DEF alone
<1>2. CASE Accept
  <2>1. /\ UNCHANGED <<outbox, event, stable, new, torn>>
        /\ main' = "select" /\ main = "script" /\ scripts' = alone
        /\ bunch' = "rolling" => bunch = "rolling"
    BY <1>2 DEF Accept, fileVars, alone
  <2>2. OutboxOK' /\ Pending' = Pending
    BY <1>0, <2>1 DEF OutboxOK, Pending
  <2>3. /\ count' \in [starts : Nat, incidents : Nat, files : Nat]
        /\ count'.files = count.files
    BY <1>2, IncidentCount DEF Accept
  <2> QED BY <1>0, <1>1, <2>1, <2>2, <2>3, NothingMoves
<1>3. CASE DropFile
  <2>1. /\ UNCHANGED <<bunch, outbox, main, scripts, stable, torn>>
        /\ bunch # "rolling" /\ main # "renaming"
        /\ new' = count.files + 2
    BY <1>3 DEF DropFile, bunchVars, scriptVars
  <2>2. /\ count' \in [starts : Nat, incidents : Nat, files : Nat]
        /\ count'.files = count.files + 1
    <3>1. count' = [[count EXCEPT !.incidents = count.incidents + 1]
                           EXCEPT !.files = count.files + 1]
      BY <1>0, <1>3 DEF DropFile
    <3>2. count.incidents + 1 \in Nat /\ count.files + 1 \in Nat
      BY <1>0
    <3> QED BY <1>0, <3>1, <3>2
  <2>3. OneWait' /\ OutboxOK' /\ ~Pending'
    <3>1. ~Pending
      BY <1>3, ReportTypes DEF DropFile, Pending, BagToSet
    <3> QED BY <1>0, <2>1, <3>1, SameScripts DEF OutboxOK, Pending
  <2>4. new' = Latest'
    BY <1>0, <2>1, <2>2 DEF Latest
  <2>5. ExecutableKept'
    BY <2>1, <2>4 DEF ExecInv, ExecutableKept, Latest
  <2> QED BY <2>1, <2>2, <2>3, <2>4, <2>5 DEF ExecInv, OneStage
<1>4. CASE Crash
  <2>1. /\ UNCHANGED <<stable, new>> /\ outbox' = EmptyBag /\ ~event'
        /\ main' = "down" /\ scripts' = alone /\ bunch' = "off"
        /\ torn' = (torn \/ main = "renaming")
    BY <1>4 DEF Crash, Off, alone
  <2>2. OutboxOK' /\ ~Pending'
    BY <2>1 DEF OutboxOK, Pending, EmptyBag, SetToBag
  <2>3. /\ count' \in [starts : Nat, incidents : Nat, files : Nat]
        /\ count'.files = count.files
    BY <1>4, IncidentCount DEF Crash
  <2>4. (torn => torn') /\ (main = "renaming" => torn')
    BY <2>1
  <2> QED BY <1>1, <2>1, <2>2, <2>3, <2>4, NothingMoves
<1>5. CASE Boot
  <2>1. /\ UNCHANGED <<bunch, scripts, outbox, event, stable, new, torn, count>>
        /\ main = "down" /\ main' = "select"
    BY <1>5 DEF Boot, scriptVars, bunchVars, fileVars
  <2>2. OutboxOK' /\ Pending' = Pending /\ OneWait'
    BY <1>0, <2>1 DEF OutboxOK, Pending, OneWait
  <2> QED BY <1>0, <2>1, <2>2, NothingMoves
<1> QED BY <1>2, <1>3, <1>4, <1>5 DEF World

LEMMA ExecInvAlways == Spec => []ExecInv
<1>1. Init => ExecInv
  BY DEF Init, ExecInv, OneWait, OutboxOK, OneStage, Pending, Latest,
         ExecutableKept, EmptyBag, SetToBag, ToSet
<1>2. ExecInv /\ [Next]_vars => ExecInv'
  <2> SUFFICES ASSUME ExecInv, [Next]_vars PROVE ExecInv'
    OBVIOUS
  <2>1. CASE UNCHANGED vars
    BY <2>1 DEF vars, bunchVars, scriptVars, fileVars, ExecInv, OneWait, OutboxOK,
                OneStage, Pending, Latest, ExecutableKept
  <2>2. CASE Bunch
    BY <2>2, BunchStep
  <2>3. CASE \E k \in DOMAIN scripts : UpdateScript(k)
    BY <2>3, ScriptStep
  <2>4. CASE Controller
    BY <2>4, ControllerStep
  <2>5. CASE World
    BY <2>5, WorldStep
  <2> QED BY <2>1, <2>2, <2>3, <2>4, <2>5 DEF Next, Rest
<1> QED BY <1>1, <1>2, PTL DEF Spec

\* With any number of units, starts, reports in any order, failures, new versions,
\* cut waits and crashes: the stable executable is missing only between its
\* removal and the renaming of the new one, or after a crash just there, and the
\* last version delivered is always one of the two files.
THEOREM ExecutableIsKept == Spec => []ExecutableKept
<1>1. ExecInv => ExecutableKept
  BY DEF ExecInv
<1> QED BY <1>1, ExecInvAlways, PTL

-----------------------------------------------------------------------------
(* The load balancer: the inductive invariant.                               *)

\* A report of a unit is under way that will have it added.
Reported(a) == \E r \in DOMAIN outbox : a \in r.came \ r.went

\* A script that runs alone adds it.
BeingAdded(a) == \E k \in DOMAIN scripts : scripts[k].clean /\ a \in scripts[k].add

\* What a script does next leaves an address of the configuration where it is, or puts
\* it back there.
SafeFrom(s, a) ==
    /\ s.at \in {"read", "write", "writing"} => a \notin s.remove
    /\ s.at \in {"write", "writing", "reverting"} => a \in s.saved
    /\ (s.at = "test" /\ update_exec = "rust") => a \in s.saved

\* It is in the configuration, or will be once that is written, and neither a script nor
\* a backup will change that.
Configured(a) ==
    /\ a \in conf \/ \E k \in DOMAIN scripts : Writing(scripts[k])
    /\ bak # NoFile => a \in bak
    /\ \A k \in DOMAIN scripts : SafeFrom(scripts[k], a)

LookedAfter(a) == Reported(a) \/ BeingAdded(a) \/ Configured(a)

\* A script adds or removes, never both, since it gets --rm then; one that ran alone
\* so far has its addresses in the configuration once it has written; and of the two
\* scripts only one keeps a backup; and one that reverts has met an error.
ScriptInv ==
    /\ update_exec = "rust" => bak = NoFile
    /\ \A k \in DOMAIN scripts :
          /\ scripts[k].add # {} => scripts[k].remove = {}
          /\ scripts[k].clean => Len(scripts) = 1
          /\ (scripts[k].clean /\ scripts[k].at = "test") => scripts[k].add \subseteq conf
          /\ scripts[k].at = "reverting" => ~scripts[k].clean

ServedInv ==
    /\ TypeInv
    /\ ScriptInv
    /\ \A a \in InUse : a \in excused \/ LookedAfter(a)

\* An address that is safe from a script that is writing is in what it writes.
LEMMA SafeIsWritten ==
  ASSUME NEW s, NEW a, Writing(s), SafeFrom(s, a)
  PROVE  a \in Content(s) /\ (a \in conf \/ a \in Missing(s))
BY DEF Writing, SafeFrom, Content, Edited, Missing

LEMMA ToSets ==
  ASSUME NEW s \in Seq(Addrs)
  PROVE  /\ \A x : ToSet(Append(s, x)) = ToSet(s) \cup {x}
         /\ \A i \in DOMAIN s : ToSet(RemoveAt(s, i)) \subseteq ToSet(s)
         /\ s # <<>> => ToSet(Front(s)) \subseteq ToSet(s)
         /\ ToSet(<<>>) = {}
<1>1. DOMAIN s = 1..Len(s) /\ Len(s) \in Nat
  OBVIOUS
<1>2. ASSUME NEW x PROVE ToSet(Append(s, x)) = ToSet(s) \cup {x}
  <2> DEFINE t == Append(s, x)
  <2>1. /\ DOMAIN t = 1..(Len(s) + 1) /\ t[Len(s) + 1] = x
        /\ \A i \in 1..Len(s) : t[i] = s[i]
    BY <1>1
  <2> HIDE DEF t
  <2>2. ToSet(t) = {t[i] : i \in 1..(Len(s) + 1)} /\ ToSet(s) = {s[i] : i \in 1..Len(s)}
    BY <1>1, <2>1 DEF ToSet
  <2>3. 1..(Len(s) + 1) = 1..Len(s) \cup {Len(s) + 1}
    BY <1>1
  <2> HIDE DEF ToSet
  <2>4. ToSet(t) = ToSet(s) \cup {x}
    BY <2>1, <2>2, <2>3
  <2> QED BY <2>4 DEF t
<1>3. ASSUME NEW i \in DOMAIN s PROVE ToSet(RemoveAt(s, i)) \subseteq ToSet(s)
  <2>1. /\ DOMAIN RemoveAt(s, i) = 1..(Len(s) - 1)
        /\ \A j \in 1..(Len(s) - 1) : \E k \in DOMAIN s : RemoveAt(s, i)[j] = s[k]
    <3>1. /\ DOMAIN RemoveAt(s, i) = 1..(Len(s) - 1)
          /\ \A j \in 1..(Len(s) - 1) :
                /\ RemoveAt(s, i)[j] = IF j < i THEN s[j] ELSE s[j + 1]
                /\ (IF j < i THEN j ELSE j + 1) \in DOMAIN s \ {i}
      BY RemoveProperties
    <3> QED BY <3>1
  <2> QED BY <2>1 DEF ToSet
<1>4. ASSUME s # <<>> PROVE ToSet(Front(s)) \subseteq ToSet(s)
  <2>1. Front(s) = SubSeq(s, 1, Len(s) - 1) /\ Len(s) \in Nat \ {0}
    BY <1>4, EmptySeq DEF Front
  <2>2. /\ DOMAIN Front(s) \subseteq DOMAIN s
        /\ \A i \in DOMAIN Front(s) : Front(s)[i] = s[i]
    BY <1>1, <2>1
  <2> QED BY <2>2 DEF ToSet
<1>5. ToSet(<<>>) = {}
  BY DEF ToSet
<1> QED BY <1>2, <1>3, <1>4, <1>5

\* The scripts and their files stay as they are, and units come with a report.
LEMMA ReportedStep ==
  ASSUME ServedInv, TypeInv', UNCHANGED <<update_exec, conf, bak>>,
         DOMAIN scripts' = DOMAIN scripts, Len(scripts') = Len(scripts),
         \A k \in DOMAIN scripts :
            /\ scripts'[k].at = scripts[k].at /\ scripts'[k].saved = scripts[k].saved
            /\ scripts'[k].add = scripts[k].add /\ scripts'[k].remove = scripts[k].remove
            /\ scripts'[k].clean = scripts[k].clean,
         excused \subseteq excused',
         \A a : a \in InUse /\ Reported(a) => Reported(a)' \/ a \notin InUse',
         \A a \in InUse' : a \in InUse \/ a \in excused' \/ Reported(a)'
  PROVE  ServedInv'
<1>1. ScriptInv'
  BY DEF ServedInv, ScriptInv
<1>2. ASSUME NEW a \in InUse', a \notin excused'
      PROVE  LookedAfter(a)'
  <2>1. CASE Reported(a)'
    BY <2>1 DEF LookedAfter
  <2>2. CASE a \in InUse
    <3>1. LookedAfter(a)
      BY <1>2, <2>2 DEF ServedInv
    <3>2. BeingAdded(a) => BeingAdded(a)'
      BY DEF BeingAdded
    <3>3. Configured(a) => Configured(a)'
      BY DEF Configured, SafeFrom, Writing
    <3> QED BY <2>2, <3>1, <3>2, <3>3 DEF LookedAfter
  <2> QED BY <1>2, <2>1, <2>2
<1> QED BY <1>1, <1>2 DEF ServedInv

LEMMA BunchServed ==
  ASSUME ServedInv, Bunch
  PROVE  ServedInv'
<1>1. /\ TypeInv' /\ ReportsOK /\ units \in Seq(Addrs) /\ fresh \in Seq(Addrs)
      /\ UNCHANGED <<update_exec, conf, bak, scripts>> /\ excused \subseteq excused'
  <2>1. TypeInv' /\ ReportsOK /\ units \in Seq(Addrs) /\ fresh \in Seq(Addrs)
    BY BunchTypes DEF ServedInv, TypeInv, BunchOK
  <2>2. UNCHANGED <<update_exec, conf, bak, scripts>> /\ excused \subseteq excused'
    BY DEF Bunch, Restart, RestartUnlisted, RestartPanics, Stop, StartUpdate, Roll,
           RollPanics, configVars, scriptVars
  <2> QED BY <2>1, <2>2
<1>2. ASSUME NEW reports \in SUBSET Report, Tell(reports)
      PROVE  /\ \A a : Reported(a) => Reported(a)'
             /\ \A r \in reports : \A a \in r.came \ r.went : Reported(a)'
  <2>1. DOMAIN outbox' = DOMAIN outbox \cup reports
    BY <1>1, <1>2, ToldOf
  <2> QED BY <2>1 DEF Reported
<1>3. \A a : UNCHANGED outbox => Reported(a)' = Reported(a)
  BY DEF Reported
<1>4. ASSUME NEW addr PROVE addr \in Spawned({addr}).came \ Spawned({addr}).went
  BY DEF Spawned, NewReport
<1>5. CASE Restart
  <2>1. PICK i \in DOMAIN units, addr \in Addrs :
           /\ units' = Append(RemoveAt(units, i), addr)
           /\ Tell({Replaced(units[i], addr)}) /\ UNCHANGED fresh
    BY <1>5 DEF Restart
  <2>2. units[i] \in ToSet(units) /\ units[i] \in Addrs /\ RemoveAt(units, i) \in Seq(Addrs)
    BY <1>1, AddrsOf DEF ToSet
  <2>3. ToSet(units') \subseteq ToSet(units) \cup {addr}
    BY <1>1, <2>1, <2>2, ToSets
  <2>4. /\ \A a : Reported(a) => Reported(a)'
        /\ addr = units[i] \/ Reported(addr)'
    <3>1. {Replaced(units[i], addr)} \in SUBSET Report
      BY <2>2, ReportsTyped
    <3>2. Replaced(units[i], addr).came = {addr} /\ Replaced(units[i], addr).went = {units[i]}
      BY DEF Replaced, NewReport
    <3> QED BY <1>2, <2>1, <3>1, <3>2
  <2>5. \A a \in InUse' : a \in InUse \/ Reported(a)'
    BY <2>1, <2>2, <2>3, <2>4 DEF InUse
  <2> QED BY <1>1, <2>4, <2>5, ReportedStep
<1>6. CASE RestartUnlisted
  <2>1. PICK addr \in Addrs : /\ units' = Append(units, addr)
                              /\ excused' = excused \cup {addr}
                              /\ UNCHANGED <<fresh, outbox>>
    BY <1>6 DEF RestartUnlisted
  <2>2. ToSet(units') = ToSet(units) \cup {addr}
    BY <1>1, <2>1, ToSets
  <2>3. \A a \in InUse' : a \in InUse \/ a \in excused'
    BY <2>1, <2>2 DEF InUse
  <2> QED BY <1>1, <1>3, <2>1, <2>3, ReportedStep
<1>7. CASE RestartPanics \/ RollPanics \/ Stop
  <2>1. InUse' = {}
    BY <1>1, <1>7, ToSets DEF RestartPanics, RollPanics, Stop, Off, InUse
  <2> QED BY <1>1, <2>1, ReportedStep
<1>8. CASE StartUpdate
  <2>1. UNCHANGED units
    BY <1>8 DEF StartUpdate
  <2>2. CASE \E addr \in Addrs : fresh' = Append(fresh, addr) /\ Tell({Spawned({addr})})
    <3>1. PICK addr \in Addrs : fresh' = Append(fresh, addr) /\ Tell({Spawned({addr})})
      BY <2>2
    <3>2. ToSet(fresh') = ToSet(fresh) \cup {addr}
      BY <1>1, <3>1, ToSets
    <3>3. (\A a : Reported(a) => Reported(a)') /\ Reported(addr)'
      <4>1. {Spawned({addr})} \in SUBSET Report
        BY ReportsTyped
      <4> QED BY <1>2, <1>4, <3>1, <4>1
    <3>4. \A a \in InUse' : a \in InUse \/ Reported(a)'
      BY <2>1, <3>2, <3>3 DEF InUse
    <3> QED BY <1>1, <3>3, <3>4, ReportedStep
  <2>3. CASE UNCHANGED <<fresh, outbox>>
    <3>1. InUse' = InUse
      BY <2>1, <2>3 DEF InUse
    <3> QED BY <1>1, <1>3, <2>3, <3>1, ReportedStep
  <2> QED BY <1>8, <2>2, <2>3 DEF StartUpdate
<1>9. CASE Roll
  <2>1. bunch = "rolling" /\ Last(fresh) \in Addrs
    BY <1>1, <1>9, AddrsOf DEF Roll, ServedInv, TypeInv, BunchOK
  <2>2. Retired \in SUBSET Report /\ UpdateFinished \in Report
    BY <2>1, ReportsTyped DEF Retired
  <2>3. Len(units) > 1 => ToSet(Front(units)) \subseteq ToSet(units)
    <3>1. Len(units) > 1 => units # <<>>
      OBVIOUS
    <3> QED BY <1>1, <3>1, ToSets
  <2>4. CASE /\ Len(units) > 1 /\ units' = Front(units)
             /\ \E addr \in Addrs : /\ fresh' = Append(fresh, addr)
                                    /\ Tell(Retired \cup {Spawned({addr})})
    <3>1. PICK addr \in Addrs : /\ fresh' = Append(fresh, addr)
                                /\ Tell(Retired \cup {Spawned({addr})})
      BY <2>4
    <3>2. ToSet(fresh') = ToSet(fresh) \cup {addr}
      BY <1>1, <3>1, ToSets
    <3>3. (\A a : Reported(a) => Reported(a)') /\ Reported(addr)'
      <4>1. Retired \cup {Spawned({addr})} \in SUBSET Report
        BY <2>2, ReportsTyped
      <4> QED BY <1>2, <1>4, <3>1, <4>1
    <3>4. \A a \in InUse' : a \in InUse \/ Reported(a)'
      BY <2>3, <2>4, <3>2, <3>3 DEF InUse
    <3> QED BY <1>1, <3>3, <3>4, ReportedStep
  <2>5. CASE /\ Len(units) > 1 /\ units' = Front(units)
             /\ Tell(Retired) /\ UNCHANGED fresh
    <3>1. InUse' \subseteq InUse
      BY <2>3, <2>5 DEF InUse
    <3> QED BY <1>1, <1>2, <2>2, <2>5, <3>1, ReportedStep
  <2>6. CASE /\ units' = fresh /\ fresh' = <<>>
             /\ Tell(Retired \cup {UpdateFinished})
    <3>1. InUse' \subseteq InUse
      BY <1>1, <2>6, ToSets DEF InUse
    <3>2. Retired \cup {UpdateFinished} \in SUBSET Report
      BY <2>2
    <3> QED BY <1>1, <1>2, <2>6, <3>1, <3>2, ReportedStep
  <2> QED BY <1>9, <2>4, <2>5, <2>6 DEF Roll
<1> QED BY <1>5, <1>6, <1>7, <1>8, <1>9 DEF Bunch

\* Two scripts, and neither of them runs alone.
LEMMA OnlyScript ==
  ASSUME ScriptsOK, ScriptInv, NEW k \in DOMAIN scripts, NEW j \in DOMAIN scripts,
         scripts[j].clean
  PROVE  j = k /\ Len(scripts) = 1
<1>1. Len(scripts) = 1 /\ DOMAIN scripts = 1..Len(scripts)
  BY DEF ScriptInv, ScriptsOK
<1>2. DOMAIN scripts = {1}
  BY <1>1
<1> QED BY <1>1, <1>2

LEMMA ReadServed ==
  ASSUME ServedInv, TypeInv', NEW k \in DOMAIN scripts, Read(k)
  PROVE  ServedInv'
<1>1. /\ ConfigOK /\ ScriptsOK /\ ScriptInv /\ update_exec \in {"bash", "rust"}
      /\ UNCHANGED <<update_exec, units, fresh, outbox, conf>>
  BY DEF ServedInv, TypeInv, ConfigOK, Read, configVars, bunchVars
<1>2. PICK part \in SUBSET Unwritten :
      /\ DOMAIN scripts' = DOMAIN scripts /\ Len(scripts') = Len(scripts)
      /\ \A j \in DOMAIN scripts \ {k} : scripts'[j] = scripts[j]
      /\ scripts[k].at = "read" /\ scripts'[k].at = "write"
      /\ scripts'[k].saved = conf \cup part
      /\ scripts'[k].add = scripts[k].add /\ scripts'[k].remove = scripts[k].remove
      /\ scripts'[k].clean = scripts[k].clean
      /\ bak' = (IF update_exec = "bash" THEN conf \cup part ELSE bak)
      /\ excused' = excused \cup (Unwritten \ part)
  BY <1>1, ReadIs
<1>3. ScriptInv'
  <2>1. (update_exec = "rust" => bak = NoFile)'
    BY <1>1, <1>2 DEF ScriptInv
  <2>2. ASSUME NEW j \in DOMAIN scripts'
        PROVE  /\ scripts'[j].add # {} => scripts'[j].remove = {}
               /\ scripts'[j].clean => Len(scripts') = 1
               /\ scripts'[j].clean /\ scripts'[j].at = "test"
                     => scripts'[j].add \subseteq conf'
               /\ scripts'[j].at = "reverting" => ~scripts'[j].clean
    <3>1. CASE j = k
      BY <1>1, <1>2, <3>1 DEF ScriptInv
    <3>2. CASE j # k
      BY <1>1, <1>2, <3>2 DEF ScriptInv
    <3> QED BY <3>1, <3>2
  <2> QED BY <2>1, <2>2 DEF ScriptInv
<1>4. ASSUME NEW a, LookedAfter(a), a \notin excused'
      PROVE  LookedAfter(a)'
  <2>1. Reported(a) => Reported(a)'
    BY <1>1 DEF Reported
  <2>2. BeingAdded(a) => BeingAdded(a)'
    BY <1>2 DEF BeingAdded
  <2>3. Configured(a) => Configured(a)'
    <3> SUFFICES ASSUME Configured(a) PROVE Configured(a)'
      OBVIOUS
    <3>1. a \in conf \cup part
      <4>1. CASE a \in conf
        BY <4>1
      <4>2. CASE a \notin conf
        <5>1. PICK j \in DOMAIN scripts : Writing(scripts[j]) /\ SafeFrom(scripts[j], a)
          BY <4>2 DEF Configured
        <5>2. a \in Missing(scripts[j])
          BY <4>2, <5>1, SafeIsWritten
        <5>3. a \in Unwritten
          BY <5>2 DEF Unwritten
        <5> QED BY <1>2, <1>4, <5>3
      <4> QED BY <4>1, <4>2
    <3>2. bak' # NoFile => a \in bak'
      BY <1>2, <3>1 DEF Configured
    <3>3. a \in conf' \/ \E j \in DOMAIN scripts' : Writing(scripts'[j])
      <4>1. CASE a \in conf
        BY <1>1, <4>1
      <4>2. CASE a \notin conf
        <5>1. PICK j \in DOMAIN scripts : Writing(scripts[j])
          BY <4>2 DEF Configured
        <5>2. j # k
          BY <1>2, <5>1 DEF Writing
        <5>3. j \in DOMAIN scripts' /\ scripts'[j] = scripts[j]
          BY <1>2, <5>2
        <5> QED BY <5>1, <5>3
      <4> QED BY <4>1, <4>2
    <3>4. ASSUME NEW j \in DOMAIN scripts'
          PROVE  SafeFrom(scripts[j], a)'
      <4>1. SafeFrom(scripts[j], a)
        BY <1>2 DEF Configured
      <4>2. CASE j = k
        BY <1>1, <1>2, <3>1, <4>1, <4>2 DEF SafeFrom
      <4>3. CASE j # k
        BY <1>1, <1>2, <4>1, <4>3 DEF SafeFrom
      <4> QED BY <4>2, <4>3
    <3> QED BY <3>2, <3>3, <3>4 DEF Configured, Writing
  <2> QED BY <1>4, <2>1, <2>2, <2>3 DEF LookedAfter
<1>5. InUse' = InUse /\ excused \subseteq excused'
  BY <1>1, <1>2 DEF InUse
<1> QED BY <1>1, <1>3, <1>4, <1>5 DEF ServedInv

LEMMA WriteServed ==
  ASSUME ServedInv, TypeInv', NEW k \in DOMAIN scripts, Write(k)
  PROVE  ServedInv'
<1> DEFINE s == scripts[k]
<1>1. /\ ConfigOK /\ ScriptsOK /\ ScriptInv
      /\ UNCHANGED <<update_exec, units, fresh, outbox, bak>>
      /\ conf' = Edited(s) /\ excused' = excused \cup (Skipped(s) \ s.saved)
  BY DEF ServedInv, TypeInv, Write, configVars, bunchVars
<1>2. /\ DOMAIN scripts' = DOMAIN scripts /\ Len(scripts') = Len(scripts)
      /\ \A j \in DOMAIN scripts \ {k} : scripts'[j] = scripts[j]
      /\ scripts[k].at = "writing" /\ scripts'[k].at = "test"
      /\ update_exec = "rust" => scripts'[k].saved = scripts[k].saved
      /\ scripts'[k].add = scripts[k].add \ Skipped(scripts[k])
      /\ scripts'[k].remove = scripts[k].remove
      /\ scripts'[k].clean = scripts[k].clean
  BY <1>1, WriteIs
<1>3. ScriptInv'
  <2>1. (update_exec = "rust" => bak = NoFile)'
    BY <1>1 DEF ScriptInv
  <2>2. ASSUME NEW j \in DOMAIN scripts'
        PROVE  /\ scripts'[j].add # {} => scripts'[j].remove = {}
               /\ scripts'[j].clean => Len(scripts') = 1
               /\ scripts'[j].clean /\ scripts'[j].at = "test"
                     => scripts'[j].add \subseteq conf'
               /\ scripts'[j].at = "reverting" => ~scripts'[j].clean
    <3>1. CASE j = k
      BY <1>1, <1>2, <3>1 DEF ScriptInv, Edited
    <3>2. CASE j # k
      <4>1. ~scripts'[j].clean
        BY <1>1, <1>2, <3>2, OnlyScript
      <4> QED BY <1>1, <1>2, <3>2, <4>1 DEF ScriptInv
    <3> QED BY <3>1, <3>2
  <2> QED BY <2>1, <2>2 DEF ScriptInv
<1>4. ASSUME NEW a, LookedAfter(a), a \notin excused'
      PROVE  LookedAfter(a)'
  <2>1. Reported(a) => Reported(a)'
    BY <1>1 DEF Reported
  <2>2. BeingAdded(a) => LookedAfter(a)'
    <3> SUFFICES ASSUME BeingAdded(a) PROVE LookedAfter(a)'
      OBVIOUS
    <3>1. s.clean /\ a \in s.add /\ DOMAIN scripts = {k}
      <4>1. PICK j \in DOMAIN scripts : scripts[j].clean /\ a \in scripts[j].add
        BY DEF BeingAdded
      <4>2. \A i \in DOMAIN scripts : i = j
        BY <1>1, <4>1, OnlyScript
      <4> QED BY <4>1, <4>2
    <3>2. CASE a \notin Skipped(s)
      BY <1>2, <3>1, <3>2 DEF BeingAdded, LookedAfter
    <3>3. CASE a \in Skipped(s)
      <4>1. update_exec = "rust" /\ a \in s.saved /\ s.remove = {}
        <5>1. update_exec = "rust"
          BY <3>3 DEF Skipped
        <5>2. a \in s.saved
          BY <1>1, <1>4, <3>3
        <5>3. s.remove = {}
          BY <1>1, <3>1 DEF ScriptInv
        <5> QED BY <5>1, <5>2, <5>3
      <4>2. a \in conf' /\ bak' = NoFile
        BY <1>1, <4>1 DEF Edited, ScriptInv
      <4>3. SafeFrom(scripts[k], a)'
        BY <1>1, <1>2, <4>1 DEF SafeFrom
      <4> QED BY <1>2, <3>1, <4>2, <4>3 DEF Configured, LookedAfter
    <3> QED BY <3>2, <3>3
  <2>3. Configured(a) => Configured(a)'
    <3> SUFFICES ASSUME Configured(a) PROVE Configured(a)'
      OBVIOUS
    <3>1. a \in s.saved /\ a \notin s.remove
      BY <1>2 DEF Configured, SafeFrom
    <3>2. a \in conf' /\ (bak' # NoFile => a \in bak')
      BY <1>1, <3>1 DEF Configured, Edited
    <3>3. ASSUME NEW j \in DOMAIN scripts'
          PROVE  SafeFrom(scripts[j], a)'
      <4>1. CASE j = k
        BY <1>1, <1>2, <3>1, <4>1 DEF SafeFrom
      <4>2. CASE j # k
        BY <1>1, <1>2, <4>2 DEF Configured, SafeFrom
      <4> QED BY <4>1, <4>2
    <3> QED BY <3>2, <3>3 DEF Configured
  <2> QED BY <1>4, <2>1, <2>2, <2>3 DEF LookedAfter
<1>5. InUse' = InUse /\ excused \subseteq excused'
  BY <1>1 DEF InUse
<1> QED BY <1>1, <1>3, <1>4, <1>5 DEF ServedInv

\* A script starts to write, what was edited or what was read, or leaves the editing.
LEMMA MoveServed ==
  ASSUME ServedInv, TypeInv', NEW k \in DOMAIN scripts,
         Overwrite(k) \/ Skip(k) \/ (TestFails(k) /\ RevertRust(k))
  PROVE  ServedInv'
<1>1. /\ ConfigOK /\ ScriptsOK /\ ScriptInv
      /\ UNCHANGED <<update_exec, units, fresh, outbox, bak>>
      /\ excused \subseteq excused'
      /\ Overwrite(k) \/ scripts[k].add \subseteq excused'
  BY DEF ServedInv, TypeInv, Overwrite, Skip, TestFails, RevertRust, configVars, bunchVars
<1>2. PICK at \in {"writing", "test", "reverting"}, clean \in BOOLEAN :
         /\ scripts' = [scripts EXCEPT ![k] = GoesOn(scripts[k], at, clean)]
         /\ Overwrite(k) => at = "writing" /\ clean = scripts[k].clean
         /\ ~Overwrite(k) => ~clean
         /\ at = "writing" => scripts[k].at = "write"
         /\ at = "test" => scripts[k].at = "write" /\ conf' = conf /\ update_exec = "bash"
         /\ at = "reverting" => scripts[k].at = "test" /\ update_exec = "rust"
  <2>1. CASE Overwrite(k)
    BY <1>1, <2>1, StepsGoOn DEF Overwrite
  <2>2. CASE ~Overwrite(k) /\ Skip(k)
    BY <1>1, <2>2, StepsGoOn DEF Skip
  <2>3. CASE ~Overwrite(k) /\ TestFails(k) /\ RevertRust(k)
    BY <1>1, <2>3, StepsGoOn DEF TestFails, RevertRust
  <2> QED BY <2>1, <2>2, <2>3
<1>3. /\ DOMAIN scripts' = DOMAIN scripts /\ Len(scripts') = Len(scripts)
      /\ \A j \in DOMAIN scripts \ {k} : scripts'[j] = scripts[j]
      /\ scripts'[k].at = at /\ scripts'[k].clean = clean
      /\ scripts'[k].add = scripts[k].add /\ scripts'[k].remove = scripts[k].remove
      /\ scripts'[k].saved = scripts[k].saved
  BY <1>1, <1>2, GoesOnIs
<1>4. ScriptInv'
  <2>1. (update_exec = "rust" => bak = NoFile)'
    BY <1>1 DEF ScriptInv
  <2>2. ASSUME NEW j \in DOMAIN scripts'
        PROVE  /\ scripts'[j].add # {} => scripts'[j].remove = {}
               /\ scripts'[j].clean => Len(scripts') = 1
               /\ scripts'[j].clean /\ scripts'[j].at = "test"
                     => scripts'[j].add \subseteq conf'
               /\ scripts'[j].at = "reverting" => ~scripts'[j].clean
    <3>1. CASE j = k
      BY <1>1, <1>2, <1>3, <3>1 DEF ScriptInv
    <3>2. CASE j # k
      <4>1. ~scripts'[j].clean
        BY <1>1, <1>3, <3>2, OnlyScript
      <4> QED BY <1>1, <1>3, <3>2, <4>1 DEF ScriptInv
    <3> QED BY <3>1, <3>2
  <2> QED BY <2>1, <2>2 DEF ScriptInv
<1>5. ASSUME NEW a, LookedAfter(a), a \notin excused'
      PROVE  LookedAfter(a)'
  <2>1. Reported(a) => Reported(a)'
    BY <1>1 DEF Reported
  <2>2. BeingAdded(a) => BeingAdded(a)'
    <3> SUFFICES ASSUME NEW j \in DOMAIN scripts, scripts[j].clean, a \in scripts[j].add
                 PROVE  BeingAdded(a)'
      BY DEF BeingAdded
    <3>1. j = k
      BY <1>1, OnlyScript
    <3>2. Overwrite(k)
      BY <1>1, <1>5, <3>1
    <3> QED BY <1>2, <1>3, <3>1, <3>2 DEF BeingAdded
  <2>3. Configured(a) => Configured(a)'
    <3> SUFFICES ASSUME Configured(a) PROVE Configured(a)'
      OBVIOUS
    <3>1. bak' # NoFile => a \in bak'
      BY <1>1 DEF Configured
    <3>2. a \in conf' \/ \E j \in DOMAIN scripts' : Writing(scripts'[j])
      <4>1. CASE at \in {"writing", "reverting"}
        BY <1>3, <4>1 DEF Writing
      <4>2. CASE at = "test"
        <5>1. conf' = conf /\ ~Writing(scripts[k])
          BY <1>2, <4>2 DEF Writing
        <5>2. CASE a \in conf
          BY <5>1, <5>2
        <5>3. CASE a \notin conf
          <6>1. PICK j \in DOMAIN scripts : Writing(scripts[j]) /\ j # k
            BY <5>1, <5>3 DEF Configured
          <6> QED BY <1>3, <6>1
        <5> QED BY <5>2, <5>3
      <4> QED BY <1>2, <4>1, <4>2
    <3>3. ASSUME NEW j \in DOMAIN scripts'
          PROVE  SafeFrom(scripts[j], a)'
      <4>1. SafeFrom(scripts[j], a)
        BY <1>3 DEF Configured
      <4>2. CASE j = k
        BY <1>1, <1>2, <1>3, <4>1, <4>2 DEF SafeFrom
      <4>3. CASE j # k
        BY <1>1, <1>3, <4>1, <4>3 DEF SafeFrom
      <4> QED BY <4>2, <4>3
    <3> QED BY <3>1, <3>2, <3>3 DEF Configured, Writing
  <2> QED BY <1>5, <2>1, <2>2, <2>3 DEF LookedAfter
<1>6. InUse' = InUse
  BY <1>1 DEF InUse
<1> QED BY <1>1, <1>4, <1>5, <1>6 DEF ServedInv

\* A script exits: of those that are left, none ran alone.
LEMMA ExitServed ==
  ASSUME ServedInv, TypeInv', NEW k \in DOMAIN scripts,
         TestOk(k) \/ (TestFails(k) /\ RevertBash(k)) \/ Abort(k) \/ Reverted(k)
  PROVE  ServedInv'
<1>1. /\ ConfigOK /\ ScriptsOK /\ ScriptInv /\ update_exec \in {"bash", "rust"}
      /\ UNCHANGED <<update_exec, units, fresh, outbox>> /\ ExitScript(k)
      /\ bak' = NoFile \/ bak' = bak
  BY DEF ServedInv, TypeInv, ConfigOK, TestOk, TestFails, RevertBash, Abort, Reverted,
         configVars
<1>2. /\ \A i \in DOMAIN scripts' : \E j \in DOMAIN scripts \ {k} : scripts'[i] = scripts[j]
      /\ \A j \in DOMAIN scripts \ {k} : \E i \in DOMAIN scripts' : scripts'[i] = scripts[j]
  BY <1>1, ExitIs
<1>3. update_exec = "rust" => bak' = NoFile
  BY <1>1 DEF ScriptInv
<1>4. \A j \in DOMAIN scripts : scripts[j].clean => j = k /\ scripts' = <<>>
  <2>1. ASSUME NEW j \in DOMAIN scripts, scripts[j].clean
        PROVE  j = k /\ scripts' = <<>>
    <3>1. j = k /\ Len(scripts) = 1
      BY <1>1, <2>1, OnlyScript
    <3>2. scripts' \in Seq(Script) /\ Len(scripts') = 0
      BY <1>1, <3>1, ExitIs
    <3> QED BY <3>1, <3>2, EmptySeq
  <2> QED BY <2>1
<1>5. ScriptInv'
  <2>1. ASSUME NEW i \in DOMAIN scripts'
        PROVE  /\ scripts'[i].add # {} => scripts'[i].remove = {}
               /\ ~scripts'[i].clean
    BY <1>1, <1>2, <1>4 DEF ScriptInv
  <2> QED BY <1>1, <1>3, <2>1 DEF ScriptInv
<1>6. \A a : Reported(a) => Reported(a)'
  BY <1>1 DEF Reported
<1>7. \A a : BeingAdded(a) => scripts[k].clean /\ a \in scripts[k].add
  BY <1>4 DEF BeingAdded
<1>8. ASSUME NEW a, Configured(a),
             a \in conf' \/ (conf' = conf /\ ~Writing(scripts[k]))
      PROVE  Configured(a)'
  <2>1. ASSUME NEW i \in DOMAIN scripts'
        PROVE  SafeFrom(scripts[i], a)'
    <3>1. PICK j \in DOMAIN scripts : scripts'[i] = scripts[j]
      BY <1>2
    <3>2. SafeFrom(scripts[j], a)
      BY <1>8 DEF Configured
    <3> QED BY <1>1, <3>1, <3>2 DEF SafeFrom
  <2>2. a \in conf' \/ \E i \in DOMAIN scripts' : Writing(scripts'[i])
    <3> SUFFICES ASSUME a \notin conf' PROVE \E i \in DOMAIN scripts' : Writing(scripts'[i])
      OBVIOUS
    <3>1. a \notin conf /\ ~Writing(scripts[k])
      BY <1>8
    <3>2. PICK j \in DOMAIN scripts : Writing(scripts[j]) /\ j # k
      BY <1>8, <3>1 DEF Configured
    <3>3. PICK i \in DOMAIN scripts' : scripts'[i] = scripts[j]
      BY <1>2, <3>2
    <3> QED BY <3>2, <3>3
  <2>3. bak' # NoFile => a \in bak'
    BY <1>1, <1>8 DEF Configured
  <2> QED BY <2>1, <2>2, <2>3 DEF Configured, Writing
<1>9. InUse' = InUse
  BY <1>1 DEF InUse
<1>10. CASE TestOk(k)
  <2>1. /\ UNCHANGED conf /\ scripts[k].at = "test"
        /\ bak' = NoFile
        /\ excused' = IF scripts[k].clean THEN excused \ scripts[k].add ELSE excused
    BY <1>1, <1>3, <1>10 DEF TestOk
  <2>2. ASSUME NEW a \in scripts[k].add, scripts[k].clean
        PROVE  Configured(a)'
    <3>1. a \in conf'
      BY <1>1, <2>1, <2>2 DEF ScriptInv
    <3>2. scripts' = <<>>
      BY <1>4, <2>2
    <3> QED BY <2>1, <3>1, <3>2 DEF Configured
  <2>3. ASSUME NEW a \in InUse, a \notin excused'
        PROVE  LookedAfter(a)'
    <3>1. CASE a \in scripts[k].add /\ scripts[k].clean
      BY <2>2, <3>1 DEF LookedAfter
    <3>2. CASE ~(a \in scripts[k].add /\ scripts[k].clean)
      <4>1. a \notin excused
        BY <2>1, <2>3, <3>2
      <4>2. Reported(a) \/ Configured(a)
        BY <1>7, <3>2, <4>1 DEF ServedInv, LookedAfter
      <4>3. conf' = conf /\ ~Writing(scripts[k])
        BY <2>1 DEF Writing
      <4> QED BY <1>6, <1>8, <4>2, <4>3 DEF LookedAfter
    <3> QED BY <3>1, <3>2
  <2> QED BY <1>5, <1>9, <2>3 DEF ServedInv
<1>11. CASE (TestFails(k) /\ RevertBash(k)) \/ Abort(k)
  <2>1. excused \cup scripts[k].add \subseteq excused'
    BY <1>11 DEF TestFails, Abort
  <2>2. ASSUME NEW a, Configured(a), a \notin excused'
        PROVE  a \in conf' \/ (conf' = conf /\ ~Writing(scripts[k]))
    <3>1. CASE TestFails(k) /\ RevertBash(k)
      <4>1. ~Writing(scripts[k])
        BY <3>1 DEF TestFails, Writing
      <4>2. conf' = conf \/ (bak # NoFile /\ conf' = bak)
        BY <3>1 DEF RevertBash
      <4> QED BY <2>2, <4>1, <4>2 DEF Configured
    <3>2. CASE Abort(k)
      <4>1. PICK part \in SUBSET Missing(scripts[k]) :
               /\ conf' = conf \cup part
               /\ excused' = excused \cup scripts[k].add \cup (Missing(scripts[k]) \ part)
        BY <3>2 DEF Abort
      <4>2. CASE Writing(scripts[k])
        <5>1. SafeFrom(scripts[k], a)
          BY <2>2 DEF Configured
        <5>2. a \in conf \/ a \in Missing(scripts[k])
          BY <4>2, <5>1, SafeIsWritten
        <5> QED BY <2>2, <4>1, <5>2
      <4>3. CASE ~Writing(scripts[k])
        <5>1. Missing(scripts[k]) = {}
          BY <4>3 DEF Missing
        <5> QED BY <4>1, <4>3, <5>1
      <4> QED BY <4>2, <4>3
    <3> QED BY <1>11, <3>1, <3>2
  <2>3. ASSUME NEW a \in InUse, a \notin excused'
        PROVE  LookedAfter(a)'
    <3>1. a \notin excused /\ ~BeingAdded(a)
      BY <1>7, <2>1, <2>3
    <3>2. Reported(a) \/ Configured(a)
      BY <3>1 DEF ServedInv, LookedAfter
    <3> QED BY <1>6, <1>8, <2>2, <2>3, <3>2 DEF LookedAfter
  <2> QED BY <1>5, <1>9, <2>3 DEF ServedInv
<1>12. CASE Reverted(k)
  <2>1. conf' = scripts[k].saved /\ UNCHANGED excused /\ scripts[k].at = "reverting"
    BY <1>12 DEF Reverted
  <2>2. ASSUME NEW a \in InUse, a \notin excused'
        PROVE  LookedAfter(a)'
    <3>1. ~BeingAdded(a)
      BY <1>1, <1>7, <2>1 DEF ScriptInv
    <3>2. Reported(a) \/ Configured(a)
      BY <2>1, <2>2, <3>1 DEF ServedInv, LookedAfter
    <3>3. Configured(a) => a \in conf'
      BY <2>1 DEF Configured, SafeFrom
    <3> QED BY <1>6, <1>8, <3>2, <3>3 DEF LookedAfter
  <2> QED BY <1>5, <1>9, <2>2 DEF ServedInv
<1> QED BY <1>10, <1>11, <1>12

LEMMA ScriptServed ==
  ASSUME ServedInv, NEW k \in DOMAIN scripts, UpdateScript(k)
  PROVE  ServedInv'
<1>1. TypeInv'
  BY ScriptTypes DEF ServedInv
<1> QED BY <1>1, ReadServed, WriteServed, MoveServed, ExitServed DEF UpdateScript, TestFails

\* A report is scripted.  The addresses it removes are held by the units in use, or it
\* removes none; its own additions are looked after from here on.
LEMMA ScriptedServed ==
  ASSUME ServedInv, TypeInv', UNCHANGED update_exec,
         NEW came \in SUBSET Addrs, NEW went \in SUBSET Addrs,
         NEW held \in SUBSET Addrs, NEW failures, Scripted(came, went, held, failures),
         \A a \in InUse : a \in went => a \in held,
         \A a \in InUse' : a \in InUse \/ Reported(a)',
         \A a : Reported(a) => Reported(a)' \/ a \in came \ went
  PROVE  ServedInv'
<1> DEFINE n == Len(scripts)
           s == scripts'[n + 1]
<1>1. ConfigOK /\ ScriptsOK /\ ScriptInv
  BY DEF ServedInv, TypeInv
<1>2. /\ UNCHANGED <<conf, bak>> /\ excused \subseteq excused'
      /\ \/ UNCHANGED scripts /\ (came \ went) \subseteq excused'
         \/ /\ Len(scripts') = n + 1
            /\ DOMAIN scripts' = DOMAIN scripts \cup {n + 1}
            /\ \A k \in DOMAIN scripts :
                  /\ k # n + 1
                  /\ scripts'[k].at = scripts[k].at
                  /\ scripts'[k].saved = scripts[k].saved
                  /\ scripts'[k].remove = scripts[k].remove
                  /\ scripts'[k].add = scripts[k].add
                  /\ scripts'[k].clean = FALSE
                  /\ scripts[k].add \subseteq excused'
            /\ s.at = "read" /\ s.add = came \ went /\ s.remove \subseteq went
            /\ s.add # {} => s.remove = {}
            /\ s.remove \cap held \subseteq excused'
            /\ s.clean \/ s.add \subseteq excused'
            /\ s.clean => n = 0
  BY <1>1, ScriptedIs
<1>3. ASSUME NEW a \in InUse', a \notin excused'
      PROVE  Reported(a)' \/ (a \in InUse /\ LookedAfter(a))
  BY <1>2, <1>3 DEF ServedInv
<1>4. CASE UNCHANGED scripts /\ (came \ went) \subseteq excused'
  <2>1. ScriptInv'
    BY <1>1, <1>2, <1>4 DEF ScriptInv
  <2>2. ASSUME NEW a \in InUse', a \notin excused'
        PROVE  LookedAfter(a)'
    <3>1. Reported(a) => Reported(a)'
      BY <1>4, <2>2
    <3>2. BeingAdded(a) => BeingAdded(a)'
      BY <1>4 DEF BeingAdded
    <3>3. Configured(a) => Configured(a)'
      BY <1>2, <1>4 DEF Configured, SafeFrom, Writing
    <3> QED BY <1>3, <2>2, <3>1, <3>2, <3>3 DEF LookedAfter
  <2> QED BY <2>1, <2>2 DEF ServedInv
<1>5. CASE /\ Len(scripts') = n + 1
           /\ DOMAIN scripts' = DOMAIN scripts \cup {n + 1}
           /\ \A k \in DOMAIN scripts :
                 /\ k # n + 1
                 /\ scripts'[k].at = scripts[k].at
                 /\ scripts'[k].saved = scripts[k].saved
                 /\ scripts'[k].remove = scripts[k].remove
                 /\ scripts'[k].add = scripts[k].add
                 /\ scripts'[k].clean = FALSE
                 /\ scripts[k].add \subseteq excused'
           /\ s.at = "read" /\ s.add = came \ went /\ s.remove \subseteq went
           /\ s.add # {} => s.remove = {}
           /\ s.remove \cap held \subseteq excused'
           /\ s.clean \/ s.add \subseteq excused'
           /\ s.clean => n = 0
  <2>1. ScriptInv'
    <3>1. (update_exec = "rust" => bak = NoFile)'
      BY <1>1, <1>2 DEF ScriptInv
    <3>2. ASSUME NEW k \in DOMAIN scripts'
          PROVE  /\ scripts'[k].add # {} => scripts'[k].remove = {}
                 /\ scripts'[k].clean => Len(scripts') = 1
                 /\ scripts'[k].clean /\ scripts'[k].at = "test"
                       => scripts'[k].add \subseteq conf'
                 /\ scripts'[k].at = "reverting" => ~scripts'[k].clean
      <4>1. CASE k = n + 1
        <5>1. s.clean => Len(scripts') = 1
          BY <1>5
        <5>2. s.at = "read"
          BY <1>5
        <5> QED BY <1>5, <4>1, <5>1, <5>2
      <4>2. CASE k # n + 1
        <5>1. k \in DOMAIN scripts /\ ~scripts'[k].clean
          BY <1>5, <4>2
        <5> QED BY <1>1, <1>5, <5>1 DEF ScriptInv
      <4> QED BY <4>1, <4>2
    <3> QED BY <3>1, <3>2 DEF ScriptInv
  <2>2. ASSUME NEW a \in InUse', a \notin excused'
        PROVE  LookedAfter(a)'
    <3>1. Reported(a) => LookedAfter(a)'
      <4>1. a \in came \ went => BeingAdded(a)'
        BY <1>5, <2>2 DEF BeingAdded
      <4> QED BY <4>1 DEF LookedAfter
    <3>2. ~BeingAdded(a)
      BY <1>5, <2>2 DEF BeingAdded
    <3>3. a \in InUse /\ Configured(a) => Configured(a)'
      <4> SUFFICES ASSUME a \in InUse, Configured(a) PROVE Configured(a)'
        OBVIOUS
      <4>1. ASSUME NEW k \in DOMAIN scripts'
            PROVE  SafeFrom(scripts[k], a)'
        <5>1. CASE k = n + 1
          <6>1. a \notin s.remove
            BY <1>5, <2>2
          <6>2. s.at = "read"
            BY <1>5
          <6> QED BY <5>1, <6>1, <6>2 DEF SafeFrom
        <5>2. CASE k # n + 1
          <6>1. k \in DOMAIN scripts /\ SafeFrom(scripts[k], a)
            BY <1>5, <5>2 DEF Configured
          <6> QED BY <1>5, <6>1 DEF SafeFrom
        <5> QED BY <5>1, <5>2
      <4>2. a \in conf' \/ \E k \in DOMAIN scripts' : Writing(scripts'[k])
        BY <1>2, <1>5 DEF Configured, Writing
      <4> QED BY <1>2, <4>1, <4>2 DEF Configured, Writing
    <3> QED BY <1>3, <2>2, <3>1, <3>2, <3>3 DEF LookedAfter
  <2> QED BY <2>1, <2>2 DEF ServedInv
<1> QED BY <1>2, <1>4, <1>5

LEMMA ControllerServed ==
  ASSUME ServedInv, ExecInv, Controller
  PROVE  ServedInv'
<1>1. /\ TypeInv' /\ ReportsOK /\ units \in Seq(Addrs) /\ fresh \in Seq(Addrs)
      /\ UNCHANGED <<update_exec, instances_count>>
  <2>1. TypeInv' /\ ReportsOK /\ units \in Seq(Addrs) /\ fresh \in Seq(Addrs)
    BY ControllerTypes DEF ServedInv, TypeInv, BunchOK
  <2>2. UNCHANGED <<update_exec, instances_count>>
    BY DEF Controller, Start, TakeReport, RemoveStable, Rename, EventDropped, configVars
  <2> QED BY <2>1, <2>2
<1>2. CASE Start
  <2>1. PICK failures \in {0, 1} : /\ Tell({Spawned(ToSet(units'))})
                                   /\ Scripted(ToSet(units'), {}, {}, failures)
                                   /\ UNCHANGED fresh
    BY <1>2 DEF Start
  <2>2. PICK addrs \in SUBSET Addrs : addrs = ToSet(units')
    <3>1. units' \in Seq(Addrs)
      BY <1>1 DEF TypeInv, BunchOK
    <3>2. ToSet(units') \in SUBSET Addrs
      BY <3>1, AddrsOf
    <3> QED BY <3>2
  <2>3. Scripted(addrs, {}, {}, failures) /\ Tell({Spawned(addrs)})
    BY <2>1, <2>2
  <2>4. (\A a : Reported(a) => Reported(a)') /\ (\A a \in addrs : Reported(a)')
    <3>1. DOMAIN outbox' = DOMAIN outbox \cup {Spawned(addrs)}
      <4>1. {Spawned(addrs)} \in SUBSET Report
        BY ReportsTyped
      <4> QED BY <1>1, <2>3, <4>1, ToldOf
    <3>2. Spawned(addrs).came = addrs /\ Spawned(addrs).went = {}
      BY DEF Spawned, NewReport
    <3> QED BY <3>1, <3>2 DEF Reported
  <2>5. \A a \in InUse' : a \in InUse \/ Reported(a)'
    BY <2>1, <2>2, <2>4 DEF InUse
  <2>6. {} \in SUBSET Addrs
    OBVIOUS
  <2> QED BY <1>1, <2>3, <2>4, <2>5, <2>6, ScriptedServed
<1>3. CASE TakeReport
  <2>1. PICK report \in DOMAIN outbox, failures \in {0, 1} :
           /\ outbox' = outbox (-) SetToBag({report})
           /\ Scripted(report.came, report.went, InUse, failures)
    BY <1>3 DEF TakeReport, BagToSet
  <2>2. /\ report.came \in SUBSET Addrs /\ report.went \in SUBSET Addrs
        /\ InUse \in SUBSET Addrs
    BY <1>1, <2>1, AddrsOf DEF ReportsOK, Report, InUse
  <2>3. PICK held \in SUBSET Addrs : held = InUse
    BY <2>2
  <2>4. Scripted(report.came, report.went, held, failures)
    BY <2>1, <2>3
  <2>5. InUse' = InUse
    BY <1>3 DEF TakeReport, bunchVars, InUse
  <2>6. \A a : Reported(a) => Reported(a)' \/ a \in report.came \ report.went
    <3>1. DOMAIN outbox \ {report} \subseteq DOMAIN outbox'
      BY <1>1, <2>1, TakenFrom
    <3> QED BY <3>1 DEF Reported
  <2> QED BY <1>1, <2>2, <2>3, <2>4, <2>5, <2>6, ScriptedServed
<1>4. CASE RemoveStable \/ Rename \/ EventDropped
  <2>1. UNCHANGED <<conf, bak, scripts, excused, units, fresh>>
    BY <1>4 DEF RemoveStable, Rename, EventDropped, scriptVars, bunchVars
  <2>2. \A a : Reported(a) => Reported(a)'
    <3>1. CASE RemoveStable
      <4>1. PICK report \in DOMAIN outbox :
               /\ report.type = "UpdateFinished"
               /\ outbox' = outbox (-) SetToBag({report})
        BY <3>1 DEF RemoveStable, BagToSet
      <4>2. report.came = {}
        BY <4>1 DEF ExecInv, OutboxOK, UpdateFinished, NewReport
      <4>3. DOMAIN outbox \ {report} \subseteq DOMAIN outbox'
        BY <1>1, <4>1, TakenFrom
      <4> QED BY <4>2, <4>3 DEF Reported
    <3>2. CASE Rename \/ EventDropped
      BY <3>2 DEF Rename, EventDropped, Reported
    <3> QED BY <1>4, <3>1, <3>2
  <2>3. InUse' = InUse
    BY <2>1 DEF InUse
  <2> QED BY <1>1, <2>1, <2>2, <2>3, ReportedStep
<1> QED BY <1>2, <1>3, <1>4 DEF Controller

LEMMA WorldServed ==
  ASSUME ServedInv, World
  PROVE  ServedInv'
<1>1. /\ TypeInv' /\ ScriptsOK /\ units \in Seq(Addrs) /\ fresh \in Seq(Addrs)
      /\ UNCHANGED <<update_exec, conf, bak, excused>>
  <2>1. TypeInv' /\ ScriptsOK /\ units \in Seq(Addrs) /\ fresh \in Seq(Addrs)
    BY WorldTypes DEF ServedInv, TypeInv, BunchOK
  <2>2. UNCHANGED <<update_exec, conf, bak, excused>>
    BY DEF World, Accept, DropFile, Crash, Boot, configVars, scriptVars
  <2> QED BY <2>1, <2>2
<1>2. /\ DOMAIN scripts' = DOMAIN scripts /\ Len(scripts') = Len(scripts)
      /\ \A k \in DOMAIN scripts :
            /\ scripts'[k].at = scripts[k].at /\ scripts'[k].saved = scripts[k].saved
            /\ scripts'[k].add = scripts[k].add /\ scripts'[k].remove = scripts[k].remove
            /\ scripts'[k].clean = scripts[k].clean
  <2>1. CASE Accept \/ Crash
    <3>1. scripts' = [k \in DOMAIN scripts |-> [scripts[k] EXCEPT !.waited = FALSE]]
      BY <2>1 DEF Accept, Crash
    <3> QED BY <1>1, <3>1, AloneIs
  <2>2. CASE DropFile \/ Boot
    BY <2>2 DEF DropFile, Boot, scriptVars
  <2> QED BY <2>1, <2>2 DEF World
<1>3. CASE Accept \/ DropFile \/ Boot
  <2>1. /\ UNCHANGED <<fresh, outbox>>
        /\ units' = units \/ units' = <<>>
    BY <1>3 DEF Accept, DropFile, Boot, bunchVars
  <2>2. InUse' \subseteq InUse
    BY <1>1, <2>1, ToSets DEF InUse
  <2>3. \A a : Reported(a) => Reported(a)'
    BY <2>1 DEF Reported
  <2> QED BY <1>1, <1>2, <2>2, <2>3, ReportedStep
<1>4. CASE Crash
  <2>1. InUse' = {}
    BY <1>1, <1>4, ToSets DEF Crash, Off, InUse
  <2> QED BY <1>1, <1>2, <2>1, ReportedStep
<1> QED BY <1>3, <1>4 DEF World

\* At rest nothing is under way: who is looked after is in the configuration.
LEMMA ServedInvServed == ServedInv => ServedOrExcused
<1> SUFFICES ASSUME ServedInv, Settled, NEW a \in ToSet(units), a \notin excused
             PROVE  a \in conf
  BY DEF ServedOrExcused
<1>1. LookedAfter(a)
  BY DEF ServedInv, InUse
<1>2. ~Reported(a)
  BY DEF Settled, Reported, EmptyBag, SetToBag
<1>3. ~BeingAdded(a)
  BY DEF Settled, BeingAdded
<1>4. DOMAIN scripts = {}
  BY DEF Settled
<1> QED BY <1>1, <1>2, <1>3, <1>4 DEF LookedAfter, Configured

\* With any number of units, addresses and starts, with either script, with reports in
\* any order, restarts that reuse addresses, updates, cut waits and crashes: at rest,
\* every unit of a running bunch is with the load balancer, but for those lost in one of
\* the ways that ServedOrExcused lists, among them scripts that cannot be spawned, panic
\* or read what another has half written (bunch_controller.rs, bash/nginx-update,
\* examples/nginx-update.rs).
THEOREM UnitsAreServed == Spec => []ServedOrExcused
<1>1. Init => ServedInv
  <2> SUFFICES ASSUME Init, TypeInv PROVE ServedInv
    BY TypeInvInit
  <2>1. InUse = {}
    BY DEF Init, InUse, ToSet
  <2>2. ScriptInv
    BY DEF Init, ScriptInv
  <2> QED BY <2>1, <2>2 DEF ServedInv
<1>2. ServedInv /\ ExecInv /\ [Next]_vars => ServedInv'
  <2> SUFFICES ASSUME ServedInv, ExecInv, [Next]_vars PROVE ServedInv'
    OBVIOUS
  <2>1. CASE UNCHANGED vars
    BY <2>1 DEF vars, configVars, bunchVars, scriptVars, fileVars, ServedInv, TypeInv,
                ConfigOK, BunchOK, ReportsOK, MainOK, ScriptsOK, FilesOK, CountOK,
                ScriptInv, InUse, LookedAfter, Reported, BeingAdded, Configured, SafeFrom
  <2> QED BY <2>1, BunchServed, ScriptServed, ControllerServed, WorldServed DEF Next, Rest
<1> QED BY <1>1, <1>2, ExecInvAlways, ServedInvServed, PTL DEF Spec
=============================================================================
