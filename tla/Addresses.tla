------------------------------ MODULE Addresses ------------------------------
(***************************************************************************)
(* Where addresses of units come from: find_available_addresses, the two   *)
(* ways a bunch takes a single one, and what these rely on.                *)
(*                                                                         *)
(* Over TCP, a scan probes port after port from the configured one, while  *)
(* other scans and programs take and release ports; one probe is one step. *)
(* Over unix sockets, a directory is read once and the rest is computed.   *)
(* Which of the two, the configuration says.                               *)
(***************************************************************************)
EXTENDS Naturals, FiniteSets, SequencesExt

CONSTANTS
    Scanners,       \* bunches looking for ports, each on its own thread
    PortCount,      \* how many a port can be (65536)
    BasePort,       \* the port in the configuration
    InstancesCount, \* instances_count
    MaxIndex,       \* bound: largest N of a file sockN
    MaxFiles,       \* bound: how many such files
    MaxChanges      \* bound: what others do to the ports

ASSUME PortAssumption == PortCount \in Nat /\ BasePort \in 0..(PortCount - 1)
ASSUME InstancesAssumption == InstancesCount \in Nat \ {0}
ASSUME BoundsAssumption == MaxIndex \in Nat /\ MaxFiles \in Nat

VARIABLES
    connect_addr, \* the address configured: "tcp" (one of this host), "remote"
                  \* (TCP too, but of no interface of this host) or "unix"
    used,         \* ports that are taken: somebody listens, or they are reserved
    refused,      \* no socket can be made at all: there is no descriptor left
    scan,         \* the scan of each bunch
    looked,       \* the last lookup of socket paths
    changes       \* what others did so far

vars == <<connect_addr, used, refused, scan, looked, changes>>

-----------------------------------------------------------------------------
(* Ports. *)

Port == 0..(PortCount - 1)

\* A port has to be asked for to be taken.
Takeable == Port \ {0}

\* A listener can be bound to it: false on any error.  Asking for 0 is asking
\* for any that is left.
is_port_available(p) ==
    /\ connect_addr = "tcp"
    /\ ~refused
    /\ IF p = 0 THEN Takeable \ used # {} ELSE p \notin used

Available == {p \in Port : is_port_available(p)}

\* Variant: the number stays at the last one.
Succ_Saturating(p) == IF p = PortCount - 1 THEN p ELSE p + 1

\* Variant: the number does not wrap around.
Succ_Wider(p) == p + 1

\* current_port += 1, in a release build.
Succ(p) == IF p = PortCount - 1 THEN 0 ELSE p + 1

\* How far a port is from the configured one.
Dist(p) == IF p >= BasePort THEN p - BasePort ELSE p + PortCount - BasePort

(***************************************************************************)
(* want: how many ports are asked for; port: current_port; found:          *)
(* available_addresses.  History: probes, how many were made; calm and     *)
(* ever, the ports that were available all the time since the scan began,  *)
(* and at some time.  Probes are counted to PortCount + 1, which says that *)
(* the scan has come round.                                                *)
(***************************************************************************)
Scan == [at : {"idle", "scanning", "found"}, want : 1..InstancesCount,
         port : Port, found : Seq(Port), probes : 0..(PortCount + 1),
         calm : SUBSET Port, ever : SUBSET Port]

Entered(at, n, free) ==
    [at |-> at, want |-> n, port |-> BasePort, found |-> <<>>, probes |-> 0,
     calm |-> free, ever |-> free]

Idle == Entered("idle", 1, {})

Count(probes) == IF probes > PortCount THEN probes ELSE probes + 1

\* run asks for all of them, a replacement for one.
Begin(b) ==
    /\ connect_addr \in {"tcp", "remote"}
    /\ scan[b].at \in {"idle", "found"}
    /\ \E n \in {1, InstancesCount} :
          scan' = [scan EXCEPT ![b] = Entered("scanning", n, Available)]
    /\ UNCHANGED <<connect_addr, used, refused, looked, changes>>

\* Variant: a port found is probed again.
Probed_Again(s) ==
    [s EXCEPT !.probes = Count(@),
              !.port = IF is_port_available(@) THEN @ ELSE Succ(@),
              !.found = IF is_port_available(s.port) THEN Append(@, s.port)
                                                     ELSE @]

\* One call of is_port_available, and what follows up to the next.
Probed(s) ==
    [s EXCEPT !.probes = Count(@),
              !.port = Succ(@),
              !.found = IF is_port_available(s.port) THEN Append(@, s.port)
                                                     ELSE @]

Probe(b) ==
    /\ scan[b].at = "scanning"
    /\ LET s == Probed(scan[b]) IN
       scan' = [scan EXCEPT ![b] =
          IF Len(s.found) = s.want THEN [s EXCEPT !.at = "found"] ELSE s]
    /\ UNCHANGED <<connect_addr, used, refused, looked, changes>>

\* What is available changes, as every scan going on may notice.
Noticed ==
    scan' = [b \in Scanners |->
                IF scan[b].at = "scanning"
                THEN [scan[b] EXCEPT !.calm = @ \cap Available',
                                     !.ever = @ \cup Available']
                ELSE scan[b]]

\* A unit started with an address found listens, if nobody did meanwhile.
Listen(b) ==
    /\ scan[b].at = "found"
    /\ \E p \in ToSet(scan[b].found) \ (used \cup {0}) : used' = used \cup {p}
    /\ UNCHANGED <<connect_addr, refused, looked, changes>>
    /\ Noticed

\* Other programs, and units that exit.
Others ==
    /\ connect_addr = "tcp"
    /\ changes < MaxChanges
    /\ changes' = changes + 1
    /\ \/ /\ \/ \E p \in Takeable \ used : used' = used \cup {p}
             \/ \E p \in used : used' = used \ {p}
          /\ UNCHANGED refused
       \/ /\ refused' = ~refused
          /\ UNCHANGED used
    /\ UNCHANGED <<connect_addr, looked>>
    /\ Noticed

-----------------------------------------------------------------------------
(* Unix sockets. *)

\* The indices of the files sockN, in the order of the directory.  A number can
\* be spelt in several ways ("sock1", "sock01") and so occur twice.  The paths
\* of units ("app-socket-1") do not match.
Listings == SeqOf(0..MaxIndex, MaxFiles)

\* numbers.sort(): after all that are less, and equal ones in their order.
Place(s, i) ==
    Cardinality({j \in DOMAIN s : s[j] < s[i] \/ (s[j] = s[i] /\ j <= i)})

Sorted(s) == [k \in DOMAIN s |-> s[CHOOSE i \in DOMAIN s : Place(s, i) = k]]

\* Where the loop over ascending numbers stops: at the first that is larger
\* than its place, or after the last.
LoopEnd(s) == CHOOSE p \in 1..(Len(s) + 1) :
                 /\ p <= Len(s) => s[p] > p
                 /\ \A i \in 1..(p - 1) : s[i] <= i

\* Variant: the numbers are not sorted.
find_min_Unsorted(numbers) == LoopEnd(numbers)

find_min_not_occupied(numbers) == LoopEnd(Sorted(numbers))

\* sock_indices when get_sockets_paths returns: those of the directory, and
\* count new ones.
SockIndices(listing, count) ==
    LET sock_indices[n \in 0..count] ==
          IF n = 0
          THEN listing
          ELSE Append(sock_indices[n - 1],
                      find_min_not_occupied(sock_indices[n - 1]))
    IN  sock_indices[count]

\* run starts a unit at every path; get_single_address pops the last; the
\* handler of a failed health check takes the first.
Handed(use, paths) ==
    CASE use = "run"    -> paths
      [] use = "single" -> <<Last(paths)>>
      [] use = "check"  -> <<Head(paths)>>

Lookup == [use : {"run", "single", "check"}, listing : Seq(Nat), addrs : Seq(Nat)]

LookUp ==
    /\ connect_addr = "unix"
    /\ \E listing \in Listings : \E use \in {"run", "single", "check"} :
          LET count == IF use = "run" THEN InstancesCount ELSE 1 IN
          looked' = [use |-> use, listing |-> listing,
                     addrs |-> Handed(use, SockIndices(listing, count))]
    /\ UNCHANGED <<connect_addr, used, refused, scan, changes>>

-----------------------------------------------------------------------------
Init ==
    /\ connect_addr \in {"tcp", "remote", "unix"}
    /\ used \in IF connect_addr = "tcp" THEN SUBSET Takeable ELSE {{}}
    /\ refused \in IF connect_addr = "tcp" THEN BOOLEAN ELSE {FALSE}
    /\ scan = [b \in Scanners |-> Idle]
    /\ looked = [use |-> "run", listing |-> <<>>,
                 addrs |-> SockIndices(<<>>, InstancesCount)]
    /\ changes = 0

Next == \/ \E b \in Scanners : Begin(b) \/ Probe(b) \/ Listen(b)
        \/ Others
        \/ LookUp

Spec == Init /\ [][Next]_vars

\* A thread that scans goes on.
FairSpec == Spec /\ \A b \in Scanners : WF_vars(Probe(b))

-----------------------------------------------------------------------------
(* Type invariant. *)

TypeOK ==
    /\ connect_addr \in {"tcp", "remote", "unix"}
    /\ used \in SUBSET Takeable
    /\ refused \in BOOLEAN
    /\ scan \in [Scanners -> Scan]
    /\ looked \in Lookup
    /\ changes \in Nat

(* Safety. *)

\* What a scan has found, whatever happened meanwhile, as long as it has not come
\* round: ports in the order of their numbers from the configured one, so all
\* different; each was available at some time since the scan began; and no port
\* was passed over that was available all the time.  (If nothing happened:
\* exactly the first available ones.  Nothing says that they still are.)
ScanFinds ==
    \A b \in Scanners :
       LET s == scan[b] IN
       s.probes <= PortCount =>
          /\ \A i, j \in DOMAIN s.found :
                i < j => Dist(s.found[i]) < Dist(s.found[j])
          /\ \A i \in DOMAIN s.found :
                s.found[i] \in s.ever /\ Dist(s.found[i]) < s.probes
          /\ \A p \in s.calm :
                Dist(p) < s.probes => \E i \in DOMAIN s.found : s.found[i] = p

\* A scan comes round, and may find a port twice, only if fewer ports than it was
\* asked for stayed available.
RoundOnlyIfFull ==
    \A b \in Scanners :
       scan[b].probes > PortCount => Cardinality(scan[b].calm) < scan[b].want

\* The indices get_sockets_paths adds to a directory's are distinct and none of
\* them is in it, and if every number occurs once and none is 0, they are the
\* least such.  It is what get_single_address hands out for a replacement, and
\* the end of what run starts units at: in front of it are the directory's own.
SocketsFresh ==
    LET old   == ToSet(looked.listing)
        added == IF looked.use = "run"
                 THEN SubSeq(looked.addrs, Len(looked.listing) + 1,
                             Len(looked.addrs))
                 ELSE looked.addrs
    IN
    looked.use # "check" =>
       /\ IsInjective(added)
       /\ old \cap ToSet(added) = {}
       /\ (IsInjective(looked.listing) /\ 0 \notin old) =>
             \A n \in ToSet(added) : 1..n \subseteq old \cup ToSet(added)

(* Liveness. *)

\* A scan ends, even if ports are taken before it and the number wraps around,
\* unless at some time nothing can be bound at all: no port is left, no
\* descriptor is, or the address is of another host.  Then it goes on probing; it
\* has no error to return.
ScanEnds ==
    \A b \in Scanners :
       scan[b].at = "scanning" ~> (scan[b].at = "found" \/ Available = {})
=============================================================================
