----------------------------- MODULE Supervisor -----------------------------
(***************************************************************************)
(* What a service bunch promises to its controller, without saying how: a  *)
(* bunch that is up keeps at least Needed units; it lets go of one only    *)
(* for another, or when it has more than it needs; a unit it let go of, or *)
(* has reported as gone, never returns; and once it gives up it only lets  *)
(* go, apart from units it may still start (a stopping bunch restarts what *)
(* fails).                                                                 *)
(***************************************************************************)
EXTENDS Naturals, FiniteSets

CONSTANTS
    Units,   \* the names of units
    Needed   \* how many a bunch that is up must keep

VARIABLES
    mode,      \* "off", "up", "down" (stopping or never started) or "over"
    kept,      \* the units it holds a connection to
    released,  \* the units it held and let go of
    told       \* the units it has reported as gone

cVars == <<mode, kept, released, told>>

\* Names no unit has had yet.
Free == Units \ (kept \cup released)

LetGo(us) ==
    /\ kept' = kept \ us
    /\ released' = released \cup us

-----------------------------------------------------------------------------
(* The start succeeds, or what was started is let go of again.             *)
Open ==
    /\ mode = "off" /\ mode' = "up"
    /\ kept' \in SUBSET Free
    /\ Cardinality(kept') >= Needed
    /\ UNCHANGED <<released, told>>

OpenFails ==
    /\ mode = "off" /\ mode' = "down"
    /\ released' \in SUBSET Free
    /\ told' = released'
    /\ UNCHANGED kept

\* A failed unit gives way to another one, and is reported with it.
Replace(u, v) ==
    /\ kept' = (kept \ {u}) \cup {v}
    /\ released' = released \cup {u}
    /\ told' = told \cup {u}

\* One unit more.
Grow(v) ==
    /\ kept' = kept \cup {v}
    /\ UNCHANGED <<released, told>>

\* One unit less, while there are enough.
Retire(u) ==
    /\ mode = "up" => Cardinality(kept) > Needed
    /\ LetGo({u})
    /\ UNCHANGED told

\* A bunch that is up, or going down, does one of these ...
Change ==
    /\ mode \in {"up", "down"}
    /\ \/ \E v \in Free : Grow(v) \/ \E u \in kept : Replace(u, v)
       \/ \E u \in kept : Retire(u)
    /\ UNCHANGED mode

\* ... or gives up: any of its units are let go of and reported ...
Close ==
    /\ mode \in {"up", "down"} /\ mode' = "down"
    /\ kept' \in SUBSET kept
    /\ released' = released \cup (kept \ kept')
    /\ told' = told \cup (kept \ kept')

\* ... or ends, and may have reported some of those it let go of.
End ==
    /\ mode \in {"up", "down"} /\ mode' = "over"
    /\ LetGo(kept)
    /\ told' \in SUBSET (told \cup kept)
    /\ told \subseteq told'

-----------------------------------------------------------------------------
Init == mode = "off" /\ kept = {} /\ released = {} /\ told = {}

Next == Open \/ OpenFails \/ Change \/ Close \/ End

Spec == Init /\ [][Next]_cVars
=============================================================================
