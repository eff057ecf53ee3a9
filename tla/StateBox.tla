------------------------------ MODULE StateBox ------------------------------
(***************************************************************************)
(* The finite state machine a service bunch keeps about itself:            *)
(* src/service/service_bunch/state_machine.rs.  It has no state of its own *)
(* here: a bunch holds the current State and applies Update to it.         *)
(***************************************************************************)

State == {"Starting", "Running", "Updating", "Stopping"}

Event == {"UpdateRequest", "StopRequest", "ServicesEstablished",
          "UpdatingFinished", "UpdatingFailed"}

\* StateBox::new.
InitialState == "Starting"

\* Variant: ServicesEstablished is not tied to Starting.
Transition_Reestablishes(state, event) ==
    \/ /\ state = "Running"  /\ event = "UpdateRequest"
    \/ event = "ServicesEstablished"
    \/ /\ state = "Updating" /\ event \in {"UpdatingFinished", "UpdatingFailed"}
    \/ /\ state \in {"Running", "Updating"} /\ event = "StopRequest"

(***************************************************************************)
(* The transitions StateBox::update knows, as a partial function from      *)
(* (state, event).  Note what is absent: a StopRequest while Starting, and *)
(* every event while Stopping.                                             *)
(***************************************************************************)
Transition(state, event) ==
    \/ /\ state = "Running"  /\ event = "UpdateRequest"
    \/ /\ state = "Starting" /\ event = "ServicesEstablished"
    \/ /\ state = "Updating" /\ event \in {"UpdatingFinished", "UpdatingFailed"}
    \/ /\ state \in {"Running", "Updating"} /\ event = "StopRequest"

\* Where a transition leads depends on the event alone.
Target(event) ==
    CASE event = "UpdateRequest" -> "Updating"
      [] event = "StopRequest"   -> "Stopping"
      [] OTHER                   -> "Running"

\* StateBox::update: an event without a transition leaves the state alone.
Update(state, event) ==
    IF Transition(state, event) THEN Target(event) ELSE state
=============================================================================
