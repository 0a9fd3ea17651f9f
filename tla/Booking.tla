------------------------------- MODULE Booking -------------------------------
(***************************************************************************)
(* What the whole incident service promises, seen by the people in it: a   *)
(* risk is confirmed or dismissed once, a responder is asked about one     *)
(* incident at a time and an incident asks one responder at a time, a      *)
(* responder may refuse until it has agreed, and a confirmed risk is over  *)
(* only when the responder that agreed has finished.                       *)
(*                                                                         *)
(* No tables, no versions, no users in the control room: this is the       *)
(* abstract specification that Lifecycle implements (LifecycleBooking).    *)
(***************************************************************************)
CONSTANTS
    Incidents,      \* risks that were detected
    Responders      \* people that can be sent to one

VARIABLES
    need,           \* [Incidents -> Needs]: what is known of the incident
    asked,          \* pairs of a responder and the incident it was asked about
    bound           \* pairs of a responder and the incident it agreed to

Needs == {"unknown", "real", "over"}

\* Who is taken up by what, with or without having agreed.
Serving == asked \cup bound

Init ==
    /\ need = [i \in Incidents |-> "unknown"]
    /\ asked = {}
    /\ bound = {}

Confirm(i) ==
    /\ need[i] = "unknown"
    /\ need' = [need EXCEPT ![i] = "real"]
    /\ UNCHANGED <<asked, bound>>

Dismiss(i) ==
    /\ need[i] = "unknown"
    /\ need' = [need EXCEPT ![i] = "over"]
    /\ UNCHANGED <<asked, bound>>

Ask(r, i) ==
    /\ need[i] = "real"
    /\ \A s \in Serving : s[1] # r /\ s[2] # i
    /\ asked' = asked \cup {<<r, i>>}
    /\ UNCHANGED <<need, bound>>

Refuse(r, i) ==
    /\ <<r, i>> \in asked
    /\ asked' = asked \ {<<r, i>>}
    /\ UNCHANGED <<need, bound>>

Agree(r, i) ==
    /\ <<r, i>> \in asked
    /\ asked' = asked \ {<<r, i>>}
    /\ bound' = bound \cup {<<r, i>>}
    /\ UNCHANGED need

Finish(r, i) ==
    /\ <<r, i>> \in bound
    /\ need[i] = "real"
    /\ bound' = bound \ {<<r, i>>}
    /\ need' = [need EXCEPT ![i] = "over"]
    /\ UNCHANGED asked

Next ==
    \E i \in Incidents :
      \/ Confirm(i)
      \/ Dismiss(i)
      \/ \E r \in Responders : Ask(r, i) \/ Refuse(r, i) \/ Agree(r, i) \/ Finish(r, i)

Spec == Init /\ [][Next]_<<need, asked, bound>>

=============================================================================
