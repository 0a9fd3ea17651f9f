--------------------------- MODULE LifecycleBooking ---------------------------
(***************************************************************************)
(* The tables of Lifecycle read as a state of Booking.  Nothing of what    *)
(* Booking speaks of is stored as such: who serves whom is a join of       *)
(* active dispatch requests, what is known of an incident is a grouping of *)
(* its statuses.                                                           *)
(***************************************************************************)
EXTENDS Lifecycle

\* The groups of statuses of an incident, by what they say of the risk.
ConfirmedStatuses ==
    {"DISPATCH_REQUESTED", "DISPATCHED", "ON_SCENE", "ACTION_IN_PROGRESS"}

OverStatuses == {"FALSE_POSITIVE", "ACTION_COMPLETED", "CLOSED"}

NeedOf(status) ==
    IF status \in ConfirmedStatuses THEN "real"
    ELSE IF status \in OverStatuses THEN "over" ELSE "unknown"

Need == [i \in Incidents |-> NeedOf(incidents[i].status)]

\* Pairs of responder and incident of the active requests that are, or are
\* no longer, REQUESTED.
Pair(d) == <<dispatch_requests[d].responder, dispatch_requests[d].incident>>

AskedPairs ==
    {Pair(d) : d \in {e \in Used : dispatch_requests[e].status = "REQUESTED"}}

BoundPairs ==
    {Pair(d) : d \in {e \in Used : /\ IsActive(e)
                                   /\ dispatch_requests[e].status # "REQUESTED"}}

B == INSTANCE Booking WITH
        need  <- Need,
        asked <- AskedPairs,
        bound <- BoundPairs

\* Whatever commands controllers and responders send, what happens to the
\* people is a behaviour of Booking: in particular a responder that accepted
\* is released by complete-action alone, and a confirmed risk is over only
\* then; assign, reject and close never end it, nor does any decision.
ImplementsBooking == B!Spec

=============================================================================
