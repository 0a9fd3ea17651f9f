----------------------------- MODULE MCLifecycle -----------------------------
(* Symmetry for the model checking of Lifecycle, of Booking above it and of *)
(* the boards that show it.                                                *)
EXTENDS LifecycleBooking, Boards, TLC

\* Incidents, request keys and dispatchable responders are interchangeable.
Symmetry ==
    Permutations(Incidents) \cup Permutations(Dispatches)
        \cup Permutations(Dispatchable)

=============================================================================
