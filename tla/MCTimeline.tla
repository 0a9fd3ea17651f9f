----------------------------- MODULE MCTimeline -----------------------------
(* Timeline on a small instance: requests and responders are interchangeable. *)
EXTENDS Timeline, TLC

Symmetry == Permutations(Requests) \cup Permutations(Dispatches)
=============================================================================
