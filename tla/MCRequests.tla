------------------------------ MODULE MCRequests -----------------------------
(* Symmetry for the model checking of Requests.                            *)
EXTENDS RequestsOncePerKey, TLC

Symmetry ==
    Permutations(Attempts) \cup Permutations(Keys \ CrowdedKeys)
        \cup Permutations(Dispatches) \cup Permutations(Dispatchable)

=============================================================================
