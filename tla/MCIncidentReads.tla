---------------------------- MODULE MCIncidentReads ----------------------------
(* Symmetry for the model checking of IncidentReads.                       *)
EXTENDS IncidentReads, TLC

\* Request keys and dispatchable responders are interchangeable.
Symmetry == Permutations(Dispatches) \cup Permutations(Dispatchable)

=============================================================================
