----------------------------- MODULE MCListReads -----------------------------
(* Bounds for the model checking of ListReads.  Incidents are numbers and  *)
(* controllers own lists, so nothing is interchangeable.                   *)
EXTENDS ListReads

=============================================================================
