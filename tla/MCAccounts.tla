------------------------------ MODULE MCAccounts ------------------------------
(* Symmetry for the model checking of Accounts.                            *)
EXTENDS AccountsMembership, TLC

Symmetry == Permutations(Attempts) \cup Permutations(Emails)

=============================================================================
