---------------------------- MODULE MCMigrations ----------------------------
(* Two runners for TLC; they are interchangeable.                           *)
EXTENDS Migrations, TLC

\* README.md:80 counts the tables of the schema.
ASSUME FortyFourTables == Len(AllTables) = 44

RunnerSymmetry == Permutations(Runners)
=============================================================================
