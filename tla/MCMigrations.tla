---------------------------- MODULE MCMigrations ----------------------------
(* TLC instances of Migrations: two processes opening stores of any age.    *)
EXTENDS Migrations, TLC

CONSTANTS p1, p2

ProcSymmetry == Permutations(Procs)
=============================================================================
