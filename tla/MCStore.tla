------------------------------- MODULE MCStore -------------------------------
(* TLC instances of Store: a name that reads as the number 2 and sorts      *)
(* before one that is no number; one query, which names one table.          *)
EXTENDS Store, TLC

CONSTANTS two, zed, noname, s1, c1, c2, q1, t1, host, database

Numbers  == (two :> 2) @@ (zed :> 0)
Order    == (two :> 1) @@ (zed :> 2)
OneTable == q1 :> {t1}
OneField == {{f} : f \in Fields}
Symmetry == Permutations(Clis) \union Permutations(Fields)
=============================================================================
