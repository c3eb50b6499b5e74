---------------------------- MODULE MCSchemaCache ----------------------------
(* TLC instances of SchemaCache: schemas of two columns, none of which is a *)
(* part of another, and a database without tables.                          *)
EXTENDS SchemaCache, TLC

CONSTANTS a, b, c, s1, s2, d1, d2, none

TwoDatabases  == (d1 :> {{a, b}, {b, c}}) @@ (d2 :> {{}})
ShellSymmetry == Permutations(Shells)
=============================================================================
