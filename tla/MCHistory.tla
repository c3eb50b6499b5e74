------------------------------ MODULE MCHistory ------------------------------
(* TLC instances of History: two shells, whose lines, listings and recordings *)
(* meet over two connections with one line-history file.                      *)
EXTENDS History

CONSTANTS s1, s2, c1, c2, q1, q2, lineFile, t1, t2, col

OneFile == (c1 :> lineFile) @@ (c2 :> lineFile)
QueryTables  == (q1 :> {t1}) @@ (q2 :> {t2})
QueryColumns == (q1 :> {<<t1, col>>}) @@ (q2 :> {<<t2, col>>})
Earlier == <<<<c1, q1>>, <<c1, q2>>>>
Symmetric == Permutations(Shells)

\* Rows are lost only where no time passes and nothing is listed or saved, and a
\* third line is typed only where, moreover, nothing has been recorded.
Timeless   == clock' = 0 /\ saved' = {} /\ \A s \in Shells : shell'[s] # <<>> => shell'[s][1].listed = <<>>
Unrecorded == \A c \in Conns, q \in Queries : ran'[c][q].times = IF <<c, q>> \in ToSet(Earlier) THEN 1 ELSE 0
Narrow ==
  /\ lost' = {} \/ Timeless
  /\ lines' < 3 \/ (Timeless /\ Unrecorded)
=============================================================================
