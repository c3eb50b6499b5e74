------------------------------ MODULE MCTxDrift ------------------------------
(* TLC instance of TxSession where the tracker and the server drift apart:  *)
(* a COMMIT is refused.                                                     *)
EXTENDS TxSession

One(k)     == [stmts |-> <<k>>, parsed |-> TRUE]
PlainTexts == {One(k) : k \in {"begin", "commit", "rollback", "dml", "query"}}
Queries    == {One("query")}
=============================================================================
