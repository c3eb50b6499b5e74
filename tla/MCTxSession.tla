----------------------------- MODULE MCTxSession -----------------------------
(* TLC instance of TxSession with the texts the tracker is made for: single *)
(* statements without AND CHAIN, two that sqlparser refuses, and texts of   *)
(* two statements whose first one says what the whole text does.            *)
EXTENDS TxSession

One(k)    == [stmts |-> <<k>>, parsed |-> TRUE]
Two(j, k) == [stmts |-> <<j, k>>, parsed |-> TRUE]

SingleTexts   == {One(k) : k \in Kinds \ {"commitchain", "rollbackchain", "bad"}}
UnparsedTexts == {[stmts |-> <<k>>, parsed |-> FALSE] : k \in {"bad", "query"}}
PairTexts     == {Two("dml", "dml"), Two("dml", "query"), Two("query", "ddl")}
ReadableTexts == SingleTexts \union UnparsedTexts \union PairTexts
Queries       == {One("query")}

\* The hypothesis of the theorems about TxSession holds of this instance.
ASSUME ReadableInputAssumption == ReadableInput
=============================================================================
