------------------------------ MODULE TxTracker ------------------------------
(***************************************************************************)
(* What the front-end knows of a submitted SQL text, and the transaction   *)
(* state machine it drives from that knowledge.  Translated from           *)
(* modules/core/src/query/{classify,transaction}.rs.                       *)
(*                                                                         *)
(* A text is the sequence of its statements, each abstracted to its kind,  *)
(* and whether sqlparser accepts the whole of it: parse_first_statement    *)
(* parses every statement and then looks at the first one only.            *)
(*                                                                         *)
(* A definition marked "Faulty" is no part of the model: it is what the    *)
(* next one would be with a plausible bug, kept to show that a property    *)
(* would notice.                                                           *)
(***************************************************************************)
EXTENDS Naturals, Sequences

\* Kinds of statement.  "dml" is any statement that changes rows: one that
\* is_dml does not recognise (MERGE, EXPLAIN ANALYZE INSERT, syntax unknown to
\* sqlparser) is a "dml" in a text with parsed = FALSE.  "bad" is a statement
\* the server refuses to parse.
ControlKinds == {"begin", "commit", "commitchain", "rollback", "rollbackchain",
                 "savepoint", "rollbackto", "release"}
Kinds        == ControlKinds \union {"dml", "ddl", "query", "bad"}

Text == [stmts : Seq(Kinds), parsed : BOOLEAN]

TxStates  == {"Idle", "InTransaction", "Failed"}
TxEffects == {"Begin", "Commit", "Rollback", "RollbackToSavepoint",
              "Savepoint", "ReleaseSavepoint", "None"}

-----------------------------------------------------------------------------
\* The one statement every classifier sees.
FirstIs(t, kinds) == t.parsed /\ t.stmts[1] \in kinds

IsDml(t) == FirstIs(t, {"dml"})
IsDdl(t) == FirstIs(t, {"ddl"})

\* Faulty: ROLLBACK TO SAVEPOINT taken for ROLLBACK.
SavepointBlindEffect(t) ==
  CASE FirstIs(t, {"begin"})                   -> "Begin"
    [] FirstIs(t, {"commit"})                  -> "Commit"
    [] FirstIs(t, {"rollback", "rollbackto"})  -> "Rollback"
    [] OTHER                                   -> "None"

\* AND CHAIN is dropped: the patterns are Commit { .. } and Rollback { .. }.
TxEffect(t) ==
  CASE FirstIs(t, {"begin"})                     -> "Begin"
    [] FirstIs(t, {"commit", "commitchain"})     -> "Commit"
    [] FirstIs(t, {"rollback", "rollbackchain"}) -> "Rollback"
    [] FirstIs(t, {"rollbackto"})                -> "RollbackToSavepoint"
    [] FirstIs(t, {"savepoint"})                 -> "Savepoint"
    [] FirstIs(t, {"release"})                   -> "ReleaseSavepoint"
    [] OTHER                                     -> "None"

\* The transition of each state; COMMIT leaves Failed on the attempt.
FromIdle(effect, ok) ==
  IF effect = "Begin" /\ ok THEN "InTransaction" ELSE "Idle"

\* Faulty: the outcome is not looked at.
FromInTransactionBlind(effect, ok) ==
  IF effect \in {"Commit", "Rollback"} THEN "Idle" ELSE "InTransaction"
FromInTransaction(effect, ok) ==
  IF ~ok THEN "Failed"
  ELSE IF effect \in {"Commit", "Rollback"} THEN "Idle" ELSE "InTransaction"

\* Faulty: a savepoint does not rescue the transaction, or always does.
FromFailedForGood(effect, ok) ==
  IF effect = "Commit" \/ (effect = "Rollback" /\ ok) THEN "Idle" ELSE "Failed"
FromFailedTooSoon(effect, ok) ==
  IF effect = "Commit" \/ (effect = "Rollback" /\ ok) THEN "Idle"
  ELSE IF effect = "RollbackToSavepoint" THEN "InTransaction" ELSE "Failed"
FromFailed(effect, ok) ==
  IF effect = "Commit" \/ (effect = "Rollback" /\ ok) THEN "Idle"
  ELSE IF effect = "RollbackToSavepoint" /\ ok THEN "InTransaction" ELSE "Failed"

NextTxState(state, effect, ok) ==
  CASE state = "Idle"          -> FromIdle(effect, ok)
    [] state = "InTransaction" -> FromInTransaction(effect, ok)
    [] state = "Failed"        -> FromFailed(effect, ok)

\* The REPL's guard: DML is refused exactly when the tracker says Idle.
DmlRequiresTx(state, t) == state = "Idle" /\ IsDml(t)
=============================================================================
