------------------------------ MODULE TxPromise ------------------------------
(***************************************************************************)
(* What `pgrs shell` promises about the rows a user changes, without the   *)
(* tracker, the server or the texts that go between them: rows are written *)
(* while a transaction is open and become durable all at once, or are      *)
(* undone; when no transaction is open none is pending.                    *)
(***************************************************************************)
CONSTANT Rows

VARIABLES
  open,     \* whether a transaction is open
  pending,  \* the rows written in it
  durable   \* the rows that no ROLLBACK undoes any more

vars == <<open, pending, durable>>

Init == open = FALSE /\ pending = {} /\ durable = {}

Begin == ~open /\ open' = TRUE /\ UNCHANGED <<pending, durable>>

Write ==
  /\ open
  /\ \E r \in Rows : r \notin pending \union durable /\ pending' = pending \union {r}
  /\ UNCHANGED <<open, durable>>

\* All the pending rows or none, and only while the transaction is open.
Commit ==
  /\ open
  /\ durable' = durable \union pending /\ pending' = {}
  /\ UNCHANGED open

\* ROLLBACK, ROLLBACK TO SAVEPOINT, an error or a lost connection: pending rows
\* go, and none comes in.
Undo ==
  /\ pending' \in SUBSET pending
  /\ UNCHANGED <<open, durable>>

\* The transaction is over, or the shell: nothing is left pending.
Close == open' = FALSE /\ pending' = {} /\ UNCHANGED durable

Next == Begin \/ Write \/ Commit \/ Undo \/ Close

Spec == Init /\ [][Next]_vars
=============================================================================
