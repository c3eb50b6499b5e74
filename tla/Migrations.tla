------------------------------ MODULE Migrations ------------------------------
(***************************************************************************)
(* Opening the SQLite store: pgrs processes that each read user_version    *)
(* once and run the statements of the migrations it asks for.  Every       *)
(* statement commits by itself (execute_batch opens no transaction), so a  *)
(* crash, an error or another process may come between any two of them.    *)
(***************************************************************************)
EXTENDS Naturals, Sequences

CONSTANTS
  Procs,    \* pgrs processes
  Faults    \* "crash": a process dies while migrating; "busy": a statement fails

ASSUME MigrationFaultsAssumption == Faults \subseteq {"crash", "busy"}

VARIABLES
  version,  \* PRAGMA user_version
  shape,    \* version that defined each table, 0 when the table is missing
  history,  \* whether query_history holds rows
  pc,       \* what each process is doing
  from,     \* the version it read
  done,     \* how many statements of its script it has run
  overlap   \* ghost: a process ran a statement while another was migrating

vars == <<version, shape, history, pc, from, done, overlap>>

Latest    == 3
Analytics == {"query_history", "table_access", "column_access", "schema_tables", "schema_columns"}
Tables    == Analytics \union {"connections", "saved_queries"}
Current   == [t \in Tables |-> IF t = "connections" THEN 1
                               ELSE IF t = "saved_queries" THEN 3 ELSE 2]

-----------------------------------------------------------------------------
(* The scripts, one statement at a time                                     *)

Stmt(op, t, v) == [op |-> op, table |-> t, v |-> v]

\* CREATE TABLE IF NOT EXISTS, and an index on the columns of that version.
Ensure(t, v)  == <<Stmt("ensure", t, v)>>
Create(t, v)  == <<Stmt("create", t, v)>>
Index(t, v)   == <<Stmt("index", t, v)>>
DropTable(t)  == <<Stmt("drop", t, 0)>>
SetVersion(v) == <<Stmt("version", "", v)>>

SchemaV1 ==
  Ensure("connections", 1)
  \o Ensure("query_history", 1) \o Index("query_history", 1)
  \o Ensure("table_access", 1) \o Index("table_access", 1)
  \o Ensure("column_access", 1) \o Index("column_access", 1)
  \o Ensure("schema_tables", 1) \o Ensure("schema_columns", 1)

DropV1 ==
  DropTable("schema_columns") \o DropTable("schema_tables")
  \o DropTable("column_access") \o DropTable("table_access") \o DropTable("query_history")

CreateV2 ==
  Create("query_history", 2) \o Index("query_history", 2)
  \o Create("table_access", 2) \o Index("table_access", 2)
  \o Create("column_access", 2) \o Index("column_access", 2)
  \o Create("schema_tables", 2) \o Create("schema_columns", 2)

\* Faulty: the old tables are not dropped first.  (A "Faulty" definition is no
\* part of the model: it is the next one with a plausible bug.)
CreateV2Only == CreateV2
SchemaV2 == DropV1 \o CreateV2
SchemaV3 == Create("saved_queries", 3) \o Index("saved_queries", 3)

\* Faulty: the version is set before its script runs.
VersionFirst(read) ==
  (IF read < 1 THEN SetVersion(1) \o SchemaV1 ELSE <<>>)
  \o (IF read < 2 THEN SetVersion(2) \o SchemaV2 ELSE <<>>)
  \o (IF read < 3 THEN SetVersion(3) \o SchemaV3 ELSE <<>>)
\* Faulty: the script of version 2 runs again on the way to version 3.
AlwaysV2(read) ==
  (IF read < 1 THEN SchemaV1 \o SetVersion(1) ELSE <<>>)
  \o (IF read < 3 THEN SchemaV2 \o SetVersion(2) \o SchemaV3 \o SetVersion(3) ELSE <<>>)

\* What migrate runs for the version it read: each version is set after the
\* script that brings it about.
Script(read) ==
  (IF read < 1 THEN SchemaV1 \o SetVersion(1) ELSE <<>>)
  \o (IF read < 2 THEN SchemaV2 \o SetVersion(2) ELSE <<>>)
  \o (IF read < 3 THEN SchemaV3 \o SetVersion(3) ELSE <<>>)

\* SQLite refuses to create a table that exists and to index a column that
\* the table does not have.
Succeeds(st) ==
  CASE st.op = "create" -> shape[st.table] = 0
    [] st.op = "index"  -> shape[st.table] = st.v
    [] OTHER            -> TRUE

Effect(st) ==
  /\ version' = IF st.op = "version" THEN st.v ELSE version
  /\ shape' = CASE st.op = "create" -> [shape EXCEPT ![st.table] = st.v]
                [] st.op = "ensure" /\ shape[st.table] = 0 -> [shape EXCEPT ![st.table] = st.v]
                [] st.op = "drop" -> [shape EXCEPT ![st.table] = 0]
                [] OTHER -> shape
  /\ history' = (history /\ ~(st.op = "drop" /\ st.table = "query_history"))

-----------------------------------------------------------------------------
(* SqliteRepository::open                                                   *)

ReadVersion(p) ==
  /\ pc[p] = "off"
  /\ pc' = [pc EXCEPT ![p] = "migrating"]
  /\ from' = [from EXCEPT ![p] = version]
  /\ done' = [done EXCEPT ![p] = 0]
  /\ UNCHANGED <<version, shape, history, overlap>>

Left(p) == Len(Script(from[p])) - done[p]
Head1(p) == Script(from[p])[done[p] + 1]
Crowded(p) == \E q \in Procs \ {p} : pc[q] = "migrating" /\ Left(q) > 0

Run(p) ==
  /\ pc[p] = "migrating" /\ Left(p) > 0 /\ Succeeds(Head1(p))
  /\ Effect(Head1(p))
  /\ done' = [done EXCEPT ![p] = @ + 1]
  /\ overlap' = (overlap \/ Crowded(p))
  /\ UNCHANGED <<pc, from>>

\* Any error ends open, and the program with it.
Fail(p) ==
  /\ pc[p] = "migrating" /\ Left(p) > 0
  /\ ~Succeeds(Head1(p)) \/ "busy" \in Faults
  /\ pc' = [pc EXCEPT ![p] = "failed"]
  /\ overlap' = (overlap \/ Crowded(p))
  /\ UNCHANGED <<version, shape, history, from, done>>

Opened(p) ==
  /\ pc[p] = "migrating" /\ Left(p) = 0
  /\ pc' = [pc EXCEPT ![p] = "open"]
  /\ UNCHANGED <<version, shape, history, from, done, overlap>>

\* A query is recorded in the history.
Record(p) ==
  /\ pc[p] = "open" /\ shape["query_history"] = 2
  /\ history' = TRUE
  /\ UNCHANGED <<version, shape, pc, from, done, overlap>>

Exit(p) ==
  /\ pc[p] \in {"open", "failed"} \/ (pc[p] = "migrating" /\ "crash" \in Faults)
  /\ pc' = [pc EXCEPT ![p] = "off"]
  /\ from' = [from EXCEPT ![p] = 0]
  /\ done' = [done EXCEPT ![p] = 0]
  /\ UNCHANGED <<version, shape, history, overlap>>

-----------------------------------------------------------------------------
\* A new file, or one that an earlier release has left.
ShapeAt(v) == [t \in Tables |-> IF Current[t] <= v THEN Current[t]
                                ELSE IF v = 1 /\ t \in Analytics THEN 1 ELSE 0]

Init ==
  /\ version \in 0..Latest
  /\ shape = ShapeAt(version)
  /\ history \in IF version = 0 THEN {FALSE} ELSE BOOLEAN
  /\ pc = [p \in Procs |-> "off"]
  /\ from = [p \in Procs |-> 0]
  /\ done = [p \in Procs |-> 0]
  /\ overlap = FALSE

Next == \E p \in Procs : \/ ReadVersion(p) \/ Run(p) \/ Fail(p) \/ Opened(p)
                         \/ Record(p) \/ Exit(p)

Spec == Init /\ [][Next]_vars

-----------------------------------------------------------------------------
\* A process that has opened the store works on the tables it expects, whatever
\* crashes and failures came before, unless two processes migrated at once.
OpenedIsCurrent ==
  ~overlap => \A p \in Procs : pc[p] = "open" => version = Latest /\ shape = Current

\* Once version 2 is reached the recorded history is never cleared again by a
\* later migration ("No existing data is dropped (unlike v2)"), even one that
\* repeats after crashes, unless two processes migrated at once.
HistoryKept == [][~overlap' /\ version >= 2 /\ history => history']_vars

\* The only store that a restart cannot open is one that has saved_queries and
\* is not marked version 3: every other half-done migration can be run again.
StuckOnlyAtV3 ==
  ~overlap /\ "busy" \notin Faults =>
    \A p \in Procs : pc[p] = "failed" => version = 2 /\ shape["saved_queries"] = 3
=============================================================================
