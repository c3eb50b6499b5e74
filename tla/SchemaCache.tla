----------------------------- MODULE SchemaCache -----------------------------
(***************************************************************************)
(* The schema cache of one saved connection: the shells open on it, the    *)
(* schema_columns rows they share in the SQLite store, and the databases   *)
(* the columns are read from.  Every statement on the store commits by     *)
(* itself, so a save is a delete followed by one insert per column, and    *)
(* other shells, failures and crashes come between any two of them.        *)
(* schema_tables is written beside schema_columns and never read: of its   *)
(* statements only the failure matters, and that is one of the failures of *)
(* the neighbouring statement on schema_columns.                           *)
(***************************************************************************)
EXTENDS FiniteSets

CONSTANTS
  Shells,      \* pgrs shell processes open on the connection's name
  Databases,   \* databases the connection may point at
  SchemasOf,   \* what the schema of each database may be: sets of columns
  NoDatabase,  \* the connection does not exist (deleted or renamed away)
  Faults       \* what may go wrong, a subset of FaultKinds

\* "write", "read": a statement on the store fails (locked, disk full);
\* "query": list_columns fails; "crash": a shell dies in mid-operation;
\* "admin": the connection is edited, deleted or added from another process;
\* "rollback": DDL is rolled back after the schema was refreshed.
FaultKinds == {"write", "read", "query", "crash", "admin", "rollback"}

Columns == UNION UNION {SchemasOf[d] : d \in Databases}

ASSUME SchemasAssumption     == SchemasOf \in [Databases -> SUBSET SUBSET Columns]
ASSUME NoDatabaseAssumption  == NoDatabase \notin Databases
ASSUME CacheFaultsAssumption == Faults \subseteq FaultKinds

VARIABLES
  target,   \* database of the connection's row, or NoDatabase
  rows,     \* its schema_columns rows
  live,     \* committed schema of each database
  pc,       \* where each shell is
  at,       \* database each shell is connected to
  job,      \* whether the shell is loading at start-up or refreshing
  draft,    \* <<schema>> changed by the shell's open transaction, or <<>>
  fetched,  \* columns list_columns returned
  todo,     \* those of them still to be inserted
  view,     \* SchemaState: the columns completion and \dt know
  \* Ghosts of the properties.
  seen,     \* schemas the server has shown the shell since its refresh began
  taint,    \* what has befallen the rows since they were last emptied
  torn      \* whether the shell's view comes from torn rows

store  == <<target, rows, taint>>
client == <<pc, at, job, fetched, todo, view, seen, torn>>
vars   == <<store, live, draft, client>>

\* "torn":  a save was cut short or mixed with another, or the connection was
\*          edited: the rows may be part of a schema, or another database's.
\* "old":   invalidate failed, or a schema fetched before a refresh began is
\*          saved between its invalidate and its read: the rows are whole but
\*          outdated for that refresh.
\* "clean": neither.

\* What the shell's own connection sees.
Visible(s) == IF draft[s] # <<>> THEN draft[s][1] ELSE live[at[s]]

Others(s) == Shells \ {s}

\* Another shell is inserting; inserting another schema; or has emptied the
\* cache for its refresh, is about to read it, and has not been shown, since the
\* refresh began, the schema that this shell would put there.
Shared(s)  == \E o \in Others(s) : pc[o] = "insert"
Mixed(s)   == \E o \in Others(s) : pc[o] = "insert" /\ fetched[o] # fetched[s]
Outdates(s) ==
  \E o \in Others(s) : pc[o] = "read" /\ job[o] = "refresh" /\ fetched[s] \notin seen[o]

-----------------------------------------------------------------------------
(* SchemaService::load                                                      *)

\* The connection is found by name and opened, then Repl::run loads the schema.
Start(s) ==
  /\ pc[s] = "off" /\ target # NoDatabase
  /\ pc' = [pc EXCEPT ![s] = "read"]
  /\ at' = [at EXCEPT ![s] = target]
  /\ UNCHANGED <<store, live, draft, job, fetched, todo, view, seen, torn>>

\* The shell has its schema, and nothing of the job is left.
Ready(s, columns, bad) ==
  /\ pc' = [pc EXCEPT ![s] = "ready"]
  /\ view' = [view EXCEPT ![s] = columns]
  /\ torn' = [torn EXCEPT ![s] = bad]
  /\ fetched' = [fetched EXCEPT ![s] = {}]
  /\ todo' = [todo EXCEPT ![s] = {}]
  /\ seen' = [seen EXCEPT ![s] = {}]

\* Faulty: an empty cache is taken for a schema.  (A "Faulty" definition is no
\* part of the model: it is the next one with a plausible bug.)
UsableAnyway(found) == TRUE

\* list_by_connection returns no rows when it fails, and when the name has no
\* connection; load then takes the schema from the server.
Usable(found) == found # {}

ReadCache(s) ==
  /\ pc[s] = "read"
  /\ \E found \in {IF target = NoDatabase THEN {} ELSE rows}
                    \union (IF "read" \in Faults THEN {{}} ELSE {}) :
       IF Usable(found)
       THEN Ready(s, found, taint = "torn" \/ Shared(s) \/ at[s] # target)
       ELSE pc' = [pc EXCEPT ![s] = "fetch"] /\ UNCHANGED <<fetched, todo, view, seen, torn>>
  /\ UNCHANGED <<store, live, draft, at, job>>

Fetch(s) ==
  /\ pc[s] = "fetch"
  /\ pc' = [pc EXCEPT ![s] = "drop"]
  /\ fetched' = [fetched EXCEPT ![s] = Visible(s)]
  /\ UNCHANGED <<store, live, draft, at, job, todo, view, seen, torn>>

\* At start-up the error ends the shell; a refresh prints it and keeps the view.
FetchFails(s) ==
  /\ "query" \in Faults /\ pc[s] = "fetch"
  /\ pc' = [pc EXCEPT ![s] = IF job[s] = "load" THEN "off" ELSE "ready"]
  /\ seen' = [seen EXCEPT ![s] = {}]
  /\ UNCHANGED <<store, live, draft, at, job, fetched, todo, view, torn>>

-----------------------------------------------------------------------------
(* SchemaCacheService::save, whose first error ends it, and invalidate.     *)
(* The shell takes the schema it fetched, whatever became of saving it.     *)

\* Faulty: the old rows stay.
DeleteNothing(old) == old
DeleteColumns(old) == {}

WriteFails == "write" \in Faults \/ target = NoDatabase

Drop(s) ==
  /\ pc[s] = "drop" /\ target # NoDatabase
  /\ rows' = DeleteColumns(rows)
  /\ taint' = IF Mixed(s) \/ at[s] # target \/ (Shared(s) /\ taint = "torn") THEN "torn"
              ELSE IF Outdates(s) THEN "old"
              ELSE IF Shared(s) THEN taint ELSE "clean"
  /\ IF fetched[s] = {}
     THEN Ready(s, {}, FALSE)
     ELSE /\ pc' = [pc EXCEPT ![s] = "insert"]
          /\ todo' = [todo EXCEPT ![s] = fetched[s]]
          /\ UNCHANGED <<fetched, view, seen, torn>>
  /\ UNCHANGED <<target, live, draft, at, job>>

DropFails(s) ==
  /\ pc[s] = "drop" /\ WriteFails
  /\ Ready(s, fetched[s], FALSE)
  /\ UNCHANGED <<store, live, draft, at, job>>

\* The tables come in no particular order, hence the columns neither.
Insert(s) ==
  /\ pc[s] = "insert" /\ target # NoDatabase
  /\ \E c \in todo[s] :
       /\ rows' = rows \union {c}
       /\ IF todo[s] = {c}
          THEN Ready(s, fetched[s], FALSE)
          ELSE /\ todo' = [todo EXCEPT ![s] = @ \ {c}]
               /\ UNCHANGED <<pc, fetched, view, seen, torn>>
  /\ UNCHANGED <<target, taint, live, draft, at, job>>

InsertFails(s) ==
  /\ pc[s] = "insert" /\ WriteFails
  /\ taint' = "torn"
  /\ Ready(s, fetched[s], FALSE)
  /\ UNCHANGED <<target, rows, live, draft, at, job>>

\* SchemaService::refresh drops the error of invalidate, then loads.
Invalidate(s) ==
  /\ pc[s] = "invalidate"
  /\ \/ /\ target # NoDatabase
        /\ rows' = DeleteColumns(rows)
        /\ taint' = IF Shared(s) THEN "torn" ELSE "clean"
     \/ /\ WriteFails
        /\ taint' = IF taint = "torn" THEN "torn" ELSE "old"
        /\ UNCHANGED rows
  /\ pc' = [pc EXCEPT ![s] = "read"]
  /\ UNCHANGED <<target, live, draft, at, job, fetched, todo, view, seen, torn>>

-----------------------------------------------------------------------------
(* What starts a refresh, and what changes the schema                       *)

ToRefresh(s) ==
  /\ pc' = [pc EXCEPT ![s] = "invalidate"]
  /\ job' = [job EXCEPT ![s] = "refresh"]

\* Every shell of the database that is refreshing may now be shown the schema.
SeenBy(d, new) ==
  [o \in Shells |-> IF at[o] = d /\ pc[o] \notin {"off", "ready"} /\ job[o] = "refresh"
                    THEN seen[o] \union {new} ELSE seen[o]]

Refresh(s) ==
  /\ pc[s] = "ready"
  /\ ToRefresh(s)
  /\ seen' = [seen EXCEPT ![s] = {Visible(s)}]
  /\ UNCHANGED <<store, live, draft, at, fetched, todo, view, torn>>

\* DDL of this shell, committed at once or left in its transaction: handle_sql
\* refreshes after it either way.  One transaction at a time holds DDL open.
Ddl(s) ==
  /\ pc[s] = "ready"
  /\ \A o \in Others(s) : draft[o] = <<>>
  /\ \E new \in SchemasOf[at[s]] \ {Visible(s)} :
       \/ /\ draft[s] = <<>>
          /\ live' = [live EXCEPT ![at[s]] = new]
          /\ seen' = [SeenBy(at[s], new) EXCEPT ![s] = {new}]
          /\ UNCHANGED draft
       \/ /\ draft' = [draft EXCEPT ![s] = <<new>>]
          /\ seen' = [seen EXCEPT ![s] = {new}]
          /\ UNCHANGED live
  /\ ToRefresh(s)
  /\ UNCHANGED <<store, at, fetched, todo, view, torn>>

\* COMMIT and ROLLBACK are not DDL: the schema is not read again.
EndDraft(s) ==
  /\ pc[s] = "ready" /\ draft[s] # <<>>
  /\ \/ /\ live' = [live EXCEPT ![at[s]] = draft[s][1]]
        /\ seen' = SeenBy(at[s], draft[s][1])
     \/ "rollback" \in Faults /\ UNCHANGED <<live, seen>>
  /\ draft' = [draft EXCEPT ![s] = <<>>]
  /\ UNCHANGED <<store, pc, at, job, fetched, todo, view, torn>>

\* Quitting from the prompt, or a crash anywhere: an open transaction is lost.
Exit(s) ==
  /\ pc[s] = "ready" \/ ("crash" \in Faults /\ pc[s] # "off")
  /\ taint' = IF pc[s] = "insert" THEN "torn" ELSE taint
  /\ pc' = [pc EXCEPT ![s] = "off"]
  /\ job' = [job EXCEPT ![s] = "load"]
  /\ draft' = [draft EXCEPT ![s] = <<>>]
  /\ fetched' = [fetched EXCEPT ![s] = {}]
  /\ todo' = [todo EXCEPT ![s] = {}]
  /\ view' = [view EXCEPT ![s] = {}]
  /\ seen' = [seen EXCEPT ![s] = {}]
  /\ torn' = [torn EXCEPT ![s] = FALSE]
  /\ UNCHANGED <<target, rows, live, at>>

-----------------------------------------------------------------------------
(* pgrs edit, delete and add in another process.  Only a delete empties the *)
(* cache (ON DELETE CASCADE); a rename is a delete that keeps the rows for   *)
(* another name.                                                            *)

Edit ==
  /\ "admin" \in Faults /\ target # NoDatabase
  /\ target' \in Databases \ {target}
  /\ taint' = "torn"
  /\ UNCHANGED <<rows, live, draft, client>>

Delete ==
  /\ "admin" \in Faults /\ target # NoDatabase
  /\ target' = NoDatabase
  /\ rows' = {}
  /\ taint' = "clean"
  /\ UNCHANGED <<live, draft, client>>

Add ==
  /\ "admin" \in Faults /\ target = NoDatabase
  /\ target' \in Databases
  /\ taint' = IF \E s \in Shells : pc[s] = "insert" THEN "torn" ELSE "clean"
  /\ UNCHANGED <<rows, live, draft, client>>

-----------------------------------------------------------------------------
Init ==
  /\ target \in Databases /\ rows = {} /\ taint = "clean"
  /\ live \in {f \in [Databases -> SUBSET Columns] : \A d \in Databases : f[d] \in SchemasOf[d]}
  /\ draft = [s \in Shells |-> <<>>]
  /\ pc = [s \in Shells |-> "off"]
  /\ at = [s \in Shells |-> target]
  /\ job = [s \in Shells |-> "load"]
  /\ fetched = [s \in Shells |-> {}]
  /\ todo = [s \in Shells |-> {}]
  /\ view = [s \in Shells |-> {}]
  /\ seen = [s \in Shells |-> {}]
  /\ torn = [s \in Shells |-> FALSE]

Step(s) ==
  \/ Start(s) \/ ReadCache(s) \/ Fetch(s) \/ FetchFails(s)
  \/ Drop(s) \/ DropFails(s) \/ Insert(s) \/ InsertFails(s) \/ Invalidate(s)
  \/ Refresh(s) \/ Ddl(s) \/ EndDraft(s) \/ Exit(s)

Next == (\E s \in Shells : Step(s)) \/ Edit \/ Delete \/ Add

Spec == Init /\ [][Next]_vars

-----------------------------------------------------------------------------
\* When no shell is saving, the cache holds nothing or one whole schema of the
\* connection's database: overlapping saves of the same schema settle on it,
\* however they interleave.  Not so once a save was cut short, different saves
\* overlapped, or the connection was edited.
SettledCacheIsWhole ==
  taint # "torn" /\ (\A s \in Shells : pc[s] # "insert")
    => rows = {} \/ (target # NoDatabase /\ rows \in SchemasOf[target])

\* What completion works with is a whole schema of the shell's own database,
\* whichever shell had put it in the cache.
ViewIsWhole ==
  \A s \in Shells : pc[s] = "ready" /\ ~torn[s] => view[s] \in SchemasOf[at[s]]

\* A refresh comes to its end when the shell takes a schema, out of the cache
\* or from the server.  A query that fails (from "fetch") ends none: its error is
\* printed and the view stays.
Reloads(s) == job[s] = "refresh" /\ pc[s] \in {"read", "drop", "insert"} /\ pc'[s] = "ready"

\* \refresh and the refresh after DDL end with a schema the server has shown
\* since they began, also when another shell has filled the cache in between:
\* they never leave the view, or make it, an older one.  Named exceptions, all of
\* what a refresh reads from the cache: its invalidate failed; a schema fetched
\* before it began, or part of one, was saved after it; the connection was edited.
RefreshIsFresh ==
  [][\A s \in Shells :
       Reloads(s) /\ (pc[s] = "read" => taint = "clean" /\ ~Shared(s))
         => view'[s] \in seen[s]]_vars
=============================================================================
