# pgrs: a TLA+ verification project

pgrs is a PostgreSQL client: a command line that keeps named connections in a
SQLite file, and an interactive shell (`pgrs shell <name>`) with a transaction-aware
prompt, a guard that refuses bare DML, a schema cache for completion, query history,
access statistics and saved queries. This directory holds TLA+ models of it, the TLC
runs that check them and TLAPS proofs of the theorems that hold for every instance.
All source paths below are relative to `src/`; `C/` is `modules/core/src/` and `L/`
is `modules/cli/src/`.

## 1. Inventory

| Component | State | Operations | Talks to |
|---|---|---|---|
| Transaction tracker (`C/query/transaction.rs`, `classify.rs`) | `TxState` behind `Arc<Mutex>`, shared by loop and prompt | `tx_effect`, `next_tx_state`, `is_dml`, `is_ddl`, `dml_requires_tx` | REPL loop |
| REPL session (`L/repl/`) | tracker, in-memory schema, flags, one database connection | typed SQL, `\begin` ..., `\run`, `\edit`, `\explain`, `\export`, `\d`, `\l`, `\refresh`, quit and Ctrl-C/D | PostgreSQL over one connection; schema service; analytics |
| PostgreSQL adapter (`C/adapters/driven/postgres_db.rs`, `postgres_catalog.rs`) | the client in a `RefCell` | `execute` (simple query, then a PREPARE probe), `list_columns`, `describe_table`, `explain` | server |
| Schema service and cache (`C/services/schema*`) | `SchemaState`; `schema_tables` and `schema_columns` rows shared by all shells of a connection | `load`, `refresh`, `save`, `invalidate` | SQLite, server |
| Connections (`C/services/connection`, `L/cli/connection_handler.rs`) | `connections` rows | add, list, find, edit, rename, delete | SQLite |
| Analytics, history, saved queries (`C/services/{analytics,query_history,table_access,column_access,saved_query}`) | their rows, by connection id | `record_query`, history, frequencies, `\save`, `\unsave`, `\run` | SQLite |
| Store and migrations (`C/adapters/driven/sqlite/`) | the file, `user_version`; a mutex per process | `open`, `migrate`, one statement per call | other pgrs processes on the file |
| SQL input (`L/repl/sql_utils.rs`, `args.rs`, `ui.rs`) | the buffer of the line editor, or of the one that `\edit` opens (reedline both) | Enter, validation, `is_complete_statement`, `ReplCommand::parse`, `tokenize_args` and the argument parsers | REPL loop |
| Tables and columns of a query (`C/query/alias.rs`) | none | `build_alias_map`, `extract_referenced_tables`, `extract_column_refs` | schema, analytics, completion |
| Completion (`C/services/query/`, `L/repl/completer.rs`, the key bindings of `ui.rs`) | frequencies at the last rebuild; the line, the cursor, the menu | candidates, join context, ranking; ghost text, Tab, choosing from the menu | schema, analytics |
| Line history (`L/repl/mod.rs`, `ui.rs`, reedline's `FileBackedHistory`) | the editor's entries; a file per connection, shared by its shells | rebuild, quit | other shells |
| Output (`L/repl/executor.rs`, `pager.rs`, `explain.rs`, `describe.rs`, `csv.rs`) | the toggles `\x`, `\timing`, `\pager`; the exported file | lay out a result, a plan, a description; page; `\export` | `$PAGER`, the file system |
| Catalog queries (`C/adapters/driven/postgres_catalog.rs`) | none | `describe_table`, `list_databases`, `explain` | server |
| Command line (`L/cli/args.rs`, `connection_handler.rs`, `L/app.rs`) | none | options, ports, TLS modes, connection URLs | connections; PostgreSQL or psql |
| Highlighting, help texts, API facades, composition root | none | pure conversions and wiring | - |

How the parts interact. The shell is one thread: every submission is a blocking call
through the adapter, and the tracker is advanced from what came back. What makes it
hard is that the truth about the transaction is on the server, reached by more than one
path (statements, probe, schema refresh, backslash commands), and only one of the
paths reports to the tracker. The SQLite file is shared by any number of processes. No
service opens a SQLite transaction: each statement commits by itself, so operations of several
statements (a migration, a cache save, `record_query`, an edit) interleave with those of other
processes and can be cut short by an error or a crash.

What makes each part correct:

- tracker and session: an Idle prompt never hides an open block; a failed block is shown;
  nothing becomes durable without a COMMIT the user typed at a prompt that said so; an
  accepted COMMIT keeps everything; every submission returns to a prompt;
- schema cache: what a shell works with is one whole schema of its own database; a
  refresh ends with a schema the server has shown since it began;
- migrations: an opened store has the tables the code expects; history survives
  everything after version 2; a half-done migration can be repeated;
- connections and what hangs off them: commands touch the connection they looked up;
  rows never dangle; a query, its accesses and a saved text stay with the connection
  the user had open;
- input: Enter submits exactly complete statements, and only those reach the server as SQL;
- tables and columns of a query: those it reads by the scoping rules of SQL are counted;
- completion: what is offered does not depend on the order of a hash map, belongs to the
  tables in scope, and neither Tab nor a choice takes away what was typed;
- histories: a line typed in a shell that quits is kept; `\save` takes the text that was listed;
- output: nothing is lost between the shell, the pipe and the pager, and the prompt comes
  back; a description is of the table named; an exported file is the whole result;
- command line: what is stored is what was asked for, and the server is reached as stored.

The hazards, each at its line with the properties that cover it, are listed in
`PROJECT.json`.

## 2. Modules

| Module | Models | Configurations |
|---|---|---|
| `TxTracker` | statement kinds, classification, the tracker's transition function, the DML guard (no state) | used by `TxSession` |
| `TxSession` | the REPL loop with the tracker, the adapter's probe, and the server session | `TxSession.cfg` by `MCTxSession`; `TxSession_refused_commit.cfg` by `MCTxDrift` |
| `TxPromise` | what tracker and session promise together, as an abstract specification | refined in `TxSession.cfg` |
| `TxSession_proofs` | theorems about `TxSession`; that it implements `TxPromise` | - |
| `SchemaCache_proofs`, `Migrations_proofs`, `Store_proofs`, `History_proofs`, `Cli_proofs`, `Output_proofs`, `SqlInput_proofs` | theorems about the module each is named after; `SqlInput_proofs` also about `QueryRefs`, `Output_proofs` also about `Completion` | - |
| `SchemaCache` | several shells on one connection's cache, the databases behind it, edits from outside | `SchemaCache.cfg` by `MCSchemaCache` |
| `Migrations` | processes that open stores of any age | `Migrations.cfg` by `MCMigrations` |
| `Store` | connections, history, accesses, saved queries; a shell and commands in processes of their own | `Store.cfg` by `MCStore` |
| `SqlInput` | the line editor, the validator, the statement scanner, the command and argument parsers | `SqlInput.cfg` by `MCSqlInput` |
| `QueryRefs` | alias, table and column extraction over syntax trees, and the scoping rules it is compared with | `QueryRefs.cfg` by `MCQueryRefs` |
| `Completion` | candidates, ranking, ghost text and menu while a line is edited | `Completion.cfg` by `MCCompletion` |
| `Catalog` | the statements behind `\d`, and the parts of a plan that `\explain` keeps (no state) | used by `Output` |
| `Output` | layout of results, plans and descriptions; the pager; the file of `\export` | `Output.cfg` by `MCOutput` |
| `Cli` | the commands with all that they read from the command line, and the sessions they open | `Cli.cfg` by `MCCli` |
| `History` | the line histories and their file, `\history`, `\save`, `\run`, the frequencies an editor is told | `History.cfg`, `History_recall.cfg` by `MCHistory` |

A definition whose comment starts with "Faulty" is not part of a model and nothing uses
it: it is the definition that follows it with a plausible bug (a dropped guard, a missing
reset, statements in the wrong order). `PROJECT.json` pairs each with a
property that notices when it takes the other's place, so that no property holds
vacuously. Variables under "ghost" record what the program does not, for properties only.

### TxSession

A text is the sequence of the kinds of its statements and a flag for whether sqlparser
reads it. `RunStatement`, `Explain`, `ExplainAnalyze`, `Catalog` and `Export` are the
handlers up to their call of the server. The server half (`Exec`, `Fail`, `Settle`, ...) is
external: PostgreSQL's rules for blocks, implicit blocks of a simple query, savepoints
and AND CHAIN, as far as the code relies on them. `Probe` is the `client.prepare` at the
end of `PostgresDb::execute`. `RefreshAfterDdl`, `Advance` and `Ignore` are the handlers
after the reply, `Quit`, `ConfirmQuit`, `CancelQuit`, `ReadError` the ways out. The ghost
`hit` remembers since the last Idle which fault the tracker cannot know of has happened:
a refused COMMIT, a failed call of a backslash command or refresh, a failed probe. The
properties name these exceptions instead of leaving the fault out of the model.

`TxPromise` is the abstract specification: rows are written while a transaction is open and
become durable all at once, or are undone, and when none is open none is pending.
`KeepsPromise` is the refinement: `open` is that the prompt does not say Idle, `pending` the
rows that the server could still undo (`work`), `durable` the others. The server's blocks,
savepoints, probes and phases are stutters or undo rows. Rows in an implicit block can exist
under ReadableInput only after a refused COMMIT, where the prompt says Failed: for the
promise that is a commit in an open transaction, and `WritesOnlyInBlock`, which knows of
blocks, names it as the exception.

Everything but typing is one action of the thread or of the server, so `FairSpec` asks
weak fairness of `Progress` (the union of those steps) only: a blocking call
returns with an answer or an error because the server answers or the connection
breaks; a user is never obliged to type, quit or answer a question.

### SchemaCache

`Start`, `ReadCache`, `Fetch`, `Drop`, `Insert` are `load` and `save`, one statement of
SQLite or one server query per action; `Invalidate` begins a refresh; `Ddl` is a statement
that `handle_sql` refreshes after; `EndDraft` ends a transaction that held DDL. `Edit`,
`Delete`, `Add` come from other processes. A failing statement, a failing query and a crash
are actions switched by the constant `Faults`. The ghost `taint` says what
has befallen the rows since they were last emptied ("torn": a save cut short, two
different ones mixed, another database; "old": whole, but invalidate failed or a schema
fetched before a refresh was saved after it), `torn` whether a shell's view came from torn
rows, `seen` the schemas a refresh may end with. `RefreshIsFresh` asks every refresh that
comes to its end, whether it changes the view or not, for a schema of `seen`; what is saved
by another shell in between is accepted when it is as new. What the code cannot give (a
cache that invalidate did not empty, that an older save or part of one has filled again, or whose
connection was edited) is its exception, named beside it: there the code ends a refresh with the old
schema and reports success, against the comment that the reload corrects a stale
cache (`C/services/schema/service.rs:61-62`).

### Migrations

`Script(v)` is the list of SQL statements `migrate` runs for the version it read. A
process runs them one by one, may fail or die at each, and starts over; `CREATE TABLE` fails
on an existing table and `CREATE INDEX` on a table of another version.

### Store

Rows refer to connections by id, processes by name. A command looks a connection up
by what was typed, as a name or an id (`LookUp`), then acts on the name it found; a shell
resolves the name again for every row it writes. `target`, `borne` and `recorded` are ghosts.
The id lookup and the insert that follows it are one step: a delete in between makes the
insert fail on its foreign key, as a failed statement does, and a rename in between
has the effect of one right after. `find_connection` takes the first match in the order of
the names, so a connection named `2` hides the one with the id 2; `TouchesWhatItFound`
accepts either.

### SqlInput

The buffer is a sequence of `Symbols`: each character that the scanner or a parser tells apart
is one, and so are a run of letters, a run of digits, a newline and each command word. `Press`
and `Continue` are keys of the line editor, `Submit` is Enter on a line the validator
takes, `SubmitEdited` and `Interrupt` end `\edit`. `IsCompleteStatement` is the scanner of `sql_utils.rs`: `ScanTop` and
`ScanInside` are one turn of its loop outside and inside of a string, comment or dollar
quote; `Parse` and what it uses follow `ReplCommand::parse` and the argument parsers. The reference
they are compared with (`Terminated`, by `LexemeEnd`) is PostgreSQL's lexemes. Two
texts are read otherwise by the code and by PostgreSQL and are named exceptions:
a comment within a comment (`Nested`) and a dollar quote that begins inside a word
(`Midword`). `E'...'` strings, whose backslashes the scanner does not know, are not
among the symbols. The path of `\export` may be a lone quote, on which the slice of
`csv.rs:42` panics: the model goes to the mode "dead".

### QueryRefs

A text is a sequence of statements, a query a tree of selects, parentheses, set operations,
subqueries in FROM and CTEs, as far as `alias.rs` looks into the tree. `AliasesOf`,
`TablesOf` and `FirstSelect` are its walks, `ResolveToken` and `ExpandWildcard` the attribution.
They are recursive functions over `QueryTrees`, a set of queries with all that are inside of
them; `Depth` says that trees are finite. `Scope`, `OutputOf` and `Reads` are the reference: what
each factor of FROM shows, under which names, and which column of which table stands behind it.
`record_query` is called after a text has run, so `RecordQuery` has the guard that the server has
taken the text (`Taken`, `Clear`).
An expression is the set of the ways from its root to the columns in it: `under` has the forms on
the way, and `Walked` those that `collect_expr_columns` goes on into. Under any other form
(`Exotic`: ILIKE, CASE, IS TRUE, ANY, AT TIME ZONE, FILTER ...) a column is not counted: `PlainIsExact` and
`QualifiedIsCounted` name them as the exception that the comment of the walk accepts
(`alias.rs:215-216`). What the code does not look at otherwise (GROUP BY, ORDER BY, HAVING, USING,
subqueries within expressions, set operations, parenthesised joins) is not counted
(`363`); no property asks for it.

### Completion

A line is a sequence of characters in which a keyword is one. `Clauses`, `ClauseParses` and
`Parses` stand for sqlparser, for texts of the form in the module's header; `BuildAliasMap`,
`JoinContext` and `CandidatesForTrigger` are the code's. The alias map is a HashMap: `order` is
the order in which it is walked, any in every call. `Type`, `AcceptHint`, `OpenMenu`, `Choose`
and `Dismiss` are the keys; Tab is `AcceptHint` where the ghost text can be taken, else `OpenMenu`.
The menu's own conduct (a lone suggestion is taken, and so is what all begin with) is reedline's.
The frequencies are constants, since they change only with the editor (`History`).

### Catalog and Output

`DescribeTable` puts together what up to six statements return, any of which may fail:
some look the name up by `::regclass` (`Regclass`), the others compare texts (`Named`), which
is where they part. `Reply`, `Explain`, `Describe` and `Export` begin a command; `FormatResult`,
`RenderPlan`, `PrintDescription` and `CsvLines` lay the answer out, with the widths of wide
characters and the bytes of accented ones where the code mixes the two. `Emit`, `Feed`, `Close`,
`Wait` and `WriteDirect` are `pager::emit`; the pager reads, ends or fails on its own, and the
pipe between them holds `PipeSize` lines. `CreateFile` and `WriteFile` are `\export`, and
`OthersFile` what others do at its path. `Interrupt` is Ctrl-C, which kills the shell.

`Spec` asks weak fairness of `Shell`, the steps of the one thread, and of `PagerEnds`: the
user sooner or later leaves the pager. Nothing is asked of `PagerRead`. `PromptReturns` fails
without the second, because `wait()` has no time limit.

### Cli

A command line is a sequence of words, options and switches, read as `args.rs` does (the
first of equal options counts). `Add`, `Edit`, `Rename`, `Delete`, `Connect` and `Open` (`shell` and
`test`) are whole commands; interleavings with other processes are in `Store`.
`ParseConnectionUrl` is compared with the URLs that may be written for given parts (`UrlsFor`),
every way of escaping included. A TLS mode is one value in the program and another as a text:
`ParseTlsMode` reads it from the command line, `Display` writes it to the row, `TlsFromStr` reads it
back, at every edit too. `asked` is a ghost, the text that the user last gave; `reached` is the
last session opened: what was asked for, the kind of server, and what the connector and the
library's default ("prefer") make of it. `ChangesAsTold` says which connection is meant (`OneOf`)
and what becomes of each option, of every command line that could have taken the step.

### History

`Entered`, `Flushed` and `Build` are reedline's `FileBackedHistory` as `build_reedline` uses it:
an editor reads the file when it is built and writes its own lines behind what is there
when it is dropped. In `Rebuild` the new one is built before the old one is dropped, as in the code's
assignment. A statement is recorded row by row. `Execute` is the call of the server and the history
row, whose failure ends the recording; it leaves in `todo` the rows of the references. `RecordAccess`
writes one of them, the tables first, or fails to and goes on with the next, and `Refreshed` is the end:
after DDL, or `\refresh`, the schema is fetched and the editor rebuilt, or the refresh fails. The
shell reads no line before all that is done, while others go on in between, and it may be killed anywhere.
What is left out: `freq_for_schema` and the reading of the file are one step of the new editor (`Build`), their reads
succeed, and the schema has all the tables that are counted. A row fails for any reason, which stands for the
connection being removed or renamed under the shell too (`Store` has those).
`Recent` is the query of `\history`, by a time in whole seconds, those of one second
in any order. `left`, `typed`, `ran` and `lost` are ghosts: `lost` has the references of which a row was
never written, for its failure or a kill.

## 3. Runs

| Run | Question | Result |
|---|---|---|
| `TxSession` | do prompt and server agree, what becomes durable, and is the promise kept, on the input the tracker is made for? | holds, with the faults named |
| `TxSession_refused_commit` | does the server reject DML at a Failed prompt? | no: after a refused COMMIT it runs and commits at once |
| `SchemaCache` | does every shell work with a whole schema, and a refresh end with a fresh one? | holds, with the events named |
| `Migrations` | is what opens current, is history kept, where can it get stuck? | holds unless two processes migrate at once; stuck only in version 3 |
| `Store` | are rows attributed and commands applied to the right connection under races? | holds up to connections that have borne the same name |
| `SqlInput` | does Enter submit exactly the complete statements, and do arguments arrive as typed? | holds, with two exceptions named |
| `QueryRefs` | are the columns counted those the query reads? | holds for tables, but for columns under skipped forms of expressions; up to borrowed names elsewhere |
| `Completion` | is the menu stable, in scope, and without loss of what was typed? | holds where each table stands by itself and aliases are no other table's name; stable but for an ON without a JOIN |
| `Output` | is all shown or written, of the right table, and does the prompt come back? | holds up to what is in the pipe when the pager fails |
| `Cli` | is what is added by a URL and options what was asked for, is it the connection that was typed that changes, and as told, and does the TLS mode asked for reach the session? | holds, with the order of the names as the rule, and sessions on servers that have TLS |
| `History` | do lines reach the file, does `\history` list the latest, does `\save` take what was listed, does a new editor rank tables and column names by the uses recorded, whatever rows fail? | holds; the ranks less the rows lost or still to be written |
| `History_recall` | can a line still be recalled after the editor is rebuilt? | no: the new editor reads the file before the old one writes |

The two runs that show a disagreement between the code and what its comments and documents say
are the "findings" of `PROJECT.json`. Section 7 lists others, met while modelling.

Bounds and why they are enough:

- `TxSession`: two rows tell "all pending rows" from "some", and let a savepoint
  separate them; two savepoints at a time let one be released or rolled back to over another;
  the texts are every kind alone, two that sqlparser refuses, and pairs for the
  implicit block and the probe. `MCTxSession` asserts `ReadableInput`, the theorems' hypothesis, of
  this instance. The theorems remove the bounds.
- `SchemaCache`: two shells (a save is disturbed by one other), two databases, schemas of
  two columns none of which is a part of another, so that a cut save shows, and a database without tables.
- `Migrations`: two processes; stores of version 0 to 3; no bound on restarts.
- `Store`: one shell and two commands, two names (one reads as an id), two connections ever,
  one query with one table. A third connection adds no kind of confusion: every
  property relates two. Deadlock is not checked, because the bound `MaxConns` stops additions.
- `SqlInput`: which keys are tried after a buffer, and up to which length, depends on how the
  buffer begins (`MCKeys`): eight symbols inside of dollar quotes and comments, enough for one
  with a tag or a nested one, and something after it; nine for the arguments of `\save`,
  two tokens with quotes. Deeper texts repeat the same jumps.
- `QueryRefs`: two tables with one column in common (so that a bare name can be ambiguous),
  aliases that are names of tables, up to three factors, one level of subqueries, one CTE, two
  statements; one star and one column token per select, since the code treats each by itself; every form of
  expression alone and inside of an argument, and the common ones inside of CASE, beside a plain column.
- `Completion`: two tables that share a column, with and without aliases, in lines that have
  every part or none, the cursor anywhere in them, one character typed; `MaxCompletions` 3,
  so that the menu is cut. Every candidate list is of at most two tables, and ranking
  compares two candidates at a time. One line has three tables in a list and an ON without a
  JOIN, where the order of the alias map shows (`Unordered`).
- `Output`: a terminal of three rows and six columns, cells of five characters, a pipe of two
  lines: texts that fit, page, or exceed the pipe. Values of up to three characters, plain, wide
  and `t`, and longer ones that are cut. Five relations: a name in two schemas, one outside the
  search path, one without columns.
- `Cli`: two connections ever, which are what a lookup can confuse, one of them with a number for its name;
  three URLs with each of their escapings; up to two more options, equal, blank or out of range; every option
  of `edit` by itself, and TLS modes given once, twice, not at all and one there is not
  (`Lines`). All that is added is compared with what was asked for, but the run goes on from it
  only while the connections differ from plain ones in one thing, or one of them in that and its TLS
  mode, and changes nothing more once a session has been opened (`Narrow`): a command
  treats each option by itself. Deadlock is not checked, because `MaxConns` stops additions.
- `History`: two shells, two connections with one file, a file of two lines, three lines
  typed, `Limit` 1 with two queries, two seconds. The properties relate two lines, two queries or two
  shells; the file can overflow. The statements have a table each, with a column of the same name, and one
  table is ranked; both shells record, or one twice, or one opens and rebuilds while the other records. Rows are
  lost only where no time passes and nothing is listed or saved, and a third line is typed only where,
  moreover, nothing has been recorded (`Narrow`): ranks do not depend on times, nor the file on
  what is recorded. A table with more columns than are ranked is not reached; the theorem has it. The
  shells are symmetric. Deadlock is not checked: `MaxLines` ends the typing.

## 4. Proofs

The theorems hold for every value of the constants that satisfies the assumptions of the module:
any number of shells, processes, connections, rows, texts and faults, and histories, pipes and
URLs of any size. Each `*_proofs` module has an inductive invariant `IInv`, three facts
(`Init => IInv`, `IInv /\ [Next]_vars => IInv'`, `IInv` implies the property) and, for an action
property, the step from `IInv`. TLC has checked each `IInv` on small instances of the module.

| Module | Theorems (the property of the run they state) |
|---|---|
| `TxSession_proofs` | `TypeCorrect`, `IdleIsSafe`, `FailedIsSafe`, `FailureIsShown`, `NoBareWrites`, `CommitIsKept`; `PromiseIsKept` (`KeepsPromise`, the refinement of `TxPromise`); and `CommitsAreAskedFor`, `QuitIsSafe` |
| `SchemaCache_proofs` | `SettledCache` (`SettledCacheIsWhole`), `WholeView` (`ViewIsWhole`), `FreshRefresh` (`RefreshIsFresh`) |
| `Migrations_proofs` | `OpenIsCurrent` (`OpenedIsCurrent`), `OnlyV3Sticks` (`StuckOnlyAtV3`), `HistoryIsKept` (`HistoryKept`) |
| `Store_proofs` | `AccessesMatch` (`AccessMatchesQuery`), `SavedQueriesWereRun` (`SavedWasRun`), `TouchesFound` (`TouchesWhatItFound`), `EditsKeep` (`EditKeepsRest`) |
| `History_proofs` | `NoLineIsLost` (`LinesReachTheFile`), `SavesTheListed` (`SavesWhatWasListed`), `ListingIsTheLatest` (`ListsTheLatest`), `RanksAreCounts` (`RanksByUse`) |
| `Cli_proofs` | `Reached` (`ReachedAsAsked`), `ChangedAsTold` (`ChangesAsTold`), `AddedAsWritten` (`AddedAsAsked`) |
| `Output_proofs` | `LossIsBounded` (`LostOnlyInPipe`), `DescriptionHolds` (`DescriptionIsTrue`), `ExportIsComplete` (the file has every line), `ExportReadsBack` (`ExportIsWhole`), `ExpandedHolds` (`ExpandedIsWhole`); of `Completion`, `ChoiceKeeps` (`ChoiceKeepsTyped`), `MenuIsStable` (`StableAndDistinct`), `ScopeExact` (`ScopeIsExact`) |
| `SqlInput_proofs` | `EnterGetsThrough` (`NeverTrapped`), `CompleteWhenTerminated` (`CompleteIsTerminated`), `WholeStatementsRun` (`OnlyWholeStatementsRun`), `QuotedArguments` (`QuotedArgumentSurvives`); of `QueryRefs`, `PlainExact` (`PlainIsExact`), `QualifiedCounts` (`QualifiedIsCounted`) |

### The session

`TypeCorrect` has no hypothesis; the others hold under `ReadableInput` (a text that controls the
transaction is one statement sqlparser reads, without AND CHAIN; any other text that changes
rows starts with DML that it reads; `\explain` has one statement; `\export` no transaction
control). It is not a convenience: each of its parts is a hazard when dropped. After
`COMMIT AND CHAIN`, for one, `tx_effect` (`transaction.rs:28`) says Commit, the prompt says Idle
over the block that the server has opened at once, and `\q` leaves it without a question.

The properties are not inductive: between two prompts tracker and server disagree by design.
`IInv` says how they relate in each phase: at the prompt (`Agrees`), while a text runs (what the
tracker will make of the statements already completed), and after the reply, with what `ok`
says; and that rows written outside a block exist only in an implicit block of a running text.
`RefusalForgotten` strengthens it for the exceptions: a refused COMMIT is remembered in `hit`
while the states disagree because of it.

`PromiseIsKept`: initial states map to initial states, and each step to `Begin`, `Write`,
`Commit`, `Undo`, `Close` or a stutter. It needs `IInv` (rows come in only where the prompt says a
transaction is open) and `Chain`: the rows at each savepoint are among the pending ones, the
older among the younger, so that a ROLLBACK TO only takes rows away.

### The schema cache

`SettledCacheIsWhole` speaks of moments when nobody saves, so `IInv` says what holds during
overlapping saves (`SavesAgree`): while the rows are not torn, all saves in flight are of one
schema, the rows are part of it, and if something is missing some shell, the one that emptied
the rows last for one, has yet to insert all of it. When no save is left, nothing is missing. `RefreshSeen`
adds that what a refreshing shell sees or has fetched is among what it was shown, and so is,
as long as the cache it emptied is clean, what others are saving there and what they leave.

### Migrations

The scripts of the source are proved to be parts of one plan of 27 statements
(`ScriptIsPlan`): a process that read version `v` and has run `k` statements is at the place
`StartOf(v) + k`. `Could(i, t)` says which versions a table may be of at place `i`, the last of
the migrations before having stopped anywhere in the same version; `TableMoves` that each statement takes those of one
place to those of the next, and `StoreRestarts` that a crash goes back to the start of the version. `Alone`
says that, without overlap, the store is where each process thinks it is.

### The store

What a step writes was looked up in an earlier one, under a name, while other processes may
have renamed, deleted and added. `NamesBorne` keeps what is stable: the row that a process
has looked up has borne the name that it keeps. `RecordsOwn` and `SavesOwn` carry that to the
history row a shell records accesses for and to the text it is about to save, `HistoryRun` from
there to what was run.

### The line history

`LinesReachTheFile` needs that nothing is trimmed while all lines typed fit. The file and the
editors hold the lines between them, and each entry keeps a place of its own (`Slots`):
typing takes one place more, writing moves places from the editor to the file, and `Counted`
says that there are never more places taken than lines typed. So a file with the lines to be
appended has no more entries than its capacity, and none is dropped. `DiskHolds` says that
what an editor takes to be on the disk is there. `RanAgrees` and `ListedTrue` relate the table to
what was run and to what the shells have listed.

`UsesCounted` does the same for the access counts: the rows of a reference and the shells that have
one still to write (`Writers`) are together as many as the recordings that referred to it
(`Recordings`, pairs of a statement and a number up to how often it ran), or fewer once one was
`lost`. Every step begins a recording, writes or loses one row, drops what is left, or changes
none of it (`OweCases`). The property adds
numbers up with a fold, the invariant counts pairs; `SumCounts` says that the two agree, by induction
over the parts of a finite set (`ByPicking`, first-order). It needs that there are finitely many
statements, each with finitely many references. `RanksAreCounts` follows since the ranked tables are those
with most rows (`TopRanks`); for the columns it needs also that the rank of a name is the most that
a column of that name has among those known of each table (`MergedMax`).

### The command line

`UrlRead` is a statement about `parse_url` alone: every way of writing a connection as a URL,
whichever characters of its parts are escaped, is read back as that connection, for parts of any
length over any alphabet. The parser splits at the first or the last of a character, so the
proof is about places: `MinIsLeast` (the least place exists, by well-foundedness of the naturals),
`FoundFirst` and `FoundLast` (where two texts were joined by a character that one of them has
not, they are split there), and one lemma for each of host, port, brackets and options. `NamesDiffer` is the invariant of the
rows: two connections never have one name, so the name that a user types is that of one.
For `Reached` the invariant says that the text in a row is the one that was asked for (in
`TypeOK`): a mode is written as the text it was read from and read back from it (`TlsRoundTrip`,
`AskedIsStored`). For `ChangedAsTold` every option of an edit is its first value or not given
(`FirstText`), whether it is a text, a number, a mode or empty (`EditTells`).
`ArgsAssumption` and `PartsAssumption` say what a shell hands to a program and how the parts of a
connection are written before they are escaped.

### Output

`PipeOK` bounds the pipe between what was sent and what was read and ties the phases to the
pager, `Emitted` says that what counts as emitted went to the terminal or through the pipe,
`Described` where a description comes from, `Replied` that what is laid out is one of the server's
results, and `Exported` that the file of an export is the lines
of its result up to some number. `DescriptionOf` follows the six statements behind `\d` for a
name that one relation has.

`ExportReadsBack` goes on from `ExportIsComplete`, where the file has every line of its result. What
is written is put together from parts, of a value, of a line and of the file, and the parts stand
in it one behind the other (`FlattenIs`, `Places`). The reader is a recursive function from places
to what has been read there (`ReaderRuns`), and reads each part as what it is of: a value with no
special sign as it is (`PlainCell`), one in quotes without them and with each of its own quotes
once (`QuotedCell`), a line as its cells (`RecordIsRead`), the file as its records
(`LinesAreRead`). A record without cells is the exception that the property names: its line is
empty, as is that of a record with one empty cell.

`ExpandedHolds` is about the layout of one field. `FoldedIs` says that folding in a character adds it
to the text that the segments make together, whether it begins a segment or not, so that what
`wrap_value` cuts is the whole value (`WrapIs`), wherever the widths have it cut. Each line of the field begins
with as many characters (`BeginningIs`): a name is padded by its characters to a width counted
in bytes, which are at least as many (`ByteLenIs`, `LabelIs`). So what stands behind is the value,
but for a segment that is the boolean `t` or `f` to `format_expanded` (`FieldIsWhole`).

### The SQL input

The invariant is only that the buffer is a text (`IsText`); what is proved is about the functions
that read it. The scan of `is_complete_statement` is a recursive function from positions to what
is known there (`Scan`), and the proofs go from one position to the next (`FromTo`, first-order).

- `EnterGetsThrough`: the scan of a text and that of the same text with something behind it agree
  up to the place where something was opened (`InsideAlike`). So a text with the closer of
  what is open, or with none, and a semicolon is complete (`Completed`).
- `CompleteWhenTerminated`: the scan goes by characters, the reference by lexemes. `LexemeStep`
  says of each kind of lexeme that the scan, outside of anything at its start, is so again at
  its end, and what it has remembered; `ToldStep` and the induction from the end of the text backwards,
  that what both tell of the rest of the text agrees. `Nested` and `Midword` are where a step fails.
- `WholeStatementsRun`: the loop parses the trimmed text, the validator has scanned the whole one.
  `StepTrimmed` says that the scan of the one is that of the other, shifted, and `OverBlanks` that
  blanks change nothing.
- `QuotedArguments`: `tokenize_args` is such a run as well. Within quotes it adds every sign to the
  argument (`QuotedRun`), without it does so up to a blank (`PlainRun`); so a line of a quoted
  name, or of one and an id, has these arguments (`OneArgument`, `TwoArguments`), and the path that
  `\export` cuts out of its line is the one between the quotes (`ExportPath`). The property speaks of lines
  submitted at the prompt: a text from `\edit` is not parsed as a command.

### The tables and columns of a query

The invariant says that what is recorded belongs to the text, which the server has taken
(`Recorded`); the rest is about the walks of `alias.rs`, for queries of any depth.
`QueryAssumption` says what trees sqlparser makes: what is inside of a query is less deep than it.

- A recursive function over trees is what its definition says because there is one right down to
  each depth, and any two of them agree there (`WalkExists`, `InnerFirst`, first-order: no
  induction theorem of the library can be used). So `AliasesOf` and `TablesOf` are what each
  query adds to those inside of it (`AliasesAre`, `TablesAre`).
- What stands in a flattened sequence stands in one of its parts (`FlattenedSet`), and `dedup` takes none
  away for good (`DedupSet`). So the map and the tables have what the statements state (`MapIs`,
  `ReferencedAre`).
- `QualifiedCounts`: a table with an alias is in the map (`AliasIsEntered`), and a name that all entries
  agree about stands for what they say, whichever of them is the last (`ResolveIs`).
- `PlainExact`: the walk of expressions loses what stands under a form without an arm (`Exotic`,
  the named exception) and nothing else (`MentionedIs`). That names in FROM differ, which the server sees to, makes every name stand for its
  table, also where an alias is the name of another one (`PlainLookup`). That every token has one
  meaning makes the first table with such a column the right one (`OneMeaning`, `TokenFound`);
  stars stand for what they should (`StarFound`).

### Completion

`ChoiceKeeps` speaks of what an open menu would do to the line, and a menu is opened in one step and
chosen from in another. So the invariant (`PromptInv`) says that the line is a text with the cursor
in it, and that an open menu offers what suits the token at the cursor (`Offer`, `Suits`): what begins with
it, by its name or its last part, or, after a qualifier, with what is behind the dot. Every
edit closes the menu or computes it anew (`OpenedSuits`). There are three parts:

- What is offered consists of words, that is, texts without a blank: for each source of
  candidates, from the clauses of the text to the alias map, in any order of it (`TablesAre`,
  `RefsAre`, `QualifiedIs`, `JoinIs`, `OfferedIs`). A candidate with a blank in it would leave only its
  last part as the token.
- Filtering lets through what suits, and ranking and the removal of repetitions invent nothing
  (`FilterIs`, `RankIs`, `DedupIs`); after a qualifier, and after `\d`, the filters are others
  (`AfterQualifier`, `CommandOffers`). Together: `CompletionsSuit`.
- Replacing the last part of the token puts a suitable word behind the qualifier that was
  typed, or in the place of the whole token (`ReplacedIs`, `TakenKeeps`).

`MenuIsStable` needs of the line only that it is a text: it holds of every text and cursor
(`CompletionsStable`). The alias map is walked in some order, and what must be shown is that two
orders give one list:

- What is found is the same set of candidates: the tables of the map and the names of their
  columns are gathered from all of it (`RefsHave`, `FormsHave`, `NamesHave`, `QualifiedHas`). For
  each trigger they are of one kind (`FoundSame`).
- The comparator is a strict order, in which two candidates of one kind always differ
  (`BeforeOrders`; letters are compared by `LexOrders`). So ranking leaves them in order, and
  neither invents nor loses any (`InsertOrders`, `RankOrders`); equal ones then stand side by side,
  so that removing a repetition next to each other removes them all and the list rises
  (`DedupRises`); and a set has one rising list (`RisingUnique`). With candidates of two kinds
  this would fail: a table and a column of one name and use are not ordered by the code, and what
  is between two equal ones would keep them apart.
- After ON the list is not ranked. With a JOIN it does not involve the map; without one the
  tables are those of the text and then those of the map alone, which have no order of their own
  if there are two (`RefsEqual`). This attempt is how the exception `Unordered` was found: the
  property without it held on the lines first checked, which had no such list.

`ScopeExact` compares two readings of a line. The code looks for the word behind each FROM, JOIN and
UPDATE, and for aliases in what sqlparser makes of the line, in which dangling dots were given an x; the property
looks at the clauses, split at commas. Both go by the places where words begin:

- The places where the scans find something rise, and two rising sequences with the same places
  are one (`PlacesAgree`). So a clause has its keyword at the place of a word, and with one
  item in it, without a comma, the words of the item are those up to the next keyword
  (`ItemsFrom`, `SectionsEnd`, `ScopeHas`).
- The dangling dots that are fixed shift the words and change those that end in a dot, but no
  keyword (`FixMoves`, `FixedWords`, `KeyFixed`); and a table in scope has no such dot, for a table without a
  name is not in the schema (`DanglingEmpty`). So an alias of the fixed text is one of the line
  (`AliasFrom`).
- Hence what is looked up are the tables in scope, maybe with keywords, which no table is called like
  (`ScopeFacts`), and each of the sources of columns gives theirs: the two sides of a
  JOIN (`JoinHas`, `OnHas`), the list of tables (`ColumnsHave`), and the qualified names, of
  which those without a dot are the columns (`NamesPlain`). Filtering, ranking and the removal of
  repetitions keep just those that begin with what was typed (`OfferedInScope`).

It has a second hypothesis, `ScopeNames`: FROM, JOIN and UPDATE are keywords, the dot is not, no table is called
like a keyword or has an empty name, and no column has a dot in it. A table called like a keyword, which SQL wants in
quotes, is one that the code offers columns of and sqlparser reads as the next clause. `MCCompletion` satisfies both.

The hypothesis of all three is `PlainNames`: names of tables have neither blanks nor dots and those of columns no
blanks. Names in the schema are those of the catalog, and the code offers them without quotes;
a name with a blank in it makes no word when it is taken, after which nothing can be said of the token.

The proofs stand in `Output_proofs`, which EXTENDS both modules: `Output` and `Completion` share
no state, only the lemmas about sequences.

### Only model-checked

- `SubmissionReturns` and Output's `PromptReturns`: liveness under fairness is outside the prover's
  reach.
- `TabKeepsChoices` of `Completion`, an action property. The ghost text lengthens the last word of the line or
  adds one, and with that the line may begin to parse: its aliases come into being between the two
  states (`SELECT id FROM users u WHERE ` does not parse, with a word behind it does). A proof would have to
  follow a change of the text through the clauses, the fixed dots, the alias map and the triggers;
  each is a scan of the whole text. The attempt to say for which names it holds showed
  that it does not for those that begin with a trigger word: typed as far as the
  trigger word, `ON` of `onset`, the word counts as the trigger and other things are offered. The
  property excludes that now.

## 5. Plan

1. Done: `TxTracker`, `TxSession` and `TxPromise` with proofs; `SchemaCache`; `Migrations`;
   `Store`; `SqlInput`; `QueryRefs`; `Completion`; `Catalog` and `Output`; `Cli`; `History`.
2. Done: proofs of the safety invariants and action properties of `TxSession`, `SchemaCache`,
   `Migrations`, `Store`, `History`, `Cli`, `Output`, `SqlInput`, `QueryRefs` and, of `Completion`,
   `ChoiceKeepsTyped`, `StableAndDistinct` and `ScopeIsExact`: all but those of section 4 that are
   only model-checked.
3. The composition of `TxSession` with one shell of `SchemaCache`: the refresh after DDL on a
   connection whose block may be aborted, and the cache after its ROLLBACK.

## 6. Not modelled

- Syntax highlighting, help texts, prompts and colours: nothing depends on them.
- The composition root and the API facades are wiring without state. What they start appears as
  the first actions of the modules.
- The printing of `list`, `\saved` and `\stats`; the completion scripts for other shells.
- TLS itself: `Cli` has which connector is picked, and when the library goes on without it or gives up.
- The mutex around the SQLite handle is never contended in a single-threaded process.
- The editor that forgets its lines when the history file cannot be opened.
- sqlparser, reedline, PostgreSQL, psql and `$PAGER` are external: only as far as the
  code relies on them.

## 7. Known facts

What the models say about the code that a reader might not expect. The properties name these
cases as exceptions, or the instance leaves them out.

Session (`TxSession`, `ReadableInput`):

- a failing `\d`, `\l`, `\refresh`, `\explain` or refresh after DDL aborts the server's block while the
  prompt shows it open (`docs/superpowers/specs/2026-06-07-transaction-aware-repl-design.md:11-12`);
- several statements after `\explain`, transaction control in an exported text and AND CHAIN
  leave the tracker behind;
- the schema is refreshed inside the transaction of the DDL: after a ROLLBACK the cache
  describes what never was.

Cache, store and migrations:

- a refresh whose invalidate fails, or between whose invalidate and read another shell's save
  comes, ends with the old schema and says "Schema refreshed." (`C/services/schema/service.rs:61-63`
  says that the reload corrects it);
- a save that is cut short leaves a part of a schema that later loads take for the whole
  (`C/services/schema/service.rs:50-51`);
- a crash between `CREATE TABLE saved_queries` and the new `user_version` leaves a store that no
  process can open (`StuckOnlyAtV3`);
- `query_id` has a foreign key without ON DELETE, which can block the deletion of a connection.

Input and completion:

- `exit` quits by the help (`README.md:116`), but without a semicolon Enter never submits it;
- right after a trigger word, a choice from the menu replaces the keyword;
- in `FROM a, b` the first table is taken for `a,`; an alias equal to another table's name
  hides it; an unknown qualifier offers the columns of all tables, with repetitions;
- after an ON without a JOIN, the columns of tables that only the alias map has (the second and
  third of a list) are offered in the order of a HashMap, since this branch is not ranked: the
  menu may differ from one call to the next (`query_completion.rs:42`, `Unordered`);
- ghost text is taken only at the end of the line; the menu completes what the ten candidates
  it shows have in common, the ghost text what all have.

Output and catalog:

- `executor.rs:78-79` takes `t` and `f` for booleans in any column, and in each folded segment; a
  column named `t` is described as `true`;
- columns with wide or accented names do not line up;
- a pager that fails after it was started can take with it what is in the pipe (`pager.rs:9-12`
  says never); one that is left early on a text longer than the pipe leaves the whole text on the terminal;
- Ctrl-C while the pager runs, or during `\export`, kills the shell; the latter leaves a part of the file;
- `\d app.users` is headed `public.app.users` and has no indexes, `\d Users` likewise; of a
  name in two schemas the indexes of both are shown; a failed statement leaves its section out
  without a word; a table without columns is "not found";
- `\export` asks whether the path is free before it runs the query: a file that appears
  meanwhile is emptied.

Command line:

- `?sslmode=` becomes a part of the database's name, and an unescaped `@` there is misread;
- `add --env=` stores an empty environment where `edit --env=` clears it; the first argument is the name
  even if it is an option; `shell` and `test` do not trim the name;
- `connect` hands over to psql without the TLS mode; a session is not encrypted where the server
  does not offer TLS, whatever the mode (`README.md:127-128` and `postgres_db.rs:47` say that `require`
  encrypts; the library's sslmode is left at "prefer"); a mode that is not known is read as disable;
- of a connection named by a number and one with that id, the one whose name comes first is
  meant (`2026-05-24-connection-id-design.md:22-23` has the id first).

Line history:

- after `\refresh` or DDL the lines typed since the last rebuild are not recalled (`History_recall`), and
  a shell that is killed loses them;
- two connections whose names differ in characters that `sanitize_filename` replaces share a file;
- `\save` and `\export` look at the latest 50 entries only.
