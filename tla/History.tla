------------------------------ MODULE History ------------------------------
(***************************************************************************)
(* What the shells on one store remember of the lines typed in them: the   *)
(* line history of each editor and the file it shares with the other       *)
(* shells, and query_history, the access counts and the saved queries that *)
(* \history, \stats, \save and \run work on.  A statement is recorded row   *)
(* by row, and other shells may act in between.  (Store has the same rows  *)
(* and the connections they hang off.)                                     *)
(***************************************************************************)
EXTENDS Naturals, Sequences, FiniteSets, SequencesExt

CONSTANTS
  Shells,     \* pgrs shell processes
  Conns,      \* saved connections
  FileOf,     \* the line-history file of each: sanitize_filename may give two the same
  Queries,    \* statements, finitely many
  Ddl,        \* those that is_ddl
  TablesOf,   \* the tables that each names
  ColumnsOf,  \* and the columns, as <<table, column>>
  Names,      \* names of saved queries
  Command,    \* a line that is a command
  Capacity,   \* lines that a line history holds
  Limit,      \* DEFAULT_HISTORY_LIMIT
  Counts,     \* the counts given to \history
  FreqLimit,  \* how many tables, or columns of a table, are ranked
  Past,       \* what earlier shells have recorded: connections and queries
  Faults,     \* "write": a row may not be written; "kill": a shell may die
  MaxLines,   \* bound: lines ever typed
  MaxTime     \* bound: seconds that pass

ASSUME HistoryAssumption ==
  /\ IsFiniteSet(Queries) /\ Ddl \subseteq Queries /\ Command \notin Queries
  /\ \A q \in Queries : IsFiniteSet(TablesOf[q]) /\ IsFiniteSet(ColumnsOf[q])
  /\ Capacity \in Nat \ {0} /\ Limit \in Nat \ {0} /\ FreqLimit \in Nat \ {0}
  /\ Counts \subseteq Nat \ {0} /\ MaxLines \in Nat /\ MaxTime \in Nat
  /\ Faults \subseteq {"write", "kill"} /\ Past \in Seq(Conns \X Queries)

VARIABLES
  clock,    \* unix_now
  history,  \* query_history: id -> [conn, query, at]
  access,   \* table_access and column_access: the rows of each connection and reference
  saved,    \* saved_queries: [conn, name, sql]
  file,     \* the line-history files
  shell,    \* per shell <<>> or <<[conn, entries, onDisk, tables, columns, listed]>>
  todo,     \* per shell, what is left of its statement: rows to write, an editor to rebuild
  lines,    \* lines typed so far
  typed,    \* ghost: the lines typed in each shell since it opened
  left,     \* ghost: per file, the lines typed in shells that quit
  ran,      \* ghost: per connection and query, how often it was recorded and when last
  lost      \* ghost: the rows never written: connection and reference

records == <<history, access, todo, ran, lost>>
ghosts  == <<typed, left>>
vars    == <<clock, records, saved, file, shell, lines, ghosts>>

Tables  == UNION {TablesOf[q] : q \in Queries}
Columns == UNION {ColumnsOf[q] : q \in Queries}
Refs    == Tables \union Columns
Files   == {FileOf[c] : c \in Conns}

-----------------------------------------------------------------------------
(* The line history of an editor: reedline's FileBackedHistory             *)

LastN(s, n) == IF Len(s) <= n THEN s ELSE SubSeq(s, Len(s) - n + 1, Len(s))

Own(ed) == SubSeq(ed.entries, ed.onDisk + 1, Len(ed.entries))

\* A line is entered unless it repeats the one before it.
Entered(ed, line) ==
  IF ed.entries # <<>> /\ Last(ed.entries) = line THEN ed
  ELSE IF Len(ed.entries) < Capacity THEN [ed EXCEPT !.entries = Append(@, line)]
  ELSE [ed EXCEPT !.entries = Append(Tail(@), line), !.onDisk = IF @ = 0 THEN 0 ELSE @ - 1]

\* Its own lines go behind what the file holds by now.  Faulty: the file gets
\* what the editor knows.  (A "Faulty" definition is no part of the model: it is
\* the next one with a plausible bug.)
FlushedOver(f, ed) == ed.entries
Flushed(f, ed) == LastN(f, Capacity - Len(Own(ed))) \o Own(ed)

-----------------------------------------------------------------------------
(* query_history, the access counts                                         *)

\* The id is kept and the time renewed when the query has a row already.
\* Faulty: the row stays as it is.
RowOf(c, q) == {i \in DOMAIN history : history[i].conn = c /\ history[i].query = q}
UpsertNothing(c, q) ==
  IF RowOf(c, q) = {} THEN Append(history, [conn |-> c, query |-> q, at |-> clock]) ELSE history
Upsert(c, q) ==
  IF RowOf(c, q) = {} THEN Append(history, [conn |-> c, query |-> q, at |-> clock])
  ELSE [i \in DOMAIN history |-> [history[i] EXCEPT !.at = IF i \in RowOf(c, q) THEN clock ELSE @]]

\* The latest n, those of one second in any order.
Recent(c, n) ==
  LET of == {i \in DOMAIN history : history[i].conn = c}
      Latest(is) == \A i \in is, j \in of \ is : history[i].at >= history[j].at
  IN  {is \in SUBSET of : Cardinality(is) = (IF Cardinality(of) < n THEN Cardinality(of) ELSE n) /\ Latest(is)}

\* A row for each reference of the query, the tables first.
RefsOf(q) == TablesOf[q] \union ColumnsOf[q]
First(refs) == IF refs \intersect Tables = {} THEN refs ELSE refs \intersect Tables

\* One row more.
Accessed(count, r) == [count EXCEPT ![r] = @ + 1]

\* Faulty: a row that cannot be written ends the recording.
RestIfWritten(refs, r, written) == IF written THEN refs \ {r} ELSE {}
Rest(refs, r, written) == refs \ {r}

\* The references of S that are ranked: the FreqLimit that have most rows.
Frequent(count, S) ==
  LET used == {r \in S : count[r] > 0}
      size == IF Cardinality(used) < FreqLimit THEN Cardinality(used) ELSE FreqLimit
  IN  {top \in SUBSET used : /\ Cardinality(top) = size
                             /\ \A r \in top, u \in used \ top : count[r] >= count[u]}

\* freq_for_schema: the tables; the columns by name, with the most that any table
\* counts for it.  (The schema is taken to have all the tables.)
TableFreqs(count) == {[r \in top |-> count[r]] : top \in Frequent(count, Tables)}
\* Faulty: with what one of them counts.
MergedAny(count, known) ==
  [name \in {r[2] : r \in known} |-> Min({count[r] : r \in {u \in known : u[2] = name}})]
Merged(count, known) ==
  [name \in {r[2] : r \in known} |-> Max({count[r] : r \in {u \in known : u[2] = name}})]
ColumnFreqs(count) ==
  {Merged(count, UNION known) : known \in
     {k \in SUBSET UNION {Frequent(count, {r \in Columns : r[1] = t}) : t \in Tables} :
        \A t \in Tables : \E top \in Frequent(count, {r \in Columns : r[1] = t}) : {r \in UNION k : r[1] = t} = top}}

-----------------------------------------------------------------------------
(* A shell                                                                  *)

\* build_reedline: the editor opens the file and is told the frequencies.
Build(s, c, listed) ==
  \E tables \in TableFreqs(access[c]), columns \in ColumnFreqs(access[c]) :
    shell' = [shell EXCEPT ![s] =
      << [conn |-> c, entries |-> LastN(file[FileOf[c]], Capacity), onDisk |-> Len(LastN(file[FileOf[c]], Capacity)),
          tables |-> tables, columns |-> columns, listed |-> listed] >>]

Open(s, c) ==
  /\ shell[s] = <<>>
  /\ UNCHANGED records
  /\ Build(s, c, <<>>)
  /\ typed' = [typed EXCEPT ![s] = {}]
  /\ UNCHANGED <<clock, saved, file, lines, left>>

\* Nothing is left of the last statement: the shell is at its prompt.
Idle == [refs |-> {}, rebuild |-> FALSE]

\* Shell s reads a line.
Reads(s, line) ==
  /\ shell[s] # <<>> /\ todo[s] = Idle /\ lines < MaxLines
  /\ lines' = lines + 1
  /\ typed' = [typed EXCEPT ![s] = @ \union {line}]
  /\ UNCHANGED <<clock, left>>

Goes(s, ed) == shell' = [shell EXCEPT ![s] = <<ed>>] /\ UNCHANGED file

\* rebuild_reedline: the new editor has read the file when the old one is dropped,
\* which is when that one writes its lines to it.
Rebuild(s, ed) ==
  /\ file' = [file EXCEPT ![FileOf[ed.conn]] = Flushed(@, ed)]
  /\ Build(s, ed.conn, ed.listed)

\* handle_sql: a statement that succeeds is recorded.  record_query writes its
\* history row first, and gives up when it cannot.
Execute(s, ed, q) ==
  /\ Goes(s, ed)
  /\ UNCHANGED <<access, lost>>
  /\ \/ UNCHANGED <<history, todo, ran>>
     \/ /\ history' = Upsert(ed.conn, q)
        /\ ran' = [ran EXCEPT ![ed.conn][q] = [times |-> @.times + 1, last |-> clock]]
        /\ todo' = [todo EXCEPT ![s] = [refs |-> RefsOf(q), rebuild |-> q \in Ddl]]
     \/ /\ "write" \in Faults
        /\ UNCHANGED <<history, ran>>
        /\ todo' = [todo EXCEPT ![s] = [refs |-> {}, rebuild |-> q \in Ddl]]

\* Then a row for each reference, a statement each: one that cannot be written is
\* left out and the next one tried.
RecordAccess(s) ==
  /\ shell[s] # <<>>
  /\ \E r \in First(todo[s].refs), written \in BOOLEAN :
       /\ todo' = [todo EXCEPT ![s] = [refs |-> Rest(@.refs, r, written), rebuild |-> @.rebuild]]
       /\ \/ /\ written
             /\ access' = [access EXCEPT ![shell[s][1].conn] = Accessed(@, r)]
             /\ UNCHANGED lost
          \/ /\ ~written /\ "write" \in Faults
             /\ lost' = lost \union {<<shell[s][1].conn, r>>}
             /\ UNCHANGED access
  /\ UNCHANGED <<clock, history, saved, file, shell, lines, ghosts, ran>>

\* After DDL, and in \refresh, the schema is refreshed and the editor rebuilt,
\* unless the refresh fails.
Refreshed(s) ==
  /\ shell[s] # <<>> /\ todo[s].rebuild /\ todo[s].refs = {}
  /\ todo' = [todo EXCEPT ![s] = Idle]
  /\ \/ Rebuild(s, shell[s][1])
     \/ UNCHANGED <<shell, file>>
  /\ UNCHANGED <<clock, history, access, saved, lines, ghosts, ran, lost>>

\* A statement is typed as it is, in \edit, or saved and run by \run.
Type(s, q)   == Reads(s, q) /\ Execute(s, Entered(shell[s][1], q), q) /\ UNCHANGED saved
Edit(s, q)   == Reads(s, Command) /\ Execute(s, Entered(shell[s][1], Command), q) /\ UNCHANGED saved
Run(s, name) ==
  /\ Reads(s, Command)
  /\ \E x \in saved : /\ x.conn = shell[s][1].conn /\ x.name = name
                      /\ Execute(s, Entered(shell[s][1], Command), x.sql)
  /\ UNCHANGED saved

\* \refresh
Refresh(s) ==
  /\ Reads(s, Command)
  /\ Goes(s, Entered(shell[s][1], Command))
  /\ todo' = [todo EXCEPT ![s] = [refs |-> {}, rebuild |-> TRUE]]
  /\ UNCHANGED <<history, access, saved, ran, lost>>

\* \history n shows ids and texts.
ListHistory(s, n) ==
  /\ Reads(s, Command)
  /\ \E is \in Recent(shell[s][1].conn, n) :
       Goes(s, [Entered(shell[s][1], Command) EXCEPT !.listed = [i \in is |-> history[i].query]])
  /\ UNCHANGED <<records, saved>>

\* \save name id: an entry of that id among the latest, under a name that is free.
\* Faulty: the entry at that place of the list.
EntryAt(is, id) == {i \in is : Cardinality({j \in is : history[j].at > history[i].at \/ (history[j].at = history[i].at /\ j < i)}) = id - 1}
Entry(is, id) == {i \in is : i = id}
Save(s, name, id) ==
  /\ Reads(s, Command)
  /\ \E is \in Recent(shell[s][1].conn, Limit) :
       \/ /\ \A x \in saved : x.conn = shell[s][1].conn => x.name # name
          /\ \E i \in Entry(is, id) : saved' = saved \union {[conn |-> shell[s][1].conn, name |-> name, sql |-> history[i].query]}
       \/ /\ Entry(is, id) = {} \/ \E x \in saved : x.conn = shell[s][1].conn /\ x.name = name
          /\ UNCHANGED saved
  /\ Goes(s, Entered(shell[s][1], Command))
  /\ UNCHANGED records

Unsave(s, name) ==
  /\ Reads(s, Command)
  /\ saved' = {x \in saved : x.conn # shell[s][1].conn \/ x.name # name}
  /\ Goes(s, Entered(shell[s][1], Command))
  /\ UNCHANGED records

\* The editor is dropped when the shell quits, but not when it is killed.
Quit(s) ==
  /\ shell[s] # <<>> /\ todo[s] = Idle
  /\ LET f == FileOf[shell[s][1].conn]
     IN  /\ file' = [file EXCEPT ![f] = Flushed(@, shell[s][1])]
         /\ left' = [left EXCEPT ![f] = @ \union typed[s]]
  /\ shell' = [shell EXCEPT ![s] = <<>>]
  /\ typed' = [typed EXCEPT ![s] = {}]
  /\ UNCHANGED <<clock, records, saved, lines>>

\* The rows that shell s has still to write.
Owes(s) == IF shell[s] = <<>> THEN {} ELSE {shell[s][1].conn} \X todo[s].refs

Kill(s) ==
  /\ "kill" \in Faults /\ shell[s] # <<>>
  /\ shell' = [shell EXCEPT ![s] = <<>>]
  /\ typed' = [typed EXCEPT ![s] = {}]
  /\ todo' = [todo EXCEPT ![s] = Idle]
  /\ lost' = lost \union Owes(s)
  /\ UNCHANGED <<clock, history, access, saved, file, lines, left, ran>>

Tick ==
  /\ clock < MaxTime
  /\ clock' = clock + 1
  /\ UNCHANGED <<records, saved, file, shell, lines, ghosts>>

Init ==
  /\ clock = 0 /\ saved = {} /\ lines = 0
  /\ IsInjective(Past)
  /\ history = [i \in DOMAIN Past |-> [conn |-> Past[i][1], query |-> Past[i][2], at |-> 0]]
  /\ access = [c \in Conns |-> [r \in Refs |->
                 Cardinality({i \in DOMAIN Past : Past[i][1] = c /\ r \in RefsOf(Past[i][2])})]]
  /\ file = [f \in Files |-> <<>>]
  /\ shell = [s \in Shells |-> <<>>]
  /\ todo = [s \in Shells |-> Idle] /\ lost = {}
  /\ typed = [s \in Shells |-> {}]
  /\ left = [f \in Files |-> {}]
  /\ ran = [c \in Conns |-> [q \in Queries |->
              [times |-> IF <<c, q>> \in ToSet(Past) THEN 1 ELSE 0, last |-> 0]]]

ShellStep(s) ==
  \/ \E c \in Conns : Open(s, c)
  \/ \E q \in Queries : Type(s, q) \/ Edit(s, q)
  \/ \E name \in Names : Run(s, name) \/ Unsave(s, name)
  \/ \E name \in Names, id \in DOMAIN history : Save(s, name, id)
  \/ \E n \in {Limit} \union Counts : ListHistory(s, n)
  \/ Refresh(s) \/ RecordAccess(s) \/ Refreshed(s) \/ Quit(s) \/ Kill(s)

Next == Tick \/ \E s \in Shells : ShellStep(s)

Spec == Init /\ [][Next]_vars

-----------------------------------------------------------------------------
\* "up-arrow recall and Ctrl+R reverse-search survive across sessions": a line
\* typed in a shell that quit is in the file, whatever other shells have the same
\* file, as long as all the lines ever typed fit in it; a line typed in a shell
\* that is open is there or will be written.
LinesReachTheFile ==
  /\ \A f \in Files : Len(file[f]) <= Capacity
  /\ lines <= Capacity =>
       /\ \A f \in Files : left[f] \subseteq ToSet(file[f])
       /\ \A s \in Shells : shell[s] # <<>> =>
            typed[s] \subseteq ToSet(file[FileOf[shell[s][1].conn]]) \union ToSet(Own(shell[s][1]))

\* "Recent query history for a connection (most recent first)": \history shows
\* queries of its connection that were run, and leaves out none that was last run
\* after one that it shows.
Listing(s) == shell[s] # <<>> /\ shell'[s] # <<>> /\ shell'[s][1].listed # shell[s][1].listed
ListsTheLatest ==
  [][\A s \in Shells : Listing(s) =>
       LET c     == shell[s][1].conn
           shown == ToSet(shell'[s][1].listed)
       IN  \A q \in shown : /\ ran[c][q].times > 0
                            /\ \A p \in Queries \ shown : ran[c][p].times > 0 => ran[c][p].last <= ran[c][q].last]_vars

\* \save with an id that the shell has listed saves the text it was listed with,
\* whatever has been run since, there or in another shell.
SavesWhatWasListed ==
  [][\A s \in Shells, name \in Names, id \in DOMAIN history :
       saved' # saved /\ Save(s, name, id) /\ id \in DOMAIN shell[s][1].listed =>
         [conn |-> shell[s][1].conn, name |-> name, sql |-> shell[s][1].listed[id]] \in saved']_vars

\* How often a recorded statement of connection c referred to r, and whether every
\* row of that has been written by the end of the step.
Uses(c, r)  == SumFunctionOnSet([q \in Queries |-> ran'[c][q].times], {q \in Queries : r \in RefsOf(q)})
Whole(c, r) == <<c, r>> \notin lost' /\ \A s \in Shells : <<c, r>> \notin Owes(s)'

\* As many as are ranked at all are ranked as high as n.
Full(ranks, S, n) ==
  \E top \in SUBSET S : Cardinality(top) = FreqLimit /\ \A r \in top : r \in DOMAIN ranks /\ ranks[r] >= n

\* Shell s has opened, or has rebuilt its editor.
NewEditor(s) ==
  /\ shell'[s] # <<>>
  /\ \/ shell[s] = <<>>
     \/ Refreshed(s) /\ Rebuild(s, shell[s][1])

RanksTables(s) ==
  LET ranks == shell'[s][1].tables
      c     == shell'[s][1].conn
  IN  /\ \A t \in DOMAIN ranks : /\ ranks[t] \in 1 .. Uses(c, t)
                                 /\ Whole(c, t) => ranks[t] = Uses(c, t)
      /\ \A t \in Tables \ DOMAIN ranks :
           Whole(c, t) /\ Uses(c, t) > 0 => Full(ranks, Tables, Uses(c, t))

RanksColumns(s) ==
  LET ranks == shell'[s][1].columns
      c     == shell'[s][1].conn
  IN  /\ \A name \in DOMAIN ranks : \E r \in Columns :
           r[2] = name /\ ranks[name] \in 1 .. Uses(c, r) /\ (Whole(c, r) => ranks[name] = Uses(c, r))
      /\ \A r \in Columns : r[1] \in Tables /\ Whole(c, r) /\ Uses(c, r) > 0 =>
           \/ r[2] \in DOMAIN ranks /\ ranks[r[2]] >= Uses(c, r)
           \/ Full([u \in {v \in Columns : v[2] \in DOMAIN ranks} |-> ranks[u[2]]],
                   {u \in Columns : u[1] = r[1]}, Uses(c, r))

\* A new editor ranks the tables of its connection by how often a recorded
\* statement named them, up to then and in whatever shell: never higher, and not
\* lower unless a row of the table was never written or is about to be.  It leaves
\* out a table that was named, and has all its rows, for more used ones only.  The
\* rank of a column name is the use of some column of that name, with the same
\* reserve; and a column that was used, and has all its rows, is ranked by its name
\* at least as high as it was used, or as many of its table are.
RanksByUse == [][\A s \in Shells : NewEditor(s) => RanksTables(s) /\ RanksColumns(s)]_vars

-----------------------------------------------------------------------------
\* "the new one re-opens the SAME file, so history survives the rebuild": while a
\* shell is open, a line it can recall stays so, as long as all lines fit.
RecallSurvivesRebuild ==
  [][\A s \in Shells : shell[s] # <<>> /\ shell'[s] # <<>> /\ lines < Capacity =>
       ToSet(shell[s][1].entries) \subseteq ToSet(shell'[s][1].entries)]_vars
=============================================================================
