-------------------------------- MODULE Store --------------------------------
(***************************************************************************)
(* The saved connections and what hangs off them: query history, table and *)
(* column accesses, saved queries.  Rows refer to a connection by its id,  *)
(* the program to a connection by its name, which it resolves anew for     *)
(* every statement.  Shells record and save; pgrs add, edit, rename and    *)
(* delete run beside them as processes of their own on the same file, and  *)
(* every statement commits by itself.                                      *)
(***************************************************************************)
EXTENDS Naturals, FiniteSets

CONSTANTS
  Shells,      \* pgrs shell processes
  Clis,        \* processes that run one of the other commands
  Names,       \* connection names, which are also what a user types
  NoName,      \* the name of no connection
  NumberOf,    \* the id that a name reads as when it is a number, 0 for the others
  Rank,        \* the place of each name in ORDER BY name
  Fields,      \* fields of a connection
  Edits,       \* the sets of fields that an edit may be given
  Queries,     \* query texts
  RefsOf,      \* the tables and columns that record_query extracts from each
  Faults,      \* "write": a statement may fail; "crash": a process may die
  MaxConns,    \* bound: connections ever added
  MaxQueries   \* bound: history rows ever inserted

ASSUME NamesAssumption ==
  /\ NoName \notin Names
  /\ NumberOf \in [Names -> Nat] /\ Rank \in [Names -> Nat]
  /\ \A m, n \in Names : Rank[m] = Rank[n] => m = n
ASSUME RefsAssumption   == \A q \in Queries : IsFiniteSet(RefsOf[q])
ASSUME EditsAssumption  == Edits \subseteq (SUBSET Fields) \ {{}}
ASSUME BoundsAssumption == MaxConns \in Nat /\ MaxQueries \in Nat
ASSUME StoreFaultsAssumption == Faults \subseteq {"write", "crash"}

VARIABLES
  conns,     \* connections: id -> [name, edited], the fields edited so far
  lastConn,  \* the last id given (AUTOINCREMENT: never given twice)
  history,   \* query_history: id -> [conn, query]
  lastQuery, \* the last id given
  access,    \* rows of table_access and column_access, whatever their number
  saved,     \* rows of saved_queries
  pc,        \* what each process is doing
  using,     \* the connection name it works with
  target,    \* ghost: the connection that bore that name when it was found
  job,       \* what a command will do; what a shell has left to write
  borne,     \* ghost: the names each connection has ever borne
  recorded   \* ghost: <<connection open, connection written to, query>>

rows   == <<conns, lastConn, history, lastQuery, access, saved>>
procs  == <<pc, using, target, job>>
ghosts == <<borne, recorded>>
vars   == <<rows, procs, ghosts>>

Ids      == 1..MaxConns
Procs    == Shells \union Clis
Nothing  == [op |-> "none"]

\* The connections of a name: one or none, since names are UNIQUE.
Named(n) == {i \in DOMAIN conns : conns[i].name = n}

\* A statement of pgrs delete, rename or edit is for the row that has the name.
\* Faulty: it has no WHERE clause.  (A "Faulty" definition is no part of the
\* model: it is the next one with a plausible bug.)
AnyTarget(c) == DOMAIN conns
Target(c) == Named(using[c])

\* resolve_connection_id, anew for every row a shell writes.  The row is written
\* by a second statement, joined to this one here: a delete in between makes it
\* fail like any other statement, and a rename in between could as well have
\* come after it.
\* Faulty: the name is not looked at.
AnyConnection(s) == DOMAIN conns
ConnectionId(s) == Named(using[s])

\* What \save chooses from.  Faulty: the history of every connection.
AllEntries(s) == DOMAIN history
Entries(s) == {q \in DOMAIN history : history[q].conn \in ConnectionId(s)}

\* find_connection: the first, in the order of the names, whose id or name is
\* what the user typed.
Matches(input) == {i \in DOMAIN conns : i = NumberOf[input] \/ conns[i].name = input}
First(is) == {i \in is : \A j \in is : Rank[conns[i].name] <= Rank[conns[j].name]}
Found(input) == First(Matches(input))

Without(f, is) == [i \in DOMAIN f \ is |-> f[i]]
With(f, i, v)  == [j \in DOMAIN f \union {i} |-> IF j = i THEN v ELSE f[j]]

\* Process p goes on to do j, on the connection it has, or is done.
Then(p, state, j) ==
  /\ pc' = [pc EXCEPT ![p] = state]
  /\ job' = [job EXCEPT ![p] = j]
  /\ UNCHANGED <<using, target>>

Forget(p) ==
  /\ pc' = [pc EXCEPT ![p] = "idle"]
  /\ using' = [using EXCEPT ![p] = NoName]
  /\ target' = [target EXCEPT ![p] = 0]
  /\ job' = [job EXCEPT ![p] = Nothing]

\* Process p looks up what the user typed and keeps the name it found.
LookUp(p, input, state, j) ==
  /\ pc[p] = "idle"
  /\ \E i \in Found(input) :
       /\ pc' = [pc EXCEPT ![p] = state]
       /\ using' = [using EXCEPT ![p] = conns[i].name]
       /\ target' = [target EXCEPT ![p] = i]
       /\ job' = [job EXCEPT ![p] = j]
  /\ UNCHANGED <<rows, ghosts>>

-----------------------------------------------------------------------------
(* pgrs add, edit, rename, delete                                           *)

\* One INSERT; the name must be free.
Add(n) ==
  /\ lastConn < MaxConns /\ Named(n) = {}
  /\ lastConn' = lastConn + 1
  /\ conns' = With(conns, lastConn', [name |-> n, edited |-> {}])
  /\ borne' = [borne EXCEPT ![lastConn'] = {n}]
  /\ UNCHANGED <<history, lastQuery, access, saved, procs, recorded>>

Commands ==
  [op : {"delete"}] \union [op : {"rename"}, to : Names]
  \union [op : {"edit"}, fields : Edits]

Command(c, input, j) == c \in Clis /\ LookUp(c, input, "found", j)

\* DELETE WHERE name: the rows of the connection go with it (ON DELETE
\* CASCADE), but no access row may be left pointing at a history row that goes.
Referenced(i) == \E a \in access : a.conn # i /\ history[a.query].conn = i
Orphans(i) == {q \in DOMAIN history : history[q].conn = i}
Delete(c) ==
  /\ pc[c] = "found" /\ job[c].op = "delete"
  /\ \E i \in Target(c) :
       /\ ~Referenced(i)
       /\ conns' = Without(conns, {i})
       /\ history' = Without(history, Orphans(i))
       /\ access' = {a \in access : a.conn # i}
       /\ saved' = {x \in saved : x.conn # i}
  /\ Forget(c)
  /\ UNCHANGED <<lastConn, lastQuery, ghosts>>

\* UPDATE name WHERE name; the new name must be free.
Rename(c) ==
  /\ pc[c] = "found" /\ job[c].op = "rename"
  /\ \E i \in Target(c) :
       /\ Named(job[c].to) \subseteq {i}
       /\ conns' = [conns EXCEPT ![i].name = job[c].to]
       /\ borne' = [borne EXCEPT ![i] = @ \union {job[c].to}]
  /\ Forget(c)
  /\ UNCHANGED <<lastConn, history, lastQuery, access, saved, recorded>>

\* edit reads the row again, changes the fields it was given ...
GetRow(c) ==
  /\ pc[c] = "found" /\ job[c].op = "edit"
  /\ \E i \in Target(c) :
       Then(c, "editing", [op |-> "edit", fields |-> job[c].fields, read |-> conns[i].edited])
  /\ UNCHANGED <<rows, ghosts>>

\* ... and writes every field back: UPDATE WHERE name.
\* Faulty: the other fields fall back to their defaults.
GivenOnly(j) == j.fields
Written(j) == j.read \union j.fields
Update(c) ==
  /\ pc[c] = "editing"
  /\ \E i \in Target(c) : conns' = [conns EXCEPT ![i].edited = Written(job[c])]
  /\ Forget(c)
  /\ UNCHANGED <<lastConn, history, lastQuery, access, saved, ghosts>>

\* The command fails: the name is gone or taken, a row is still referenced, or
\* the statement failed.
Refused(c) ==
  \/ Target(c) = {}
  \/ job[c].op = "delete" /\ \E i \in Target(c) : Referenced(i)
  \/ job[c].op = "rename" /\ ~(Named(job[c].to) \subseteq Target(c))
CommandFails(c) ==
  /\ pc[c] \in {"found", "editing"}
  /\ Refused(c) \/ "write" \in Faults
  /\ Forget(c)
  /\ UNCHANGED <<rows, ghosts>>

-----------------------------------------------------------------------------
(* pgrs shell                                                               *)

Open(s, input) == s \in Shells /\ LookUp(s, input, "ready", Nothing)

\* record_query, first half: the history row of the query, inserted or moved
\* to the front.  A failure ends the recording.
RecordHistory(s, q) ==
  /\ pc[s] = "ready"
  /\ \E i \in ConnectionId(s) :
       /\ LET old == {h \in DOMAIN history : history[h] = [conn |-> i, query |-> q]}
          IN \/ /\ old # {}
                /\ \E h \in old : Then(s, "recording", [op |-> "record", query |-> h,
                                                        refs |-> RefsOf[q]])
                /\ UNCHANGED <<history, lastQuery>>
             \/ /\ old = {} /\ lastQuery < MaxQueries
                /\ lastQuery' = lastQuery + 1
                /\ history' = With(history, lastQuery', [conn |-> i, query |-> q])
                /\ Then(s, "recording", [op |-> "record", query |-> lastQuery',
                                         refs |-> RefsOf[q]])
       /\ recorded' = recorded \union {<<target[s], i, q>>}
  /\ UNCHANGED <<conns, lastConn, access, saved, borne>>

\* Second half: one row per table and column, each under the connection the
\* name means by then; those that fail are skipped.
WithoutRef(j, r) == [j EXCEPT !.refs = @ \ {r}]
RecordAccess(s) ==
  /\ pc[s] = "recording"
  /\ \E r \in job[s].refs :
       /\ \/ /\ job[s].query \in DOMAIN history
             /\ \E i \in ConnectionId(s) :
                  access' = access \union {[conn |-> i, ref |-> r, query |-> job[s].query]}
          \/ /\ \/ job[s].query \notin DOMAIN history
                \/ ConnectionId(s) = {}
                \/ "write" \in Faults
             /\ UNCHANGED access
       /\ Then(s, "recording", WithoutRef(job[s], r))
  /\ UNCHANGED <<conns, lastConn, history, lastQuery, saved, ghosts>>

Recorded(s) ==
  /\ pc[s] = "recording" /\ job[s].refs = {}
  /\ Then(s, "ready", Nothing)
  /\ UNCHANGED <<rows, ghosts>>

\* \save <name> <id>: the history of the connection is read, then the text of
\* the entry is inserted under a name that must be free.  Only the latest 50
\* entries are looked at, so an entry may be missed: nothing then happens.
FindEntry(s) ==
  /\ pc[s] = "ready"
  /\ \E h \in Entries(s) :
       Then(s, "saving", [op |-> "save", sql |-> history[h].query])
  /\ UNCHANGED <<rows, ghosts>>

Save(s, n) ==
  /\ pc[s] = "saving"
  /\ \/ \E i \in ConnectionId(s) :
          /\ \A x \in saved : x.conn = i => x.name # n
          /\ saved' = saved \union {[conn |-> i, name |-> n, sql |-> job[s].sql]}
     \/ /\ \/ ConnectionId(s) = {} \/ "write" \in Faults
           \/ \E x \in saved : x.conn \in ConnectionId(s) /\ x.name = n
        /\ UNCHANGED saved
  /\ Then(s, "ready", Nothing)
  /\ UNCHANGED <<conns, lastConn, history, lastQuery, access, ghosts>>

Unsave(s, n) ==
  /\ pc[s] = "ready"
  /\ \E x \in saved : x.conn \in ConnectionId(s) /\ x.name = n /\ saved' = saved \ {x}
  /\ UNCHANGED <<conns, lastConn, history, lastQuery, access, procs, ghosts>>

\* A shell quits at its prompt; a process may die anywhere.
Leave(p) ==
  /\ pc[p] = "ready" \/ (pc[p] # "idle" /\ "crash" \in Faults)
  /\ Forget(p)
  /\ UNCHANGED <<rows, ghosts>>

-----------------------------------------------------------------------------
Init ==
  /\ conns = <<>> /\ lastConn = 0
  /\ history = <<>> /\ lastQuery = 0
  /\ access = {} /\ saved = {}
  /\ pc = [p \in Procs |-> "idle"]
  /\ using = [p \in Procs |-> NoName]
  /\ target = [p \in Procs |-> 0]
  /\ job = [p \in Procs |-> Nothing]
  /\ borne = [i \in Ids |-> {}]
  /\ recorded = {}

CliStep(c) ==
  \/ \E n \in Names, j \in Commands : Command(c, n, j)
  \/ Delete(c) \/ Rename(c) \/ GetRow(c) \/ Update(c) \/ CommandFails(c)

SavedNames == {"q"}
ShellStep(s) ==
  \/ \E n \in Names : Open(s, n)
  \/ \E q \in Queries : RecordHistory(s, q)
  \/ RecordAccess(s) \/ Recorded(s) \/ FindEntry(s)
  \/ \E n \in SavedNames : Save(s, n) \/ Unsave(s, n)

Next ==
  \/ \E n \in Names : Add(n)
  \/ \E c \in Clis : CliStep(c)
  \/ \E s \in Shells : ShellStep(s)
  \/ \E p \in Procs : Leave(p)

Spec == Init /\ [][Next]_vars

-----------------------------------------------------------------------------
\* Two connections that have, at some time, borne the same name.
Namesakes(i, j) == borne[i] \intersect borne[j] # {}

\* An access row belongs to the connection of its query, unless that name has
\* meanwhile been given to another connection.
AccessMatchesQuery ==
  \A a \in access : history[a.query].conn = a.conn \/ Namesakes(a.conn, history[a.query].conn)

\* A saved query was run on the connection it is saved for, or on a namesake.
SavedWasRun ==
  \A x \in saved : \E r \in recorded : r[3] = x.sql /\ (r[2] = x.conn \/ Namesakes(r[2], x.conn))

\* A command touches no connection but the one it has looked up, or a namesake.
Touched(i) == i \notin DOMAIN conns' \/ conns'[i] # conns[i]
TouchesWhatItFound ==
  [][\A i \in DOMAIN conns : Touched(i) =>
       \E c \in Clis : pc[c] \in {"found", "editing"} /\ pc'[c] = "idle"
                       /\ (i = target[c] \/ Namesakes(i, target[c]))]_vars

\* An edit undoes no earlier edit of a field it was not given, unless that edit
\* came between the read and the write.
EditKeepsRest ==
  [][\A c \in Clis : \A i \in DOMAIN conns \intersect DOMAIN conns' :
       pc[c] = "editing" /\ pc'[c] = "idle" /\ job[c].read = conns[i].edited
         => conns[i].edited \subseteq conns'[i].edited]_vars
=============================================================================
