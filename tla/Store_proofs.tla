----------------------------- MODULE Store_proofs -----------------------------
(***************************************************************************)
(* What Store says of connections that come, go and change their names     *)
(* under the shells that use them holds for any processes, names, queries, *)
(* edits, faults and bounds.                                               *)
(***************************************************************************)
EXTENDS Store, TLAPS

-----------------------------------------------------------------------------
(* The inductive invariant                                                  *)

Refs == UNION {RefsOf[q] : q \in Queries}

States == {"idle", "found", "editing", "ready", "recording", "saving"}

\* What a process has at hand in each state, history rows having ids up to last.
JobsIn(state, last) ==
  CASE state = "found"     -> Commands
    [] state = "editing"   -> [op : {"edit"}, fields : Edits, read : SUBSET Fields]
    [] state = "recording" -> [op : {"record"}, query : 1..last, refs : SUBSET Refs]
    [] state = "saving"    -> [op : {"save"}, sql : Queries]
    [] OTHER               -> {Nothing}

RowsOK ==
  /\ lastConn \in 0..MaxConns /\ lastQuery \in 0..MaxQueries
  /\ DOMAIN conns \subseteq 1..lastConn
  /\ \A i \in DOMAIN conns : conns[i] \in [name : Names, edited : SUBSET Fields]
  /\ DOMAIN history \subseteq 1..lastQuery
  /\ \A h \in DOMAIN history : history[h] \in [conn : 1..lastConn, query : Queries]
  /\ access \subseteq [conn : 1..lastConn, ref : Refs, query : DOMAIN history]
  /\ saved \subseteq [conn : 1..lastConn, name : SavedNames, sql : Queries]

ProcsOK ==
  /\ pc \in [Procs -> States]
  /\ using \in [Procs -> Names \union {NoName}]
  /\ target \in [Procs -> 0..lastConn]
  /\ DOMAIN job = Procs
  /\ \A p \in Procs : job[p] \in JobsIn(pc[p], lastQuery)

GhostsOK ==
  /\ borne \in [Ids -> SUBSET Names]
  /\ recorded \subseteq Ids \X Ids \X Queries

TypeOK == RowsOK /\ ProcsOK /\ GhostsOK

\* A connection has borne its name, and the one that a process has looked up
\* has borne the name that the process keeps.  An id not given yet has none.
NamesBorne ==
  /\ \A i \in DOMAIN conns : conns[i].name \in borne[i]
  /\ \A p \in Procs : pc[p] # "idle" => target[p] \in Ids /\ using[p] \in borne[target[p]]
  /\ \A i \in Ids : i > lastConn => borne[i] = {}

\* A history row was recorded for its connection.
HistoryRun ==
  \A h \in DOMAIN history : \E r \in recorded : r[2] = history[h].conn /\ r[3] = history[h].query

\* The history row that a shell is recording accesses for, as long as it lives,
\* is of a connection that has borne the shell's name.
RecordsOwn ==
  \A p \in Procs : pc[p] = "recording" /\ job[p].query \in DOMAIN history =>
    using[p] \in borne[history[job[p].query].conn]

\* What a shell is about to save was run on such a connection.
SavesOwn ==
  \A p \in Procs : pc[p] = "saving" =>
    \E r \in recorded : r[3] = job[p].sql /\ using[p] \in borne[r[2]]

IInv ==
  /\ TypeOK /\ NamesBorne /\ HistoryRun /\ RecordsOwn /\ SavesOwn
  /\ AccessMatchesQuery /\ SavedWasRun

-----------------------------------------------------------------------------
(* Lemmas about the operators of the model                                  *)

\* A name is found among the connections that bear it.
LEMMA FoundIsConnection ==
  ASSUME NEW n
  PROVE  Found(n) \subseteq DOMAIN conns
BY DEF Found, First, Matches

\* What is at hand stays of its kind while history rows are added.
LEMMA JobsGrow ==
  ASSUME NEW state \in States, NEW m \in Nat, NEW n \in Nat, m <= n
  PROVE  JobsIn(state, m) \subseteq JobsIn(state, n)
<1>1. 1..m \subseteq 1..n
  OBVIOUS
<1>2. [op : {"record"}, query : 1..m, refs : SUBSET Refs]
        \subseteq [op : {"record"}, query : 1..n, refs : SUBSET Refs]
  BY <1>1
<1>3. QED
  BY <1>2 DEF JobsIn

\* The ids of connections and history rows only grow.
IdsGrow ==
  /\ lastConn \in Nat /\ lastConn' \in Nat /\ lastConn <= lastConn'
  /\ lastQuery \in Nat /\ lastQuery' \in Nat /\ lastQuery <= lastQuery'

\* A process that does nothing keeps its job, since ids only grow.
LEMMA JobKept ==
  ASSUME ProcsOK, IdsGrow, NEW p \in Procs, pc'[p] = pc[p], job'[p] = job[p]
  PROVE  job'[p] \in JobsIn(pc'[p], lastQuery')
<1>1. pc[p] \in States /\ job[p] \in JobsIn(pc[p], lastQuery)
  BY DEF ProcsOK
<1>2. JobsIn(pc[p], lastQuery) \subseteq JobsIn(pc[p], lastQuery')
  BY <1>1, JobsGrow DEF IdsGrow
<1>3. QED
  BY <1>1, <1>2

\* A process goes on to a state with a job of that state, or none.
LEMMA ThenType ==
  ASSUME ProcsOK, IdsGrow, NEW p \in Procs, NEW state \in States, NEW j,
         j \in JobsIn(state, lastQuery'), Then(p, state, j)
  PROVE  ProcsOK'
<1>1. /\ pc' \in [Procs -> States] /\ DOMAIN job' = Procs /\ pc'[p] = state /\ job'[p] = j
      /\ \A q \in Procs \ {p} : pc'[q] = pc[q] /\ job'[q] = job[q]
  BY DEF Then, ProcsOK
<1>2. target' \in [Procs -> 0..lastConn'] /\ using' \in [Procs -> Names \union {NoName}]
  BY DEF Then, ProcsOK, IdsGrow
<1>3. \A q \in Procs : job'[q] \in JobsIn(pc'[q], lastQuery')
  BY <1>1, JobKept
<1>4. QED
  BY <1>1, <1>2, <1>3 DEF ProcsOK

\* A process that ends has nothing left to do.
LEMMA ForgetType ==
  ASSUME ProcsOK, IdsGrow, NEW p \in Procs, Forget(p)
  PROVE  ProcsOK'
<1>1. /\ pc' \in [Procs -> States] /\ DOMAIN job' = Procs /\ pc'[p] = "idle" /\ job'[p] = Nothing
      /\ \A q \in Procs \ {p} : pc'[q] = pc[q] /\ job'[q] = job[q]
  BY DEF Forget, ProcsOK, States
<1>2. target' \in [Procs -> 0..lastConn'] /\ using' \in [Procs -> Names \union {NoName}]
  BY DEF Forget, ProcsOK, IdsGrow
<1>3. Nothing \in JobsIn("idle", lastQuery')
  BY DEF JobsIn
<1>4. \A q \in Procs : job'[q] \in JobsIn(pc'[q], lastQuery')
  BY <1>1, <1>3, JobKept
<1>5. QED
  BY <1>1, <1>2, <1>4 DEF ProcsOK

\* Processes that do not move keep their types while ids grow.
LEMMA SameType ==
  ASSUME ProcsOK, IdsGrow, UNCHANGED procs
  PROVE  ProcsOK'
<1>1. pc' = pc /\ job' = job /\ using' = using /\ target' = target
  BY DEF procs
<1>2. target' \in [Procs -> 0..lastConn']
  BY <1>1 DEF ProcsOK, IdsGrow
<1>3. \A q \in Procs : job'[q] \in JobsIn(pc'[q], lastQuery')
  BY <1>1, JobKept
<1>4. QED
  BY <1>1, <1>2, <1>3 DEF ProcsOK

\* A look-up by name changes no row.
LEMMA LookUpType ==
  ASSUME TypeOK, NEW p \in Procs, NEW n \in Names, NEW state \in States, NEW j,
         j \in JobsIn(state, lastQuery), LookUp(p, n, state, j)
  PROVE  ProcsOK' /\ UNCHANGED <<rows, ghosts>>
<1>1. UNCHANGED <<rows, ghosts>> /\ IdsGrow
  BY DEF LookUp, IdsGrow, rows, TypeOK, RowsOK
<1>2. PICK i \in Found(n) :
        /\ pc' = [pc EXCEPT ![p] = state]
        /\ using' = [using EXCEPT ![p] = conns[i].name]
        /\ target' = [target EXCEPT ![p] = i]
        /\ job' = [job EXCEPT ![p] = j]
  BY DEF LookUp
<1>3. i \in DOMAIN conns /\ conns[i].name \in Names /\ i \in 0..lastConn
  BY <1>2, FoundIsConnection DEF TypeOK, RowsOK
<1>4. /\ pc' \in [Procs -> States] /\ DOMAIN job' = Procs /\ pc'[p] = state /\ job'[p] = j
      /\ \A q \in Procs \ {p} : pc'[q] = pc[q] /\ job'[q] = job[q]
  BY <1>2 DEF TypeOK, ProcsOK
<1>5. target' \in [Procs -> 0..lastConn'] /\ using' \in [Procs -> Names \union {NoName}]
  BY <1>1, <1>2, <1>3 DEF TypeOK, ProcsOK, rows
<1>6. j \in JobsIn(state, lastQuery')
  BY <1>1 DEF rows
<1>7. \A q \in Procs : job'[q] \in JobsIn(pc'[q], lastQuery')
  BY <1>1, <1>4, <1>6, JobKept DEF TypeOK
<1>8. QED
  BY <1>1, <1>4, <1>5, <1>7 DEF ProcsOK

-----------------------------------------------------------------------------
(* Typing                                                                   *)

\* The rows stay well typed when they do not change but for the ids.
LEMMA RowsSame ==
  ASSUME TypeOK, UNCHANGED rows
  PROVE  RowsOK' /\ IdsGrow
<1>1. UNCHANGED <<conns, lastConn, history, lastQuery, access, saved>>
  BY DEF rows
<1>2. QED
  BY <1>1 DEF TypeOK, RowsOK, IdsGrow

\* The ghosts, when no step touches them.
LEMMA GhostsSame == ASSUME TypeOK, UNCHANGED ghosts PROVE GhostsOK'
BY DEF TypeOK, GhostsOK, ghosts

\* Each operation leaves rows, processes and ghosts of their types, and ids only grow.
LEMMA AddType ==
  ASSUME TypeOK, NEW n \in Names, Add(n)
  PROVE  TypeOK' /\ IdsGrow
<1>1. lastConn' = lastConn + 1 /\ lastConn \in Nat /\ lastConn' \in 0..MaxConns
  BY BoundsAssumption DEF Add, TypeOK, RowsOK
<1>2. UNCHANGED <<history, lastQuery, access, saved, procs, recorded>>
  BY DEF Add
<1>3. IdsGrow
  BY <1>1, <1>2 DEF IdsGrow, TypeOK, RowsOK
<1>4. /\ DOMAIN conns' = DOMAIN conns \union {lastConn'}
      /\ conns'[lastConn'] = [name |-> n, edited |-> {}]
      /\ \A i \in DOMAIN conns : i # lastConn' => conns'[i] = conns[i]
  BY DEF Add, With
<1>5. /\ DOMAIN conns' \subseteq 1..lastConn'
      /\ \A i \in DOMAIN conns' : conns'[i] \in [name : Names, edited : SUBSET Fields]
  <2>1. DOMAIN conns' \subseteq 1..lastConn'
    BY <1>1, <1>4 DEF TypeOK, RowsOK
  <2>2. conns'[lastConn'] \in [name : Names, edited : SUBSET Fields]
    BY <1>4
  <2>3. ASSUME NEW i \in DOMAIN conns' PROVE conns'[i] \in [name : Names, edited : SUBSET Fields]
    BY <1>4, <2>2 DEF TypeOK, RowsOK
  <2>4. QED
    BY <2>1, <2>3
<1>6. /\ \A h \in DOMAIN history : history[h] \in [conn : 1..lastConn', query : Queries]
      /\ access \subseteq [conn : 1..lastConn', ref : Refs, query : DOMAIN history]
      /\ saved \subseteq [conn : 1..lastConn', name : SavedNames, sql : Queries]
  <2>1. 1..lastConn \subseteq 1..lastConn'
    BY <1>1
  <2>2. QED
    BY <2>1 DEF TypeOK, RowsOK
<1>7. RowsOK'
  BY <1>1, <1>2, <1>5, <1>6 DEF TypeOK, RowsOK
<1>8. ProcsOK'
  BY <1>2, <1>3, SameType DEF TypeOK
<1>9. GhostsOK'
  BY <1>1, <1>2 DEF Add, TypeOK, GhostsOK
<1>10. QED
  BY <1>3, <1>7, <1>8, <1>9 DEF TypeOK

\* The steps of Next keep the types and only add ids: a command is read,
LEMMA CommandType ==
  ASSUME TypeOK, NEW c \in Clis, NEW n \in Names, NEW j \in Commands, Command(c, n, j)
  PROVE  TypeOK' /\ UNCHANGED <<rows, ghosts>>
<1>1. c \in Procs /\ LookUp(c, n, "found", j) /\ "found" \in States /\ j \in JobsIn("found", lastQuery)
  BY DEF Command, Procs, States, JobsIn
<1>2. ProcsOK' /\ UNCHANGED <<rows, ghosts>>
  BY <1>1, LookUpType
<1>3. QED
  BY <1>2, RowsSame, GhostsSame DEF TypeOK

\* a shell opens,
LEMMA OpenType ==
  ASSUME TypeOK, NEW s \in Shells, NEW n \in Names, Open(s, n)
  PROVE  TypeOK' /\ UNCHANGED <<rows, ghosts>>
<1>1. s \in Procs /\ LookUp(s, n, "ready", Nothing) /\ "ready" \in States
      /\ Nothing \in JobsIn("ready", lastQuery)
  BY DEF Open, Procs, States, JobsIn
<1>2. ProcsOK' /\ UNCHANGED <<rows, ghosts>>
  BY <1>1, LookUpType
<1>3. QED
  BY <1>2, RowsSame, GhostsSame DEF TypeOK

\* a connection and what hangs on it are deleted,
LEMMA DeleteType ==
  ASSUME TypeOK, NEW c \in Clis, Delete(c)
  PROVE  TypeOK' /\ IdsGrow
<1>1. PICK i \in Target(c) :
        /\ ~Referenced(i)
        /\ conns' = Without(conns, {i})
        /\ history' = Without(history, Orphans(i))
        /\ access' = {a \in access : a.conn # i}
        /\ saved' = {x \in saved : x.conn # i}
  BY DEF Delete
<1>2. c \in Procs /\ Forget(c) /\ UNCHANGED <<lastConn, lastQuery, ghosts>> /\ IdsGrow
  BY DEF Delete, Procs, IdsGrow, TypeOK, RowsOK
<1>3. /\ DOMAIN conns' \subseteq DOMAIN conns /\ \A j \in DOMAIN conns' : conns'[j] = conns[j]
      /\ DOMAIN history' = DOMAIN history \ Orphans(i)
      /\ \A h \in DOMAIN history' : history'[h] = history[h]
  BY <1>1 DEF Without
<1>4. ASSUME NEW a \in access' PROVE a.query \in DOMAIN history'
  <2>1. a \in access /\ a.conn # i /\ a.query \in DOMAIN history
    BY <1>1 DEF TypeOK, RowsOK
  <2>2. history[a.query].conn # i
    BY <1>1, <2>1 DEF Referenced
  <2>3. QED
    BY <1>3, <2>1, <2>2 DEF Orphans
<1>5. access' \subseteq [conn : 1..lastConn', ref : Refs, query : DOMAIN history']
  <2> SUFFICES ASSUME NEW a \in access'
               PROVE  a \in [conn : 1..lastConn', ref : Refs, query : DOMAIN history']
    OBVIOUS
  <2>1. a \in [conn : 1..lastConn, ref : Refs, query : DOMAIN history] /\ a.query \in DOMAIN history'
    BY <1>1, <1>4 DEF TypeOK, RowsOK
  <2>2. QED
    BY <1>2, <2>1
<1>6. saved' \subseteq [conn : 1..lastConn', name : SavedNames, sql : Queries]
  BY <1>1, <1>2 DEF TypeOK, RowsOK
<1>7. RowsOK'
  BY <1>2, <1>3, <1>5, <1>6 DEF TypeOK, RowsOK
<1>8. ProcsOK'
  BY <1>2, ForgetType DEF TypeOK
<1>9. QED
  BY <1>2, <1>7, <1>8, GhostsSame DEF TypeOK

\* a connection is renamed,
LEMMA RenameType ==
  ASSUME TypeOK, NEW c \in Clis, Rename(c)
  PROVE  TypeOK' /\ IdsGrow
<1>1. PICK i \in Target(c) :
        /\ conns' = [conns EXCEPT ![i].name = job[c].to]
        /\ borne' = [borne EXCEPT ![i] = @ \union {job[c].to}]
  BY DEF Rename
<1>2. /\ c \in Procs /\ Forget(c) /\ IdsGrow
      /\ UNCHANGED <<lastConn, history, lastQuery, access, saved, recorded>>
  BY DEF Rename, Procs, IdsGrow, TypeOK, RowsOK
<1>3. job[c] \in Commands /\ job[c].op = "rename"
  BY <1>2 DEF Rename, TypeOK, ProcsOK, JobsIn
<1>4. job[c].to \in Names
  BY <1>3 DEF Commands
<1>5. i \in DOMAIN conns /\ i \in Ids
  BY <1>1, BoundsAssumption DEF Target, Named, TypeOK, RowsOK, Ids
<1>6. /\ DOMAIN conns' = DOMAIN conns
      /\ \A j \in DOMAIN conns : conns'[j] \in [name : Names, edited : SUBSET Fields]
  BY <1>1, <1>4, <1>5 DEF TypeOK, RowsOK
<1>7. RowsOK'
  BY <1>2, <1>6 DEF TypeOK, RowsOK
<1>8. GhostsOK'
  BY <1>1, <1>2, <1>4, <1>5 DEF TypeOK, GhostsOK
<1>9. ProcsOK'
  BY <1>2, ForgetType DEF TypeOK
<1>10. QED
  BY <1>2, <1>7, <1>8, <1>9 DEF TypeOK

\* a row is read to be updated,
LEMMA GetRowType ==
  ASSUME TypeOK, NEW c \in Clis, GetRow(c)
  PROVE  TypeOK' /\ UNCHANGED <<rows, ghosts>>
<1>1. PICK i \in Target(c) :
        Then(c, "editing", [op |-> "edit", fields |-> job[c].fields, read |-> conns[i].edited])
  BY DEF GetRow
<1>2. c \in Procs /\ UNCHANGED <<rows, ghosts>> /\ "editing" \in States
  BY DEF GetRow, Procs, States
<1>3. job[c] \in Commands /\ job[c].op = "edit"
  BY <1>2 DEF GetRow, TypeOK, ProcsOK, JobsIn
<1>4. job[c].fields \in Edits
  BY <1>3 DEF Commands
<1>5. conns[i].edited \in SUBSET Fields
  BY <1>1 DEF Target, Named, TypeOK, RowsOK
<1>6. [op |-> "edit", fields |-> job[c].fields, read |-> conns[i].edited]
        \in JobsIn("editing", lastQuery')
  BY <1>4, <1>5 DEF JobsIn
<1>7. ProcsOK'
  BY <1>1, <1>2, <1>6, RowsSame, ThenType DEF TypeOK
<1>8. QED
  BY <1>2, <1>7, RowsSame, GhostsSame DEF TypeOK

\* a row is written back,
LEMMA UpdateType ==
  ASSUME TypeOK, NEW c \in Clis, Update(c)
  PROVE  TypeOK' /\ IdsGrow
<1>1. PICK i \in Target(c) : conns' = [conns EXCEPT ![i].edited = Written(job[c])]
  BY DEF Update
<1>2. /\ c \in Procs /\ Forget(c) /\ IdsGrow
      /\ UNCHANGED <<lastConn, history, lastQuery, access, saved, ghosts>>
  BY DEF Update, Procs, IdsGrow, TypeOK, RowsOK
<1>3. job[c] \in [op : {"edit"}, fields : Edits, read : SUBSET Fields]
  BY <1>2 DEF Update, TypeOK, ProcsOK, JobsIn
<1>4. Written(job[c]) \in SUBSET Fields
  BY <1>3, EditsAssumption DEF Written
<1>5. /\ DOMAIN conns' = DOMAIN conns
      /\ \A j \in DOMAIN conns : conns'[j] \in [name : Names, edited : SUBSET Fields]
  BY <1>1, <1>4 DEF Target, Named, TypeOK, RowsOK
<1>6. RowsOK'
  BY <1>2, <1>5 DEF TypeOK, RowsOK
<1>7. QED
  BY <1>2, <1>6, ForgetType, GhostsSame DEF TypeOK

\* A command that fails, and a process that ends, leave the rows alone.
LEMMA EndType ==
  ASSUME TypeOK, NEW p \in Procs, CommandFails(p) \/ Leave(p)
  PROVE  TypeOK' /\ UNCHANGED <<rows, ghosts>>
<1>1. Forget(p) /\ UNCHANGED <<rows, ghosts>>
  BY DEF CommandFails, Leave
<1>2. QED
  BY <1>1, RowsSame, GhostsSame, ForgetType DEF TypeOK

\* The row that record_query finds or inserts, and what is left to record.
LEMMA RecordHistoryRow ==
  ASSUME TypeOK, NEW s \in Shells, NEW q \in Queries, RecordHistory(s, q)
  PROVE  \E i \in ConnectionId(s), h \in DOMAIN history' :
           /\ i \in Ids /\ i \in DOMAIN conns
           /\ history'[h] = [conn |-> i, query |-> q]
           /\ Then(s, "recording", [op |-> "record", query |-> h, refs |-> RefsOf[q]])
           /\ recorded' = recorded \union {<<target[s], i, q>>}
           /\ DOMAIN history' = DOMAIN history \union {h}
           /\ \A g \in DOMAIN history : history'[g] = history[g]
           /\ h \in 1..lastQuery' /\ (h \in DOMAIN history \/ h > lastQuery)
<1>1. PICK i \in ConnectionId(s) :
        /\ LET old == {h \in DOMAIN history : history[h] = [conn |-> i, query |-> q]}
           IN \/ /\ old # {}
                 /\ \E h \in old : Then(s, "recording", [op |-> "record", query |-> h,
                                                         refs |-> RefsOf[q]])
                 /\ UNCHANGED <<history, lastQuery>>
              \/ /\ old = {} /\ lastQuery < MaxQueries
                 /\ lastQuery' = lastQuery + 1
                 /\ history' = With(history, lastQuery', [conn |-> i, query |-> q])
                 /\ Then(s, "recording", [op |-> "record", query |-> lastQuery',
                                          refs |-> RefsOf[q]])
        /\ recorded' = recorded \union {<<target[s], i, q>>}
  BY DEF RecordHistory
<1>2. i \in DOMAIN conns /\ i \in Ids
  BY BoundsAssumption DEF ConnectionId, Named, TypeOK, RowsOK, Ids
<1>3. DOMAIN history \subseteq 1..lastQuery /\ lastQuery \in Nat
  BY DEF TypeOK, RowsOK
<1>4. CASE UNCHANGED <<history, lastQuery>>
             /\ \E h \in DOMAIN history :
                  /\ history[h] = [conn |-> i, query |-> q]
                  /\ Then(s, "recording", [op |-> "record", query |-> h, refs |-> RefsOf[q]])
  <2>1. PICK h \in DOMAIN history :
          /\ history[h] = [conn |-> i, query |-> q]
          /\ Then(s, "recording", [op |-> "record", query |-> h, refs |-> RefsOf[q]])
    BY <1>4
  <2>2. h \in 1..lastQuery' /\ DOMAIN history' = DOMAIN history \union {h}
    BY <1>3, <1>4, <2>1
  <2>3. QED
    BY <1>1, <1>2, <1>4, <2>1, <2>2
<1>5. CASE /\ lastQuery' = lastQuery + 1
           /\ history' = With(history, lastQuery', [conn |-> i, query |-> q])
           /\ Then(s, "recording", [op |-> "record", query |-> lastQuery', refs |-> RefsOf[q]])
  <2>1. lastQuery' \in 1..lastQuery' /\ lastQuery' > lastQuery /\ lastQuery' \notin DOMAIN history
    BY <1>3, <1>5
  <2>2. /\ DOMAIN history' = DOMAIN history \union {lastQuery'}
        /\ history'[lastQuery'] = [conn |-> i, query |-> q]
        /\ \A g \in DOMAIN history : history'[g] = history[g]
    BY <1>5, <2>1 DEF With
  <2>3. QED
    BY <1>1, <1>2, <1>5, <2>1, <2>2
<1>6. QED
  BY <1>1, <1>4, <1>5

\* a query is recorded,
LEMMA RecordHistoryType ==
  ASSUME TypeOK, NamesBorne, NEW s \in Shells, NEW q \in Queries, RecordHistory(s, q)
  PROVE  TypeOK' /\ IdsGrow
<1>1. PICK i \in ConnectionId(s), h \in DOMAIN history' :
        /\ i \in Ids /\ i \in DOMAIN conns
        /\ history'[h] = [conn |-> i, query |-> q]
        /\ Then(s, "recording", [op |-> "record", query |-> h, refs |-> RefsOf[q]])
        /\ recorded' = recorded \union {<<target[s], i, q>>}
        /\ DOMAIN history' = DOMAIN history \union {h}
        /\ \A g \in DOMAIN history : history'[g] = history[g]
        /\ h \in 1..lastQuery' /\ (h \in DOMAIN history \/ h > lastQuery)
  BY RecordHistoryRow
<1>2. s \in Procs /\ UNCHANGED <<conns, lastConn, access, saved, borne>> /\ pc[s] = "ready"
  BY DEF RecordHistory, Procs
<1>3. lastQuery \in Nat /\ lastQuery' \in 0..MaxQueries /\ lastQuery <= lastQuery'
  BY BoundsAssumption DEF RecordHistory, TypeOK, RowsOK
<1>4. IdsGrow
  BY <1>2, <1>3 DEF IdsGrow, TypeOK, RowsOK
<1>5. i \in 1..lastConn
  BY <1>1 DEF TypeOK, RowsOK
<1>6. DOMAIN history' \subseteq 1..lastQuery'
  BY <1>1, <1>3 DEF TypeOK, RowsOK
<1>7. \A g \in DOMAIN history' : history'[g] \in [conn : 1..lastConn', query : Queries]
  BY <1>1, <1>2, <1>5 DEF TypeOK, RowsOK
<1>8. access' \subseteq [conn : 1..lastConn', ref : Refs, query : DOMAIN history']
  <2> SUFFICES ASSUME NEW a \in access'
               PROVE  a \in [conn : 1..lastConn', ref : Refs, query : DOMAIN history']
    OBVIOUS
  <2>1. a \in [conn : 1..lastConn, ref : Refs, query : DOMAIN history]
    BY <1>2 DEF TypeOK, RowsOK
  <2>2. QED
    BY <1>1, <1>2, <2>1
<1>9. RowsOK'
  BY <1>2, <1>3, <1>6, <1>7, <1>8 DEF TypeOK, RowsOK
<1>10. [op |-> "record", query |-> h, refs |-> RefsOf[q]] \in JobsIn("recording", lastQuery')
  BY <1>1 DEF JobsIn, Refs
<1>11. ProcsOK'
  BY <1>1, <1>2, <1>4, <1>10, ThenType DEF TypeOK, States
<1>12. GhostsOK'
  <2>1. target[s] \in Ids
    BY <1>2 DEF NamesBorne
  <2>2. QED
    BY <1>1, <1>2, <2>1 DEF TypeOK, GhostsOK
<1>13. QED
  BY <1>4, <1>9, <1>11, <1>12 DEF TypeOK

\* the tables it reads are recorded,
LEMMA RecordAccessType ==
  ASSUME TypeOK, NEW s \in Shells, RecordAccess(s)
  PROVE  TypeOK' /\ IdsGrow
<1>1. PICK r \in job[s].refs :
        /\ \/ /\ job[s].query \in DOMAIN history
              /\ \E i \in ConnectionId(s) :
                   access' = access \union {[conn |-> i, ref |-> r, query |-> job[s].query]}
           \/ UNCHANGED access
        /\ Then(s, "recording", WithoutRef(job[s], r))
  BY DEF RecordAccess
<1>2. s \in Procs /\ pc[s] = "recording"
      /\ UNCHANGED <<conns, lastConn, history, lastQuery, saved, ghosts>> /\ IdsGrow
  BY DEF RecordAccess, Procs, IdsGrow, TypeOK, RowsOK
<1>3. job[s] \in [op : {"record"}, query : 1..lastQuery, refs : SUBSET Refs]
  BY <1>2 DEF TypeOK, ProcsOK, JobsIn
<1>4. access' \subseteq [conn : 1..lastConn, ref : Refs, query : DOMAIN history]
  <2>1. CASE UNCHANGED access
    BY <2>1 DEF TypeOK, RowsOK
  <2>2. ASSUME job[s].query \in DOMAIN history, NEW i \in ConnectionId(s),
               access' = access \union {[conn |-> i, ref |-> r, query |-> job[s].query]}
        PROVE  access' \subseteq [conn : 1..lastConn, ref : Refs, query : DOMAIN history]
    <3>1. i \in 1..lastConn /\ r \in Refs
      BY <1>1, <1>3 DEF ConnectionId, Named, TypeOK, RowsOK
    <3>2. QED
      BY <2>2, <3>1 DEF TypeOK, RowsOK
  <2>3. QED
    BY <1>1, <2>1, <2>2
<1>5. RowsOK'
  BY <1>2, <1>4 DEF TypeOK, RowsOK
<1>6. WithoutRef(job[s], r) \in JobsIn("recording", lastQuery')
  <2>1. WithoutRef(job[s], r) \in [op : {"record"}, query : 1..lastQuery, refs : SUBSET Refs]
    BY <1>3 DEF WithoutRef
  <2>2. QED
    BY <1>2, <2>1 DEF JobsIn
<1>7. ProcsOK'
  BY <1>1, <1>2, <1>6, ThenType DEF TypeOK, States
<1>8. QED
  BY <1>2, <1>5, <1>7, GhostsSame DEF TypeOK

\* the recording ends,
LEMMA RecordedType ==
  ASSUME TypeOK, NEW s \in Shells, Recorded(s)
  PROVE  TypeOK' /\ UNCHANGED <<rows, ghosts>>
<1>1. s \in Procs /\ Then(s, "ready", Nothing) /\ UNCHANGED <<rows, ghosts>> /\ "ready" \in States
      /\ Nothing \in JobsIn("ready", lastQuery')
  BY DEF Recorded, Procs, States, JobsIn
<1>2. QED
  BY <1>1, RowsSame, GhostsSame, ThenType DEF TypeOK

\* the query to save is looked up,
LEMMA FindEntryType ==
  ASSUME TypeOK, NEW s \in Shells, FindEntry(s)
  PROVE  TypeOK' /\ UNCHANGED <<rows, ghosts>>
<1>1. PICK h \in Entries(s) : Then(s, "saving", [op |-> "save", sql |-> history[h].query])
  BY DEF FindEntry
<1>2. s \in Procs /\ UNCHANGED <<rows, ghosts>> /\ "saving" \in States
  BY DEF FindEntry, Procs, States
<1>3. [op |-> "save", sql |-> history[h].query] \in JobsIn("saving", lastQuery')
  BY <1>1 DEF Entries, TypeOK, RowsOK, JobsIn
<1>4. QED
  BY <1>1, <1>2, <1>3, RowsSame, GhostsSame, ThenType DEF TypeOK

\* it is saved,
LEMMA SaveType ==
  ASSUME TypeOK, NEW s \in Shells, NEW n \in SavedNames, Save(s, n)
  PROVE  TypeOK' /\ IdsGrow
<1>1. s \in Procs /\ pc[s] = "saving" /\ Then(s, "ready", Nothing)
      /\ UNCHANGED <<conns, lastConn, history, lastQuery, access, ghosts>> /\ IdsGrow
  BY DEF Save, Procs, IdsGrow, TypeOK, RowsOK
<1>2. \/ UNCHANGED saved
      \/ \E i \in ConnectionId(s) : saved' = saved \union {[conn |-> i, name |-> n, sql |-> job[s].sql]}
  BY DEF Save
<1>3. job[s] \in [op : {"save"}, sql : Queries]
  BY <1>1 DEF TypeOK, ProcsOK, JobsIn
<1>4. saved' \subseteq [conn : 1..lastConn, name : SavedNames, sql : Queries]
  <2>1. CASE UNCHANGED saved
    BY <2>1 DEF TypeOK, RowsOK
  <2>2. ASSUME NEW i \in ConnectionId(s),
               saved' = saved \union {[conn |-> i, name |-> n, sql |-> job[s].sql]}
        PROVE  saved' \subseteq [conn : 1..lastConn, name : SavedNames, sql : Queries]
    <3>1. i \in 1..lastConn
      BY DEF ConnectionId, Named, TypeOK, RowsOK
    <3>2. QED
      BY <1>3, <2>2, <3>1 DEF TypeOK, RowsOK
  <2>3. QED
    BY <1>2, <2>1, <2>2
<1>5. RowsOK'
  BY <1>1, <1>4 DEF TypeOK, RowsOK
<1>6. Nothing \in JobsIn("ready", lastQuery')
  BY DEF JobsIn
<1>7. QED
  BY <1>1, <1>5, <1>6, GhostsSame, ThenType DEF TypeOK, States

\* a saved query is removed.
LEMMA UnsaveType ==
  ASSUME TypeOK, NEW s \in Shells, NEW n \in SavedNames, Unsave(s, n)
  PROVE  TypeOK' /\ IdsGrow
<1>1. UNCHANGED <<conns, lastConn, history, lastQuery, access, procs, ghosts>>
      /\ saved' \subseteq saved /\ IdsGrow
  BY DEF Unsave, IdsGrow, TypeOK, RowsOK
<1>2. RowsOK'
  BY <1>1 DEF TypeOK, RowsOK
<1>3. QED
  BY <1>1, <1>2, SameType, GhostsSame DEF TypeOK

\* Every step does.
LEMMA TypeStep ==
  ASSUME TypeOK, NamesBorne, [Next]_vars
  PROVE  TypeOK' /\ IdsGrow
<1>1. ASSUME NEW n \in Names, Add(n) PROVE TypeOK' /\ IdsGrow
  BY <1>1, AddType
<1>2. ASSUME NEW c \in Clis, CliStep(c) PROVE TypeOK' /\ IdsGrow
  <2>1. c \in Procs
    BY DEF Procs
  <2>2. QED
    BY <1>2, <2>1, CommandType, DeleteType, RenameType, GetRowType, UpdateType, EndType, RowsSame
       DEF CliStep
<1>3. ASSUME NEW s \in Shells, ShellStep(s) PROVE TypeOK' /\ IdsGrow
  BY <1>3, OpenType, RecordHistoryType, RecordAccessType, RecordedType, FindEntryType, SaveType,
     UnsaveType, RowsSame DEF ShellStep
<1>4. ASSUME NEW p \in Procs, Leave(p) PROVE TypeOK' /\ IdsGrow
  BY <1>4, EndType, RowsSame
<1>5. CASE UNCHANGED vars
  BY <1>5, RowsSame, SameType, GhostsSame DEF TypeOK, vars
<1>6. QED
  BY <1>1, <1>2, <1>3, <1>4, <1>5 DEF Next

-----------------------------------------------------------------------------
(* What a step keeps                                                        *)

\* Names borne and recordings made are never forgotten, and a history row never
\* changes nor gives its id to another.
Grows ==
  /\ \A i \in Ids : borne[i] \subseteq borne'[i]
  /\ recorded \subseteq recorded'
  /\ \A h \in DOMAIN history' : (h \in DOMAIN history /\ history'[h] = history[h]) \/ h > lastQuery

\* No step takes any of it back.
LEMMA GrowsStep ==
  ASSUME TypeOK, NamesBorne, [Next]_vars
  PROVE  Grows
<1>1. ASSUME NEW n \in Names, Add(n) PROVE Grows
  <2>1. lastConn' \in Ids /\ lastConn' > lastConn
    BY <1>1, BoundsAssumption DEF Add, TypeOK, RowsOK, Ids
  <2>2. borne[lastConn'] = {}
    BY <2>1 DEF NamesBorne
  <2>3. \A i \in Ids : borne[i] \subseteq borne'[i]
    BY <1>1, <2>2 DEF Add, TypeOK, GhostsOK
  <2>4. QED
    BY <1>1, <2>3 DEF Add, Grows
<1>2. ASSUME NEW c \in Clis, Delete(c) PROVE Grows
  <2>1. UNCHANGED <<borne, recorded>>
    BY <1>2 DEF Delete, ghosts
  <2>2. \A h \in DOMAIN history' : h \in DOMAIN history /\ history'[h] = history[h]
    BY <1>2 DEF Delete, Without
  <2>3. QED
    BY <2>1, <2>2 DEF Grows
<1>3. ASSUME NEW c \in Clis, Rename(c) PROVE Grows
  <2>1. \A i \in Ids : borne[i] \subseteq borne'[i]
    BY <1>3 DEF Rename, TypeOK, GhostsOK
  <2>2. QED
    BY <1>3, <2>1 DEF Rename, Grows
<1>4. ASSUME NEW s \in Shells, NEW q \in Queries, RecordHistory(s, q) PROVE Grows
  <2>1. UNCHANGED borne
    BY <1>4 DEF RecordHistory
  <2>2. PICK h \in DOMAIN history' :
          /\ DOMAIN history' = DOMAIN history \union {h}
          /\ \A g \in DOMAIN history : history'[g] = history[g]
          /\ h \in DOMAIN history \/ h > lastQuery
          /\ recorded \subseteq recorded'
    BY <1>4, RecordHistoryRow
  <2>3. QED
    BY <2>1, <2>2 DEF Grows
<1>5. ASSUME UNCHANGED <<history, borne, recorded>> PROVE Grows
  BY <1>5 DEF Grows
<1>6. ASSUME NEW c \in Clis,
             GetRow(c) \/ Update(c) \/ CommandFails(c) \/ \E n \in Names, j \in Commands : Command(c, n, j)
      PROVE  UNCHANGED <<history, borne, recorded>>
  BY <1>6 DEF GetRow, Update, CommandFails, Command, LookUp, rows, ghosts
<1>7. ASSUME NEW s \in Shells,
             \/ RecordAccess(s) \/ Recorded(s) \/ FindEntry(s)
             \/ \E n \in Names : Open(s, n)
             \/ \E n \in SavedNames : Save(s, n) \/ Unsave(s, n)
      PROVE  UNCHANGED <<history, borne, recorded>>
  BY <1>7 DEF RecordAccess, Recorded, FindEntry, Open, LookUp, Save, Unsave, rows, ghosts
<1>8. ASSUME NEW p \in Procs, Leave(p) PROVE UNCHANGED <<history, borne, recorded>>
  BY <1>8 DEF Leave, rows, ghosts
<1>9. CASE UNCHANGED vars
  BY <1>5, <1>9 DEF vars, rows, ghosts
<1>10. QED
  BY <1>1, <1>2, <1>3, <1>4, <1>5, <1>6, <1>7, <1>8, <1>9 DEF Next, CliStep, ShellStep

\* A process keeps its connection for as long as it has one.
LEMMA ProcessFrame ==
  ASSUME ProcsOK, NEW p \in Procs, [Next]_vars, pc'[p] # "idle"
  PROVE  \/ pc[p] # "idle" /\ using'[p] = using[p] /\ target'[p] = target[p]
         \/ \E n \in Names, state \in States : \E j : LookUp(p, n, state, j)
<1>1. ASSUME NEW q \in Procs, NEW state, NEW j, Then(q, state, j), pc[q] # "idle"
      PROVE  pc[p] # "idle" /\ using'[p] = using[p] /\ target'[p] = target[p]
  BY <1>1 DEF Then, ProcsOK
<1>2. ASSUME NEW q \in Procs, Forget(q)
      PROVE  pc[p] # "idle" /\ using'[p] = using[p] /\ target'[p] = target[p]
  BY <1>2 DEF Forget, ProcsOK
<1>3. ASSUME NEW q \in Procs, NEW n \in Names, NEW state \in States, NEW j, LookUp(q, n, state, j)
      PROVE  \/ pc[p] # "idle" /\ using'[p] = using[p] /\ target'[p] = target[p]
             \/ LookUp(p, n, state, j)
  BY <1>3 DEF LookUp, ProcsOK
<1>4. ASSUME UNCHANGED procs
      PROVE  pc[p] # "idle" /\ using'[p] = using[p] /\ target'[p] = target[p]
  BY <1>4 DEF procs
<1>5. ASSUME NEW c \in Clis, CliStep(c)
      PROVE  \/ Forget(c) \/ \E state, j : Then(c, state, j) /\ pc[c] # "idle"
             \/ \E n \in Names, j \in Commands : LookUp(c, n, "found", j)
  BY <1>5 DEF CliStep, Command, Delete, Rename, GetRow, Update, CommandFails
<1>6. ASSUME NEW s \in Shells, ShellStep(s)
      PROVE  \/ UNCHANGED procs \/ \E state, j : Then(s, state, j) /\ pc[s] # "idle"
             \/ \E n \in Names : LookUp(s, n, "ready", Nothing)
  <2>1. CASE \E n \in Names : Open(s, n)
    BY <2>1 DEF Open
  <2>2. ASSUME NEW q \in Queries, RecordHistory(s, q)
        PROVE  \E state, j : Then(s, state, j) /\ pc[s] # "idle"
    BY <2>2 DEF RecordHistory
  <2>3. CASE RecordAccess(s) \/ Recorded(s) \/ FindEntry(s)
    BY <2>3 DEF RecordAccess, Recorded, FindEntry
  <2>4. CASE \E n \in SavedNames : Save(s, n) \/ Unsave(s, n)
    BY <2>4 DEF Save, Unsave
  <2>5. QED
    BY <1>6, <2>1, <2>2, <2>3, <2>4 DEF ShellStep
<1>7. "found" \in States /\ "ready" \in States /\ Clis \subseteq Procs /\ Shells \subseteq Procs
  BY DEF States, Procs
<1>8. QED
  BY <1>1, <1>2, <1>3, <1>4, <1>5, <1>6, <1>7 DEF Next, Add, Leave, vars

\* Every name that is in use, by a connection or by a process, has been borne.
LEMMA NamesStep ==
  ASSUME TypeOK, NamesBorne, [Next]_vars
  PROVE  NamesBorne'
<1>1. Grows /\ TypeOK' /\ IdsGrow
  BY TypeStep, GrowsStep
<1>2. ASSUME NEW p \in Procs, pc'[p] # "idle"
      PROVE  target'[p] \in Ids /\ using'[p] \in borne'[target'[p]]
  <2>1. CASE pc[p] # "idle" /\ using'[p] = using[p] /\ target'[p] = target[p]
    <3>1. PICK i \in Ids : i = target[p] /\ using[p] \in borne[i]
      BY <2>1 DEF NamesBorne
    <3>2. target'[p] = i /\ using[p] \in borne'[i]
      BY <1>1, <2>1, <3>1 DEF Grows
    <3>3. QED
      BY <2>1, <3>2
  <2>2. ASSUME NEW n \in Names, NEW state \in States, NEW j, LookUp(p, n, state, j)
        PROVE  target'[p] \in Ids /\ using'[p] \in borne'[target'[p]]
    <3>1. PICK i \in Found(n) : using' = [using EXCEPT ![p] = conns[i].name]
                                /\ target' = [target EXCEPT ![p] = i]
      BY <2>2 DEF LookUp
    <3>2. i \in DOMAIN conns /\ i \in Ids
      BY FoundIsConnection, BoundsAssumption DEF TypeOK, RowsOK, Ids
    <3>3. target'[p] = i /\ using'[p] = conns[i].name
      BY <3>1 DEF TypeOK, ProcsOK
    <3>4. conns[i].name \in borne[i] /\ borne' = borne
      BY <2>2, <3>2 DEF NamesBorne, LookUp, ghosts
    <3>5. QED
      BY <3>2, <3>3, <3>4
  <2>3. QED
    BY <1>2, <2>1, <2>2, ProcessFrame DEF TypeOK
<1>3. ASSUME NEW i \in DOMAIN conns, i \in DOMAIN conns', conns'[i].name = conns[i].name
      PROVE  conns'[i].name \in borne'[i]
  <2>1. i \in Ids
    BY BoundsAssumption DEF TypeOK, RowsOK, Ids
  <2>2. QED
    BY <1>1, <1>3, <2>1 DEF NamesBorne, Grows
<1>4. ASSUME UNCHANGED <<conns, lastConn, borne>>
      PROVE  /\ \A i \in DOMAIN conns' : conns'[i].name \in borne'[i]
             /\ \A i \in Ids : i > lastConn' => borne'[i] = {}
  BY <1>4 DEF NamesBorne
<1>5. ASSUME NEW n \in Names, Add(n)
      PROVE  /\ \A i \in DOMAIN conns' : conns'[i].name \in borne'[i]
             /\ \A i \in Ids : i > lastConn' => borne'[i] = {}
  <2>1. lastConn' = lastConn + 1 /\ lastConn' \in Ids /\ lastConn \in Nat
    BY <1>5, BoundsAssumption DEF Add, TypeOK, RowsOK, Ids
  <2>2. /\ DOMAIN conns' = DOMAIN conns \union {lastConn'}
        /\ conns'[lastConn'].name = n
        /\ \A i \in DOMAIN conns : i # lastConn' => conns'[i] = conns[i]
    BY <1>5 DEF Add, With
  <2>3. borne'[lastConn'] = {n} /\ \A i \in Ids : i # lastConn' => borne'[i] = borne[i]
    BY <1>5, <2>1 DEF Add, TypeOK, GhostsOK
  <2>4. \A i \in DOMAIN conns' : conns'[i].name \in borne'[i]
    BY <1>3, <2>2, <2>3
  <2>5. \A i \in Ids : i > lastConn' => borne'[i] = {}
    <3> SUFFICES ASSUME NEW i \in Ids, i > lastConn' PROVE borne'[i] = {}
      OBVIOUS
    <3>1. i > lastConn /\ i # lastConn'
      BY <2>1 DEF Ids
    <3>2. QED
      BY <2>3, <3>1 DEF NamesBorne
  <2>6. QED
    BY <2>4, <2>5
<1>6. ASSUME NEW c \in Clis, Delete(c)
      PROVE  /\ \A i \in DOMAIN conns' : conns'[i].name \in borne'[i]
             /\ \A i \in Ids : i > lastConn' => borne'[i] = {}
  <2>1. \A i \in DOMAIN conns' : i \in DOMAIN conns /\ conns'[i] = conns[i]
    BY <1>6 DEF Delete, Without
  <2>2. UNCHANGED <<lastConn, borne>>
    BY <1>6 DEF Delete, ghosts
  <2>3. QED
    BY <1>3, <2>1, <2>2 DEF NamesBorne
<1>7. ASSUME NEW c \in Clis, Rename(c)
      PROVE  /\ \A i \in DOMAIN conns' : conns'[i].name \in borne'[i]
             /\ \A i \in Ids : i > lastConn' => borne'[i] = {}
  <2>1. PICK t \in Target(c) :
          /\ conns' = [conns EXCEPT ![t].name = job[c].to]
          /\ borne' = [borne EXCEPT ![t] = @ \union {job[c].to}]
    BY <1>7 DEF Rename
  <2>2. t \in DOMAIN conns /\ t \in Ids /\ t <= lastConn /\ lastConn' = lastConn
    BY <1>7, BoundsAssumption DEF Rename, Target, Named, TypeOK, RowsOK, Ids
  <2>3. conns'[t].name = job[c].to /\ \A i \in DOMAIN conns : i # t => conns'[i] = conns[i]
    BY <2>1, <2>2 DEF TypeOK, RowsOK
  <2>4. job[c].to \in borne'[t] /\ \A i \in Ids : i # t => borne'[i] = borne[i]
    BY <2>1, <2>2 DEF TypeOK, GhostsOK
  <2>5. DOMAIN conns' = DOMAIN conns
    BY <2>1
  <2>6. \A i \in DOMAIN conns' : conns'[i].name \in borne'[i]
    BY <1>3, <2>3, <2>4, <2>5
  <2>7. \A i \in Ids : i > lastConn' => borne'[i] = {}
    BY <2>2, <2>4 DEF NamesBorne, TypeOK, RowsOK, Ids
  <2>8. QED
    BY <2>6, <2>7
<1>8. ASSUME NEW c \in Clis, Update(c)
      PROVE  /\ \A i \in DOMAIN conns' : conns'[i].name \in borne'[i]
             /\ \A i \in Ids : i > lastConn' => borne'[i] = {}
  <2>1. DOMAIN conns' = DOMAIN conns /\ \A i \in DOMAIN conns : conns'[i].name = conns[i].name
    BY <1>8 DEF Update, TypeOK, RowsOK
  <2>2. UNCHANGED <<lastConn, borne>>
    BY <1>8 DEF Update, ghosts
  <2>3. QED
    BY <1>3, <2>1, <2>2 DEF NamesBorne
<1>9. ASSUME NEW c \in Clis,
             GetRow(c) \/ CommandFails(c) \/ \E n \in Names, j \in Commands : Command(c, n, j)
      PROVE  UNCHANGED <<conns, lastConn, borne>>
  BY <1>9 DEF GetRow, CommandFails, Command, LookUp, rows, ghosts
<1>10. ASSUME NEW s \in Shells, ShellStep(s) PROVE UNCHANGED <<conns, lastConn, borne>>
  BY <1>10 DEF ShellStep, RecordHistory, RecordAccess, Recorded, FindEntry, Open, LookUp, Save,
     Unsave, rows, ghosts
<1>11. ASSUME NEW p \in Procs, Leave(p) PROVE UNCHANGED <<conns, lastConn, borne>>
  BY <1>11 DEF Leave, rows, ghosts
<1>12. CASE UNCHANGED vars
  BY <1>4, <1>2, <1>12 DEF NamesBorne, vars, rows, ghosts
<1>13. /\ \A i \in DOMAIN conns' : conns'[i].name \in borne'[i]
       /\ \A i \in Ids : i > lastConn' => borne'[i] = {}
  BY <1>4, <1>5, <1>6, <1>7, <1>8, <1>9, <1>10, <1>11, <1>12 DEF Next, CliStep, vars, rows, ghosts
<1>14. QED
  BY <1>2, <1>13 DEF NamesBorne

\* A process records or saves on, or has just begun to.
AtHand(p) ==
  /\ pc'[p] = "recording" =>
       \/ pc[p] = "recording" /\ using'[p] = using[p] /\ job'[p].query = job[p].query
       \/ p \in Shells /\ \E q \in Queries : RecordHistory(p, q)
  /\ pc'[p] = "saving" =>
       \/ pc[p] = "saving" /\ using'[p] = using[p] /\ job'[p] = job[p]
       \/ p \in Shells /\ FindEntry(p)

\* No step begins a recording or a save in another way.
LEMMA AtHandStep ==
  ASSUME ProcsOK, NEW p \in Procs, [Next]_vars
  PROVE  AtHand(p)
<1>1. ASSUME NEW q \in Procs, NEW state, NEW j, Then(q, state, j), p # q \/ state = "ready" \/ state = "editing"
      PROVE  AtHand(p)
  BY <1>1 DEF Then, ProcsOK, AtHand
<1>2. ASSUME NEW q \in Procs, Forget(q) PROVE AtHand(p)
  BY <1>2 DEF Forget, ProcsOK, AtHand
<1>3. ASSUME NEW q \in Procs, NEW n \in Names, NEW j, LookUp(q, n, "found", j) \/ LookUp(q, n, "ready", j)
      PROVE  AtHand(p)
  BY <1>3 DEF LookUp, ProcsOK, AtHand
<1>4. ASSUME UNCHANGED procs PROVE AtHand(p)
  BY <1>4 DEF procs, AtHand
<1>5. ASSUME NEW c \in Clis, CliStep(c) PROVE AtHand(p)
  <2>1. \/ Forget(c) \/ \E j : Then(c, "editing", j)
        \/ \E n \in Names, j \in Commands : LookUp(c, n, "found", j)
    BY <1>5 DEF CliStep, Command, Delete, Rename, GetRow, Update, CommandFails
  <2>2. QED
    BY <1>1, <1>2, <1>3, <2>1 DEF Procs
<1>6. ASSUME NEW s \in Shells, ShellStep(s) PROVE AtHand(p)
  <2>1. CASE \E n \in Names : Open(s, n)
    BY <1>3, <2>1 DEF Open, Procs
  <2>2. ASSUME NEW q \in Queries, RecordHistory(s, q) PROVE AtHand(p)
    <3>1. \E j : Then(s, "recording", j)
      BY <2>2 DEF RecordHistory
    <3>2. CASE p # s
      BY <1>1, <3>1, <3>2 DEF Procs
    <3>3. CASE p = s
      <4>1. pc'[p] = "recording" /\ p \in Shells /\ \E r \in Queries : RecordHistory(p, r)
        BY <2>2, <3>1, <3>3 DEF Then, ProcsOK
      <4>2. QED
        BY <4>1 DEF AtHand
    <3>4. QED
      BY <3>2, <3>3
  <2>3. ASSUME RecordAccess(s) PROVE AtHand(p)
    <3>1. PICK r : Then(s, "recording", WithoutRef(job[s], r)) /\ pc[s] = "recording"
      BY <2>3 DEF RecordAccess
    <3>2. CASE p # s
      BY <1>1, <3>1, <3>2 DEF Procs
    <3>3. CASE p = s
      <4>1. job[p] \in [op : {"record"}, query : 1..lastQuery, refs : SUBSET Refs]
        BY <3>1, <3>3 DEF ProcsOK, JobsIn
      <4>2. WithoutRef(job[p], r).query = job[p].query
        BY <4>1 DEF WithoutRef
      <4>3. pc'[p] = "recording" /\ using'[p] = using[p] /\ job'[p] = WithoutRef(job[p], r)
        BY <3>1, <3>3 DEF Then, ProcsOK
      <4>4. QED
        BY <3>1, <3>3, <4>2, <4>3 DEF AtHand
    <3>4. QED
      BY <3>2, <3>3
  <2>4. ASSUME FindEntry(s) PROVE AtHand(p)
    <3>1. \E j : Then(s, "saving", j)
      BY <2>4 DEF FindEntry
    <3>2. CASE p # s
      BY <1>1, <3>1, <3>2 DEF Procs
    <3>3. CASE p = s
      <4>1. pc'[p] = "saving" /\ p \in Shells /\ FindEntry(p)
        BY <2>4, <3>1, <3>3 DEF Then, ProcsOK
      <4>2. QED
        BY <4>1 DEF AtHand
    <3>4. QED
      BY <3>2, <3>3
  <2>5. CASE Recorded(s) \/ \E n \in SavedNames : Save(s, n)
    <3>1. Then(s, "ready", Nothing)
      BY <2>5 DEF Recorded, Save
    <3>2. QED
      BY <1>1, <3>1 DEF Procs
  <2>6. CASE \E n \in SavedNames : Unsave(s, n)
    BY <1>4, <2>6 DEF Unsave
  <2>7. QED
    BY <1>6, <2>1, <2>2, <2>3, <2>4, <2>5, <2>6 DEF ShellStep
<1>7. QED
  BY <1>2, <1>4, <1>5, <1>6 DEF Next, Add, Leave, vars

\* A history row that is there after a step was there before it, or is the one
\* that the step records.
LEMMA HistoryRunStep ==
  ASSUME TypeOK, NamesBorne, HistoryRun, [Next]_vars
  PROVE  HistoryRun'
<1>1. Grows
  BY GrowsStep
<1>2. ASSUME NEW s \in Shells, NEW q \in Queries, RecordHistory(s, q) PROVE HistoryRun'
  <2>1. PICK i \in ConnectionId(s), h \in DOMAIN history' :
          /\ history'[h] = [conn |-> i, query |-> q]
          /\ recorded' = recorded \union {<<target[s], i, q>>}
          /\ DOMAIN history' = DOMAIN history \union {h}
          /\ \A g \in DOMAIN history : history'[g] = history[g]
    BY <1>2, RecordHistoryRow
  <2>2. ASSUME NEW g \in DOMAIN history', g # h
        PROVE  \E r \in recorded' : r[2] = history'[g].conn /\ r[3] = history'[g].query
    <3>1. g \in DOMAIN history /\ history'[g] = history[g]
      BY <2>1, <2>2
    <3>2. PICK r \in recorded : r[2] = history[g].conn /\ r[3] = history[g].query
      BY <3>1 DEF HistoryRun
    <3>3. QED
      BY <2>1, <3>1, <3>2
  <2>3. \E r \in recorded' : r[2] = history'[h].conn /\ r[3] = history'[h].query
    <3>1. <<target[s], i, q>> \in recorded'
      BY <2>1
    <3>2. <<target[s], i, q>>[2] = history'[h].conn /\ <<target[s], i, q>>[3] = history'[h].query
      BY <2>1
    <3>3. QED
      BY <3>1, <3>2
  <2>4. QED
    BY <2>2, <2>3 DEF HistoryRun
<1>3. ASSUME \A h \in DOMAIN history' : h \in DOMAIN history /\ history'[h] = history[h]
      PROVE  HistoryRun'
  BY <1>1, <1>3 DEF HistoryRun, Grows
<1>4. ASSUME NEW c \in Clis, Delete(c) PROVE HistoryRun'
  BY <1>3, <1>4 DEF Delete, Without
<1>5. ASSUME UNCHANGED history PROVE HistoryRun'
  BY <1>3, <1>5
<1>6. ASSUME NEW c \in Clis,
             \/ Rename(c) \/ GetRow(c) \/ Update(c) \/ CommandFails(c)
             \/ \E n \in Names, j \in Commands : Command(c, n, j)
      PROVE  UNCHANGED history
  BY <1>6 DEF Rename, GetRow, Update, CommandFails, Command, LookUp, rows
<1>7. ASSUME NEW s \in Shells,
             \/ RecordAccess(s) \/ Recorded(s) \/ FindEntry(s)
             \/ \E n \in Names : Open(s, n)
             \/ \E n \in SavedNames : Save(s, n) \/ Unsave(s, n)
      PROVE  UNCHANGED history
  BY <1>7 DEF RecordAccess, Recorded, FindEntry, Open, LookUp, Save, Unsave, rows
<1>8. QED
  BY <1>2, <1>4, <1>5, <1>6, <1>7 DEF Next, CliStep, ShellStep, Add, Leave, vars, rows

\* A connection that was open when a row was written has borne the name.
LEMMA ConnectionHasBorne ==
  ASSUME TypeOK, NamesBorne, NEW s \in Procs, NEW i \in ConnectionId(s)
  PROVE  i \in Ids /\ using[s] \in borne[i]
<1>1. i \in DOMAIN conns /\ conns[i].name = using[s]
  BY DEF ConnectionId, Named
<1>2. QED
  BY <1>1, BoundsAssumption DEF TypeOK, RowsOK, NamesBorne, Ids

\* A shell records under a connection that has borne its name.
LEMMA RecordsOwnStep ==
  ASSUME TypeOK, NamesBorne, RecordsOwn, [Next]_vars
  PROVE  RecordsOwn'
<1> SUFFICES ASSUME NEW p \in Procs, pc'[p] = "recording", job'[p].query \in DOMAIN history'
             PROVE  using'[p] \in borne'[history'[job'[p].query].conn]
  BY DEF RecordsOwn
<1>1. Grows /\ AtHand(p)
  BY GrowsStep, AtHandStep DEF TypeOK
<1>2. CASE pc[p] = "recording" /\ using'[p] = using[p] /\ job'[p].query = job[p].query
  <2>1. PICK h : h = job[p].query /\ h = job'[p].query
    BY <1>2
  <2>2. h \in 1..lastQuery /\ lastQuery \in Nat
    BY <1>2, <2>1 DEF TypeOK, RowsOK, ProcsOK, JobsIn
  <2>3. h \in DOMAIN history /\ history'[h] = history[h]
    BY <1>1, <2>1, <2>2 DEF Grows
  <2>4. PICK i \in Ids : i = history[h].conn
    BY <2>3, BoundsAssumption DEF TypeOK, RowsOK, Ids
  <2>5. using[p] \in borne[i]
    BY <1>2, <2>1, <2>3, <2>4 DEF RecordsOwn
  <2>6. using[p] \in borne'[i]
    BY <1>1, <2>4, <2>5 DEF Grows
  <2>7. QED
    BY <1>2, <2>1, <2>3, <2>4, <2>6
<1>3. ASSUME p \in Shells, NEW q \in Queries, RecordHistory(p, q)
      PROVE  using'[p] \in borne'[history'[job'[p].query].conn]
  <2>1. PICK i \in ConnectionId(p), h \in DOMAIN history' :
          /\ history'[h] = [conn |-> i, query |-> q]
          /\ Then(p, "recording", [op |-> "record", query |-> h, refs |-> RefsOf[q]])
    BY <1>3, RecordHistoryRow
  <2>2. using'[p] = using[p] /\ job'[p].query = h
    BY <2>1 DEF Then, TypeOK, ProcsOK
  <2>3. using[p] \in borne[i] /\ borne' = borne
    BY <1>3, <2>1, ConnectionHasBorne DEF RecordHistory
  <2>4. QED
    BY <2>1, <2>2, <2>3
<1>4. QED
  BY <1>1, <1>2, <1>3 DEF AtHand

\* And saves what was run on one.
LEMMA SavesOwnStep ==
  ASSUME TypeOK, NamesBorne, HistoryRun, SavesOwn, [Next]_vars
  PROVE  SavesOwn'
<1> SUFFICES ASSUME NEW p \in Procs, pc'[p] = "saving"
             PROVE  \E r \in recorded' : r[3] = job'[p].sql /\ using'[p] \in borne'[r[2]]
  BY DEF SavesOwn
<1>1. Grows /\ AtHand(p)
  BY GrowsStep, AtHandStep DEF TypeOK
<1>2. ASSUME NEW r \in recorded, NEW n \in borne[r[2]] PROVE r \in recorded' /\ n \in borne'[r[2]]
  <2>1. r[2] \in Ids
    BY DEF TypeOK, GhostsOK
  <2>2. QED
    BY <1>1, <2>1 DEF Grows
<1>3. CASE pc[p] = "saving" /\ using'[p] = using[p] /\ job'[p] = job[p]
  <2>1. PICK r \in recorded : r[3] = job[p].sql /\ using[p] \in borne[r[2]]
    BY <1>3 DEF SavesOwn
  <2>2. QED
    BY <1>2, <1>3, <2>1
<1>4. CASE FindEntry(p)
  <2>1. PICK h \in Entries(p) : Then(p, "saving", [op |-> "save", sql |-> history[h].query])
    BY <1>4 DEF FindEntry
  <2>2. h \in DOMAIN history /\ history[h].conn \in ConnectionId(p)
    BY <2>1 DEF Entries
  <2>3. PICK r \in recorded : r[2] = history[h].conn /\ r[3] = history[h].query
    BY <2>2 DEF HistoryRun
  <2>4. using[p] \in borne[r[2]]
    BY <2>2, <2>3, ConnectionHasBorne
  <2>5. using'[p] = using[p] /\ job'[p].sql = history[h].query
    BY <2>1 DEF Then, TypeOK, ProcsOK
  <2>6. QED
    BY <1>2, <2>3, <2>4, <2>5
<1>5. QED
  BY <1>1, <1>3, <1>4 DEF AtHand

\* What two connections have shared they share for ever.
LEMMA NamesakesGrow ==
  ASSUME Grows, NEW i \in Ids, NEW j \in Ids, Namesakes(i, j)
  PROVE  Namesakes(i, j)'
BY DEF Grows, Namesakes

\* The access rows of an entry are those of its query.
LEMMA AccessStep ==
  ASSUME IInv, [Next]_vars
  PROVE  AccessMatchesQuery'
<1>1. TypeOK /\ NamesBorne /\ TypeOK' /\ Grows
  BY TypeStep, GrowsStep DEF IInv
<1> SUFFICES ASSUME NEW a \in access'
             PROVE  \/ history'[a.query].conn = a.conn
                    \/ Namesakes(a.conn, history[a.query].conn)'
  BY DEF AccessMatchesQuery
<1>2. CASE a \in access
  <2>1. /\ a.query \in DOMAIN history /\ a.query \in DOMAIN history'
        /\ a.conn \in Ids /\ history[a.query].conn \in Ids
    BY <1>1, <1>2, BoundsAssumption DEF TypeOK, RowsOK, Ids
  <2>2. history'[a.query] = history[a.query]
    BY <1>1, <2>1 DEF Grows, TypeOK, RowsOK
  <2>3. history[a.query].conn = a.conn \/ Namesakes(a.conn, history[a.query].conn)
    BY <1>2 DEF IInv, AccessMatchesQuery
  <2>4. PICK h \in Ids : h = history[a.query].conn
    BY <2>1
  <2>5. h = a.conn \/ Namesakes(a.conn, h)'
    BY <1>1, <2>1, <2>3, <2>4, NamesakesGrow
  <2>6. QED
    BY <2>2, <2>4, <2>5
<1>3. ASSUME NEW s \in Shells, RecordAccess(s), a \notin access
      PROVE  Namesakes(a.conn, history[a.query].conn)'
  <2>1. s \in Procs /\ pc[s] = "recording" /\ UNCHANGED <<history, borne>>
    BY <1>3 DEF RecordAccess, Procs, ghosts
  <2>2. PICK r \in job[s].refs, i \in ConnectionId(s) :
          /\ job[s].query \in DOMAIN history
          /\ access' = access \union {[conn |-> i, ref |-> r, query |-> job[s].query]}
    BY <1>3 DEF RecordAccess
  <2>3. a = [conn |-> i, ref |-> r, query |-> job[s].query]
    BY <1>3, <2>2
  <2>4. using[s] \in borne[i]
    BY <1>1, <2>1, ConnectionHasBorne
  <2>5. using[s] \in borne[history[job[s].query].conn]
    BY <2>1, <2>2 DEF IInv, RecordsOwn
  <2>6. Namesakes(i, history[job[s].query].conn)
    BY <2>4, <2>5 DEF Namesakes
  <2>7. Namesakes(a.conn, history[a.query].conn)
    BY <2>3, <2>6
  <2>8. QED
    BY <2>1, <2>7 DEF Namesakes
<1>4. access' \subseteq access \/ \E s \in Shells : RecordAccess(s)
  <2>1. ASSUME NEW c \in Clis, CliStep(c) PROVE access' \subseteq access
    BY <2>1 DEF CliStep, Command, LookUp, Delete, Rename, GetRow, Update, CommandFails, rows
  <2>2. ASSUME NEW s \in Shells, ShellStep(s) PROVE access' = access \/ RecordAccess(s)
    BY <2>2 DEF ShellStep, Open, LookUp, RecordHistory, Recorded, FindEntry, Save, Unsave, rows
  <2>3. CASE UNCHANGED access
    BY <2>3
  <2>4. QED
    BY <2>1, <2>2, <2>3 DEF Next, Add, Leave, vars, rows
<1>5. QED
  BY <1>2, <1>3, <1>4

\* What is saved was run on a connection of that name.
LEMMA SavedStep ==
  ASSUME IInv, [Next]_vars
  PROVE  SavedWasRun'
<1>1. TypeOK /\ NamesBorne /\ Grows
  BY GrowsStep DEF IInv
<1> SUFFICES ASSUME NEW x \in saved'
             PROVE  \E r \in recorded' : r[3] = x.sql /\ (r[2] = x.conn \/ Namesakes(r[2], x.conn)')
  BY DEF SavedWasRun
<1>2. CASE x \in saved
  <2>1. PICK r \in recorded : r[3] = x.sql /\ (r[2] = x.conn \/ Namesakes(r[2], x.conn))
    BY <1>2 DEF IInv, SavedWasRun
  <2>2. r[2] \in Ids /\ x.conn \in Ids /\ r \in recorded'
    BY <1>1, <1>2, <2>1, BoundsAssumption DEF TypeOK, RowsOK, GhostsOK, Ids, Grows
  <2>3. QED
    BY <1>1, <2>1, <2>2, NamesakesGrow
<1>3. ASSUME NEW s \in Shells, NEW n \in SavedNames, Save(s, n), x \notin saved
      PROVE  \E r \in recorded' : r[3] = x.sql /\ (r[2] = x.conn \/ Namesakes(r[2], x.conn)')
  <2>1. s \in Procs /\ pc[s] = "saving" /\ UNCHANGED <<borne, recorded>>
    BY <1>3 DEF Save, Procs, ghosts
  <2>2. PICK i \in ConnectionId(s) : x = [conn |-> i, name |-> n, sql |-> job[s].sql]
    BY <1>3 DEF Save
  <2>3. using[s] \in borne[i]
    BY <1>1, <2>1, ConnectionHasBorne
  <2>4. PICK r \in recorded : r[3] = job[s].sql /\ using[s] \in borne[r[2]]
    BY <2>1 DEF IInv, SavesOwn
  <2>5. Namesakes(r[2], i)'
    BY <2>1, <2>3, <2>4 DEF Namesakes
  <2>6. QED
    BY <2>1, <2>2, <2>4, <2>5
<1>4. saved' \subseteq saved \/ \E s \in Shells, n \in SavedNames : Save(s, n)
  <2>1. ASSUME NEW c \in Clis, CliStep(c) PROVE saved' \subseteq saved
    BY <2>1 DEF CliStep, Command, LookUp, Delete, Rename, GetRow, Update, CommandFails, rows
  <2>2. ASSUME NEW s \in Shells, ShellStep(s)
        PROVE  saved' \subseteq saved \/ \E n \in SavedNames : Save(s, n)
    BY <2>2 DEF ShellStep, Open, LookUp, RecordHistory, RecordAccess, Recorded, FindEntry, Unsave, rows
  <2>3. CASE UNCHANGED saved
    BY <2>3
  <2>4. QED
    BY <2>1, <2>2, <2>3 DEF Next, Add, Leave, vars, rows
<1>5. QED
  BY <1>2, <1>3, <1>4

-----------------------------------------------------------------------------
(* The theorems                                                             *)

\* The invariant holds of the empty store.
LEMMA InitIInv == Init => IInv
<1> SUFFICES ASSUME Init PROVE IInv
  OBVIOUS
<1>1. RowsOK
  BY BoundsAssumption DEF Init, RowsOK
<1>2. ProcsOK
  <2>1. \A p \in Procs : job[p] = Nothing /\ pc[p] = "idle"
    BY DEF Init
  <2>2. Nothing \in JobsIn("idle", lastQuery)
    BY DEF JobsIn
  <2>3. DOMAIN job = Procs /\ pc \in [Procs -> States]
    BY DEF Init, States
  <2>4. using \in [Procs -> Names \union {NoName}] /\ target \in [Procs -> 0..lastConn]
    BY DEF Init
  <2>5. QED
    BY <2>1, <2>2, <2>3, <2>4 DEF ProcsOK
<1>3. GhostsOK
  BY DEF Init, GhostsOK
<1>4. NamesBorne
  BY DEF Init, NamesBorne
<1>5. HistoryRun /\ RecordsOwn /\ SavesOwn
  BY DEF Init, HistoryRun, RecordsOwn, SavesOwn
<1>6. AccessMatchesQuery /\ SavedWasRun
  BY DEF Init, AccessMatchesQuery, SavedWasRun
<1>7. QED
  BY <1>1, <1>2, <1>3, <1>4, <1>5, <1>6 DEF IInv, TypeOK

\* Every step preserves the invariant.
LEMMA NextIInv == IInv /\ [Next]_vars => IInv'
BY TypeStep, NamesStep, HistoryRunStep, RecordsOwnStep, SavesOwnStep, AccessStep, SavedStep DEF IInv

\* The inductive invariant: every name in use has been borne, every history row
\* was recorded, and what a shell has in hand is of a connection that has borne
\* the name the shell goes by.
THEOREM InductiveInvariant == Spec => []IInv
BY InitIInv, NextIInv, PTL DEF Spec

\* record_query resolves the name anew for the history row and for every access
\* row: whatever adds, renames and deletes come in between, and whatever fails,
\* the rows are of one connection, or of two that have borne the same name.
THEOREM AccessesMatch == Spec => []AccessMatchesQuery
<1>1. IInv => AccessMatchesQuery
  BY DEF IInv
<1>2. QED
  BY <1>1, InductiveInvariant, PTL

\* \save never stores a text that was not run on the connection, or a namesake,
\* although the entry is read by one statement and inserted by another.
THEOREM SavedQueriesWereRun == Spec => []SavedWasRun
<1>1. IInv => SavedWasRun
  BY DEF IInv
<1>2. QED
  BY <1>1, InductiveInvariant, PTL

-----------------------------------------------------------------------------
(* The commands                                                             *)

\* Command c ends in this step, and connection i is the one that it has looked
\* up or a namesake.
EndsOn(c, i) ==
  /\ pc[c] \in {"found", "editing"} /\ pc'[c] = "idle"
  /\ i = target[c] \/ Namesakes(i, target[c])

\* What a command ends on is the connection it found, or another that bore its name.
LEMMA TargetIsNamesake ==
  ASSUME TypeOK, NamesBorne, NEW c \in Clis, NEW i \in Target(c),
         pc[c] \in {"found", "editing"}, Forget(c)
  PROVE  EndsOn(c, i)
<1>1. c \in Procs /\ i \in ConnectionId(c)
  BY DEF Procs, Target, ConnectionId
<1>2. using[c] \in borne[i] /\ using[c] \in borne[target[c]]
  BY <1>1, ConnectionHasBorne DEF NamesBorne
<1>3. pc'[c] = "idle"
  BY <1>1 DEF Forget, TypeOK, ProcsOK
<1>4. QED
  BY <1>2, <1>3 DEF EndsOn, Namesakes

\* The only steps that change connections: the rest of this section is about
\* them.
LEMMA ConnsFrame ==
  ASSUME [Next]_vars
  PROVE  \/ conns' = conns
         \/ \E n \in Names : Add(n)
         \/ \E c \in Clis : Delete(c) \/ Rename(c) \/ Update(c)
<1>1. ASSUME NEW c \in Clis, CliStep(c)
      PROVE  conns' = conns \/ Delete(c) \/ Rename(c) \/ Update(c)
  BY <1>1 DEF CliStep, Command, LookUp, GetRow, CommandFails, rows
<1>2. ASSUME NEW s \in Shells, ShellStep(s) PROVE conns' = conns
  BY <1>2 DEF ShellStep, Open, LookUp, RecordHistory, RecordAccess, Recorded, FindEntry, Save,
     Unsave, rows
<1>3. QED
  BY <1>1, <1>2 DEF Next, Leave, vars, rows

\* A new connection leaves the others as they are.
LEMMA AddKeeps ==
  ASSUME TypeOK, NEW n \in Names, Add(n), NEW i \in DOMAIN conns
  PROVE  i \in DOMAIN conns' /\ conns'[i] = conns[i]
BY DEF Add, With, TypeOK, RowsOK

\* A connection changes by a command that ends on it.
LEMMA TouchStep ==
  ASSUME IInv, [Next]_vars, NEW i \in DOMAIN conns, Touched(i)
  PROVE  \E c \in Clis : EndsOn(c, i)
<1>1. TypeOK /\ NamesBorne
  BY DEF IInv
<1>2. conns' # conns /\ \A n \in Names : ~Add(n)
  BY <1>1, AddKeeps DEF Touched
<1>3. PICK c \in Clis : Delete(c) \/ Rename(c) \/ Update(c)
  BY <1>2, ConnsFrame
<1>4. Forget(c) /\ pc[c] \in {"found", "editing"}
  BY <1>3 DEF Delete, Rename, Update
<1>5. i \in Target(c)
  <2>1. CASE Delete(c)
    BY <2>1 DEF Delete, Without, Touched
  <2>2. CASE Rename(c)
    BY <2>2 DEF Rename, Touched
  <2>3. CASE Update(c)
    BY <2>3 DEF Update, Touched
  <2>4. QED
    BY <1>3, <2>1, <2>2, <2>3
<1>6. QED
  BY <1>1, <1>4, <1>5, TargetIsNamesake

\* delete, rename and edit act on a name that they looked up one or two
\* statements before: they never touch a connection other than the one they
\* found, unless it has borne the same name.
THEOREM TouchesFound == Spec => TouchesWhatItFound
<1>1. IInv /\ [Next]_vars => [\A i \in DOMAIN conns : Touched(i) => \E c \in Clis : EndsOn(c, i)]_vars
  BY TouchStep
<1>2. [\A i \in DOMAIN conns : Touched(i) => \E c \in Clis : EndsOn(c, i)]_vars
        => [\A i \in DOMAIN conns : Touched(i) =>
              \E c \in Clis : pc[c] \in {"found", "editing"} /\ pc'[c] = "idle"
                              /\ (i = target[c] \/ Namesakes(i, target[c]))]_vars
  BY DEF EndsOn
<1>3. QED
  BY <1>1, <1>2, InductiveInvariant, PTL DEF Spec, TouchesWhatItFound

\* What an edit that ends leaves of connection i, when it had read what is there.
Kept(c, i) ==
  pc[c] = "editing" /\ pc'[c] = "idle" /\ job[c].read = conns[i].edited
    => conns[i].edited \subseteq conns'[i].edited

\* An edit keeps the fields that it has read.
LEMMA EditStep ==
  ASSUME IInv, [Next]_vars, NEW c \in Clis, NEW i \in DOMAIN conns \intersect DOMAIN conns'
  PROVE  Kept(c, i)
<1> SUFFICES ASSUME pc[c] = "editing", pc'[c] = "idle", job[c].read = conns[i].edited
             PROVE  conns[i].edited \subseteq conns'[i].edited
  BY DEF Kept
<1>1. TypeOK
  BY DEF IInv
<1>2. CASE conns' = conns
  BY <1>2
<1>3. ASSUME NEW n \in Names, Add(n) PROVE conns[i].edited \subseteq conns'[i].edited
  BY <1>1, <1>3, AddKeeps
<1>4. ASSUME NEW d \in Clis, Delete(d) PROVE conns[i].edited \subseteq conns'[i].edited
  BY <1>4 DEF Delete, Without
<1>5. ASSUME NEW d \in Clis, Rename(d) PROVE conns[i].edited \subseteq conns'[i].edited
  BY <1>1, <1>5 DEF Rename, TypeOK, RowsOK
<1>6. ASSUME NEW d \in Clis, Update(d) PROVE conns[i].edited \subseteq conns'[i].edited
  <2>1. PICK t \in Target(d) : conns' = [conns EXCEPT ![t].edited = Written(job[d])]
    BY <1>6 DEF Update
  <2>2. d = c
    BY <1>1, <1>6 DEF Update, Forget, TypeOK, ProcsOK, Procs
  <2>3. CASE i = t
    <3>1. conns'[i].edited = Written(job[c])
      BY <1>1, <2>1, <2>2, <2>3 DEF TypeOK, RowsOK
    <3>2. QED
      BY <3>1 DEF Written
  <2>4. CASE i # t
    BY <2>1, <2>4
  <2>5. QED
    BY <2>3, <2>4
<1>7. QED
  BY <1>2, <1>3, <1>4, <1>5, <1>6, ConnsFrame

\* edit writes back every field of the row, those it was not given as it has
\* read them: it undoes none of the edits that came before it read the row.
THEOREM EditsKeep == Spec => EditKeepsRest
<1>1. IInv /\ [Next]_vars
        => [\A c \in Clis : \A i \in DOMAIN conns \intersect DOMAIN conns' : Kept(c, i)]_vars
  BY EditStep
<1>2. [\A c \in Clis : \A i \in DOMAIN conns \intersect DOMAIN conns' : Kept(c, i)]_vars
        => [\A c \in Clis : \A i \in DOMAIN conns \intersect DOMAIN conns' :
              pc[c] = "editing" /\ pc'[c] = "idle" /\ job[c].read = conns[i].edited
                => conns[i].edited \subseteq conns'[i].edited]_vars
  BY DEF Kept
<1>3. QED
  BY <1>1, <1>2, InductiveInvariant, PTL DEF Spec, EditKeepsRest

=============================================================================
