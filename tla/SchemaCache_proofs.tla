-------------------------- MODULE SchemaCache_proofs --------------------------
(***************************************************************************)
(* The invariants of SchemaCache and the freshness of a refresh hold for   *)
(* any shells, any databases with any schemas, and any faults.             *)
(***************************************************************************)
EXTENDS SchemaCache, TLAPS

Places == {"off", "read", "fetch", "drop", "insert", "invalidate", "ready"}

-----------------------------------------------------------------------------
(* The inductive invariant                                                  *)

TypeOK ==
  /\ target \in Databases \union {NoDatabase}
  /\ rows \subseteq Columns
  /\ taint \in {"clean", "old", "torn"}
  /\ live \in [Databases -> SUBSET Columns]
  /\ pc \in [Shells -> Places]
  /\ at \in [Shells -> Databases]
  /\ job \in [Shells -> {"load", "refresh"}]
  /\ draft \in [Shells -> {<<>>} \union {<<c>> : c \in SUBSET Columns}]
  /\ fetched \in [Shells -> SUBSET Columns]
  /\ todo \in [Shells -> SUBSET Columns]
  /\ view \in [Shells -> SUBSET Columns]
  /\ seen \in [Shells -> SUBSET SUBSET Columns]
  /\ torn \in [Shells -> BOOLEAN]

\* What a server shows is a schema of its database.  Only a shell that has run
\* DDL has a draft, and it has been refreshing since.
ServersWhole ==
  /\ \A d \in Databases : live[d] \in SchemasOf[d]
  /\ \A s \in Shells : draft[s] # <<>> => draft[s][1] \in SchemasOf[at[s]] /\ job[s] = "refresh"
  /\ \A s \in Shells : pc[s] = "off" => job[s] = "load"

\* A save works on a schema of the shell's database, part of it inserted.
SavesWhole ==
  \A s \in Shells :
    /\ pc[s] \in {"drop", "insert"} => fetched[s] \in SchemasOf[at[s]]
    /\ pc[s] = "insert" => todo[s] \subseteq fetched[s]

\* While the rows are not torn every save in flight is of one schema, of the
\* connection's database.  The rows are part of it, and the shell that emptied
\* them last, for one, has yet to insert all that is missing.
Inserting == {s \in Shells : pc[s] = "insert"}

SavesAgree ==
  taint # "torn" /\ target # NoDatabase =>
    \A s \in Inserting :
      /\ at[s] = target
      /\ rows \subseteq fetched[s]
      /\ \A o \in Inserting : fetched[o] = fetched[s]
      /\ rows = fetched[s] \/ \E o \in Inserting : fetched[o] \subseteq rows \union todo[o]

NoneWithoutConnection == target = NoDatabase => rows = {}

\* The view is kept until the next one is whole: a refresh may fail.
ViewsWhole ==
  \A s \in Shells :
    (pc[s] = "ready" \/ job[s] = "refresh") /\ ~torn[s] => view[s] \in SchemasOf[at[s]]

\* A refreshing shell has been shown what it would fetch, or has fetched.  As
\* long as the cache it emptied is clean it has also been shown what others save
\* there, and what they leave.
RefreshSeen ==
  \A s \in Shells : job[s] = "refresh" =>
    /\ pc[s] \in {"invalidate", "read", "fetch"} => Visible(s) \in seen[s]
    /\ pc[s] \in {"drop", "insert"} => fetched[s] \in seen[s]
    /\ pc[s] = "read" /\ taint = "clean" /\ target # NoDatabase =>
         /\ \A o \in Inserting : fetched[o] \in seen[s]
         /\ Inserting = {} => rows = {} \/ rows \in seen[s]

IInv ==
  /\ TypeOK /\ ServersWhole /\ SavesWhole /\ SavesAgree /\ NoneWithoutConnection
  /\ SettledCacheIsWhole /\ ViewsWhole /\ RefreshSeen

-----------------------------------------------------------------------------
(* Lemmas about the operators of the model                                  *)

\* The schemas of a database are sets of columns.
LEMMA SchemaIsColumns ==
  ASSUME NEW d \in Databases, NEW x \in SchemasOf[d]
  PROVE  x \in SUBSET Columns
BY SchemasAssumption

\* A shell sees a schema of its own database.
LEMMA VisibleIsSchema ==
  ASSUME TypeOK, ServersWhole, NEW s \in Shells
  PROVE  Visible(s) \in SchemasOf[at[s]]
BY DEF TypeOK, ServersWhole, Visible

\* What each shell has seen, when it sees d with the schema x.
LEMMA SeenByType ==
  ASSUME TypeOK, NEW d \in Databases, NEW x \in SchemasOf[d]
  PROVE  SeenBy(d, x) \in [Shells -> SUBSET SUBSET Columns]
BY SchemaIsColumns DEF TypeOK, SeenBy

-----------------------------------------------------------------------------
(* Each conjunct of the invariant is preserved                              *)

\* A shell that is ready again leaves nothing of its refresh behind.
LEMMA ReadyType ==
  ASSUME TypeOK, NEW s \in Shells, NEW c \in SUBSET Columns, NEW b \in BOOLEAN,
         Ready(s, c, b)
  PROVE  /\ pc' \in [Shells -> Places]
         /\ fetched' \in [Shells -> SUBSET Columns]
         /\ todo' \in [Shells -> SUBSET Columns]
         /\ view' \in [Shells -> SUBSET Columns]
         /\ seen' \in [Shells -> SUBSET SUBSET Columns]
         /\ torn' \in [Shells -> BOOLEAN]
BY DEF TypeOK, Ready, Places

\* Every step leaves variables of their types.
LEMMA TypeStep ==
  ASSUME TypeOK, ServersWhole, [Next]_vars
  PROVE  TypeOK'
<1> USE DEF Places
<1>1. ASSUME NEW s \in Shells, Start(s) PROVE TypeOK'
  BY <1>1 DEF TypeOK, Start, store
<1>2. ASSUME NEW s \in Shells, ReadCache(s) PROVE TypeOK'
  <2>1. PICK found \in SUBSET Columns :
          IF Usable(found)
          THEN Ready(s, found, taint = "torn" \/ Shared(s) \/ at[s] # target)
          ELSE pc' = [pc EXCEPT ![s] = "fetch"] /\ UNCHANGED <<fetched, todo, view, seen, torn>>
    BY <1>2 DEF ReadCache, TypeOK
  <2>2. CASE Usable(found)
    BY <1>2, <2>1, <2>2, ReadyType DEF ReadCache, store, TypeOK
  <2>3. CASE ~Usable(found)
    BY <1>2, <2>1, <2>3 DEF ReadCache, store, TypeOK
  <2>4. QED
    BY <2>2, <2>3
<1>3. ASSUME NEW s \in Shells, Fetch(s) PROVE TypeOK'
  <2>1. Visible(s) \in SUBSET Columns
    BY VisibleIsSchema, SchemaIsColumns DEF TypeOK
  <2>2. QED
    BY <1>3, <2>1 DEF TypeOK, Fetch, store
<1>4. ASSUME NEW s \in Shells, FetchFails(s) PROVE TypeOK'
  BY <1>4 DEF TypeOK, FetchFails, store
<1>5. ASSUME NEW s \in Shells, Drop(s) PROVE TypeOK'
  <2>1. rows' \subseteq Columns /\ taint' \in {"clean", "old", "torn"}
    BY <1>5 DEF Drop, TypeOK, DeleteColumns
  <2>2. CASE fetched[s] = {}
    BY <1>5, <2>1, <2>2, ReadyType DEF Drop, TypeOK
  <2>3. CASE fetched[s] # {}
    BY <1>5, <2>1, <2>3 DEF Drop, TypeOK
  <2>4. QED
    BY <2>2, <2>3
<1>6. ASSUME NEW s \in Shells, DropFails(s) PROVE TypeOK'
  <2>1. fetched[s] \in SUBSET Columns
    BY DEF TypeOK
  <2>2. QED
    BY <1>6, <2>1, ReadyType DEF DropFails, TypeOK, store
<1>7. ASSUME NEW s \in Shells, Insert(s) PROVE TypeOK'
  <2>1. PICK c \in todo[s] :
          /\ rows' = rows \union {c}
          /\ IF todo[s] = {c}
             THEN Ready(s, fetched[s], FALSE)
             ELSE /\ todo' = [todo EXCEPT ![s] = @ \ {c}]
                  /\ UNCHANGED <<pc, fetched, view, seen, torn>>
    BY <1>7 DEF Insert
  <2>2. rows' \subseteq Columns /\ fetched[s] \in SUBSET Columns
    BY <2>1 DEF TypeOK
  <2>3. CASE todo[s] = {c}
    BY <1>7, <2>1, <2>2, <2>3, ReadyType DEF Insert, TypeOK
  <2>4. CASE todo[s] # {c}
    BY <1>7, <2>1, <2>2, <2>4 DEF Insert, TypeOK
  <2>5. QED
    BY <2>3, <2>4
<1>8. ASSUME NEW s \in Shells, InsertFails(s) PROVE TypeOK'
  <2>1. fetched[s] \in SUBSET Columns
    BY DEF TypeOK
  <2>2. QED
    BY <1>8, <2>1, ReadyType DEF InsertFails, TypeOK
<1>9. ASSUME NEW s \in Shells, Invalidate(s) PROVE TypeOK'
  BY <1>9 DEF TypeOK, Invalidate, DeleteColumns
<1>10. ASSUME NEW s \in Shells, Refresh(s) PROVE TypeOK'
  <2>1. {Visible(s)} \in SUBSET SUBSET Columns
    BY VisibleIsSchema, SchemaIsColumns DEF TypeOK
  <2>2. QED
    BY <1>10, <2>1 DEF TypeOK, Refresh, ToRefresh, store
<1>11. ASSUME NEW s \in Shells, Ddl(s) PROVE TypeOK'
  <2>1. PICK new \in SchemasOf[at[s]] :
          \/ /\ live' = [live EXCEPT ![at[s]] = new]
             /\ seen' = [SeenBy(at[s], new) EXCEPT ![s] = {new}]
             /\ UNCHANGED draft
          \/ /\ draft' = [draft EXCEPT ![s] = <<new>>]
             /\ seen' = [seen EXCEPT ![s] = {new}]
             /\ UNCHANGED live
    BY <1>11 DEF Ddl
  <2>2. at[s] \in Databases /\ new \in SUBSET Columns
    BY SchemaIsColumns DEF TypeOK
  <2>3. seen' \in [Shells -> SUBSET SUBSET Columns]
    BY <2>1, <2>2, SeenByType DEF TypeOK
  <2>4. live' \in [Databases -> SUBSET Columns]
    BY <2>1, <2>2 DEF TypeOK
  <2>5. draft' \in [Shells -> {<<>>} \union {<<c>> : c \in SUBSET Columns}]
    BY <2>1, <2>2 DEF TypeOK
  <2>6. QED
    BY <1>11, <2>3, <2>4, <2>5 DEF TypeOK, Ddl, ToRefresh, store
<1>12. ASSUME NEW s \in Shells, EndDraft(s) PROVE TypeOK'
  <2>1. draft[s][1] \in SchemasOf[at[s]] /\ at[s] \in Databases
    BY <1>12 DEF EndDraft, ServersWhole, TypeOK
  <2>2. seen' \in [Shells -> SUBSET SUBSET Columns]
    BY <1>12, <2>1, SeenByType DEF EndDraft, TypeOK
  <2>3. live' \in [Databases -> SUBSET Columns]
    BY <1>12, <2>1, SchemaIsColumns DEF EndDraft, TypeOK
  <2>4. draft' \in [Shells -> {<<>>} \union {<<c>> : c \in SUBSET Columns}]
    BY <1>12 DEF EndDraft, TypeOK
  <2>5. QED
    BY <1>12, <2>2, <2>3, <2>4 DEF EndDraft, TypeOK, store
<1>13. ASSUME NEW s \in Shells, Exit(s) PROVE TypeOK'
  BY <1>13 DEF TypeOK, Exit
<1>14. CASE Edit \/ Delete \/ Add
  BY <1>14 DEF TypeOK, Edit, Delete, Add, client
<1>15. CASE UNCHANGED vars
  BY <1>15 DEF TypeOK, vars, store, client
<1>16. QED
  BY <1>1, <1>2, <1>3, <1>4, <1>5, <1>6, <1>7, <1>8, <1>9, <1>10, <1>11, <1>12, <1>13,
     <1>14, <1>15 DEF Next, Step

\* A server has a whole schema at every moment.
LEMMA ServersStep ==
  ASSUME TypeOK, ServersWhole, [Next]_vars
  PROVE  ServersWhole'
<1> USE DEF Places
<1>1. ASSUME NEW s \in Shells, Start(s) PROVE ServersWhole'
  BY <1>1 DEF TypeOK, ServersWhole, Start
<1>2. ASSUME NEW s \in Shells, ReadCache(s) PROVE ServersWhole'
  BY <1>2 DEF TypeOK, ServersWhole, ReadCache, Ready
<1>3. ASSUME NEW s \in Shells, Fetch(s) \/ DropFails(s) \/ InsertFails(s) PROVE ServersWhole'
  BY <1>3 DEF TypeOK, ServersWhole, Fetch, DropFails, InsertFails, Ready
<1>4. ASSUME NEW s \in Shells, FetchFails(s) PROVE ServersWhole'
  BY <1>4 DEF TypeOK, ServersWhole, FetchFails
<1>5. ASSUME NEW s \in Shells, Drop(s) \/ Insert(s) PROVE ServersWhole'
  BY <1>5 DEF TypeOK, ServersWhole, Drop, Insert, Ready
<1>6. ASSUME NEW s \in Shells, Invalidate(s) \/ Refresh(s) PROVE ServersWhole'
  BY <1>6 DEF TypeOK, ServersWhole, Invalidate, Refresh, ToRefresh
<1>7. ASSUME NEW s \in Shells, Ddl(s) PROVE ServersWhole'
  BY <1>7 DEF TypeOK, ServersWhole, Ddl, ToRefresh
<1>8. ASSUME NEW s \in Shells, EndDraft(s) PROVE ServersWhole'
  BY <1>8 DEF TypeOK, ServersWhole, EndDraft
<1>9. ASSUME NEW s \in Shells, Exit(s) PROVE ServersWhole'
  BY <1>9 DEF TypeOK, ServersWhole, Exit
<1>10. CASE Edit \/ Delete \/ Add \/ UNCHANGED vars
  BY <1>10 DEF ServersWhole, Edit, Delete, Add, vars, client
<1>11. QED
  BY <1>1, <1>2, <1>3, <1>4, <1>5, <1>6, <1>7, <1>8, <1>9, <1>10 DEF Next, Step

\* What is on its way into the cache is a whole schema of the database.
LEMMA SavesStep ==
  ASSUME TypeOK, ServersWhole, SavesWhole, [Next]_vars
  PROVE  SavesWhole'
<1> USE DEF Places
<1>1. ASSUME NEW s \in Shells, Start(s) \/ FetchFails(s) PROVE SavesWhole'
  BY <1>1 DEF TypeOK, SavesWhole, Start, FetchFails
<1>2. ASSUME NEW s \in Shells, ReadCache(s) PROVE SavesWhole'
  BY <1>2 DEF TypeOK, SavesWhole, ReadCache, Ready
<1>3. ASSUME NEW s \in Shells, Fetch(s) PROVE SavesWhole'
  BY <1>3, VisibleIsSchema DEF TypeOK, SavesWhole, Fetch
<1>4. ASSUME NEW s \in Shells, DropFails(s) \/ InsertFails(s) PROVE SavesWhole'
  BY <1>4 DEF TypeOK, SavesWhole, DropFails, InsertFails, Ready
<1>5. ASSUME NEW s \in Shells, Drop(s) PROVE SavesWhole'
  BY <1>5 DEF TypeOK, SavesWhole, Drop, Ready
<1>6. ASSUME NEW s \in Shells, Insert(s) PROVE SavesWhole'
  BY <1>6 DEF TypeOK, SavesWhole, Insert, Ready
<1>7. ASSUME NEW s \in Shells, Invalidate(s) \/ Refresh(s) \/ Ddl(s) PROVE SavesWhole'
  BY <1>7 DEF TypeOK, SavesWhole, Invalidate, Refresh, Ddl, ToRefresh
<1>8. ASSUME NEW s \in Shells, EndDraft(s) \/ Exit(s) PROVE SavesWhole'
  BY <1>8 DEF TypeOK, SavesWhole, EndDraft, Exit
<1>9. CASE Edit \/ Delete \/ Add \/ UNCHANGED vars
  BY <1>9 DEF SavesWhole, Edit, Delete, Add, vars, client
<1>10. QED
  BY <1>1, <1>2, <1>3, <1>4, <1>5, <1>6, <1>7, <1>8, <1>9 DEF Next, Step

\* A shell without a connection has nothing on its way.
LEMMA NoneStep ==
  ASSUME TypeOK, NoneWithoutConnection, [Next]_vars
  PROVE  NoneWithoutConnection'
<1> USE NoDatabaseAssumption DEF NoneWithoutConnection
<1>1. ASSUME NEW s \in Shells, Step(s), ~Drop(s), ~Insert(s), ~Invalidate(s)
      PROVE  UNCHANGED <<target, rows>>
  BY <1>1 DEF Step, Start, ReadCache, Fetch, FetchFails, DropFails, InsertFails, Refresh,
              Ddl, EndDraft, Exit, store
<1>2. ASSUME NEW s \in Shells, Drop(s) \/ Insert(s) \/ Invalidate(s)
      PROVE  NoneWithoutConnection'
  BY <1>2 DEF Drop, Insert, Invalidate
<1>3. CASE Edit \/ Delete \/ Add \/ UNCHANGED vars
  BY <1>3 DEF Edit, Delete, Add, vars, store, TypeOK
<1>4. QED
  BY <1>1, <1>2, <1>3 DEF Next

\* What befalls the rows: the shells that insert, and what they insert, change
\* only by these steps.
LEMMA SavesFrame ==
  ASSUME TypeOK, NEW s \in Shells, Step(s),
         ~Drop(s), ~Insert(s), ~InsertFails(s), ~Invalidate(s), ~Exit(s)
  PROVE  /\ UNCHANGED <<target, rows, taint>>
         /\ Inserting' = Inserting
         /\ \A o \in Inserting : fetched'[o] = fetched[o] /\ todo'[o] = todo[o] /\ at'[o] = at[o]
<1> USE DEF Places, Inserting
<1>1. CASE Start(s) \/ Fetch(s) \/ FetchFails(s)
  BY <1>1 DEF TypeOK, Start, Fetch, FetchFails, store
<1>2. CASE ReadCache(s)
  BY <1>2 DEF TypeOK, ReadCache, Ready, store
<1>3. CASE DropFails(s)
  BY <1>3 DEF TypeOK, DropFails, Ready, store
<1>4. CASE Refresh(s) \/ Ddl(s) \/ EndDraft(s)
  BY <1>4 DEF TypeOK, Refresh, Ddl, EndDraft, ToRefresh, store
<1>5. QED
  BY <1>1, <1>2, <1>3, <1>4 DEF Step

\* Saves for one row that are under way agree on what they write.
LEMMA AgreeStep ==
  ASSUME TypeOK, SavesWhole, SavesAgree, NoneWithoutConnection, [Next]_vars
  PROVE  SavesAgree'
<1> USE NoDatabaseAssumption DEF Places
<1>1. ASSUME NEW s \in Shells, Step(s),
             ~Drop(s), ~Insert(s), ~InsertFails(s), ~Invalidate(s), ~Exit(s)
      PROVE  SavesAgree'
  BY <1>1, SavesFrame DEF SavesAgree
<1>2. ASSUME NEW s \in Shells, Drop(s) PROVE SavesAgree'
  <2> SUFFICES ASSUME taint' # "torn"
               PROVE  \A o \in Inserting' :
                        /\ at'[o] = target'
                        /\ rows' \subseteq fetched'[o]
                        /\ \A q \in Inserting' : fetched'[q] = fetched'[o]
                        /\ rows' = fetched'[o]
                             \/ \E q \in Inserting' : fetched'[q] \subseteq rows' \union todo'[q]
    BY DEF SavesAgree
  <2>1. /\ ~Mixed(s) /\ at[s] = target
        /\ Shared(s) => taint # "torn"
        /\ target' = target /\ at' = at /\ rows' = {} /\ s \notin Inserting
    BY <1>2 DEF Drop, DeleteColumns, Inserting
  <2>2. \A o \in Inserting : at[o] = target /\ fetched[o] = fetched[s]
    BY <1>2, <2>1 DEF Drop, Mixed, Shared, Others, Inserting, SavesAgree
  <2>3. CASE fetched[s] = {}
    <3>1. Inserting' = Inserting /\ \A o \in Inserting : fetched'[o] = fetched[o]
      BY <1>2, <2>3 DEF Drop, Ready, Inserting, TypeOK
    <3>2. QED
      BY <2>1, <2>2, <2>3, <3>1
  <2>4. CASE fetched[s] # {}
    <3>1. /\ Inserting' = Inserting \union {s} /\ fetched' = fetched
          /\ todo'[s] = fetched[s]
      BY <1>2, <2>4, ZenonT(30) DEF Drop, Inserting, TypeOK
    <3>2. QED
      BY <2>1, <2>2, <3>1
  <2>5. QED
    BY <2>3, <2>4
<1>3. ASSUME NEW s \in Shells, Insert(s) PROVE SavesAgree'
  <2> SUFFICES ASSUME taint # "torn", target # NoDatabase
               PROVE  \A o \in Inserting' :
                        /\ at'[o] = target'
                        /\ rows' \subseteq fetched'[o]
                        /\ \A q \in Inserting' : fetched'[q] = fetched'[o]
                        /\ rows' = fetched'[o]
                             \/ \E q \in Inserting' : fetched'[q] \subseteq rows' \union todo'[q]
    BY <1>3 DEF SavesAgree, Insert
  <2>1. PICK c \in todo[s] :
          /\ rows' = rows \union {c}
          /\ IF todo[s] = {c}
             THEN Ready(s, fetched[s], FALSE)
             ELSE /\ todo' = [todo EXCEPT ![s] = @ \ {c}]
                  /\ UNCHANGED <<pc, fetched, view, seen, torn>>
    BY <1>3 DEF Insert
  <2>2. /\ s \in Inserting /\ c \in fetched[s] /\ at' = at /\ target' = target
        /\ \A o \in Inserting : /\ at[o] = target /\ rows \subseteq fetched[o]
                                /\ fetched[o] = fetched[s]
    BY <1>3, <2>1 DEF Insert, Inserting, SavesWhole, SavesAgree
  <2>3. rows = fetched[s] \/ \E q \in Inserting : fetched[q] \subseteq rows \union todo[q]
    BY <2>2 DEF SavesAgree
  <2>4. CASE todo[s] = {c}
    <3>1. /\ Inserting' = Inserting \ {s}
          /\ \A o \in Inserting' : fetched'[o] = fetched[o] /\ todo'[o] = todo[o]
      BY <2>1, <2>4 DEF Ready, Inserting, TypeOK
    <3>2. rows' = fetched[s] \/ \E q \in Inserting' : fetched[q] \subseteq rows \union todo[q]
      BY <2>1, <2>2, <2>3, <2>4, <3>1
    <3>3. QED
      BY <2>1, <2>2, <3>1, <3>2
  <2>5. CASE todo[s] # {c}
    <3>1. /\ Inserting' = Inserting /\ fetched' = fetched
          /\ \A q \in Inserting : rows \union todo[q] \subseteq rows' \union todo'[q]
      BY <2>1, <2>5 DEF Inserting, TypeOK
    <3>2. QED
      BY <2>1, <2>2, <2>3, <3>1
  <2>6. QED
    BY <2>4, <2>5
<1>4. ASSUME NEW s \in Shells, InsertFails(s) PROVE SavesAgree'
  BY <1>4 DEF InsertFails, SavesAgree
<1>5. ASSUME NEW s \in Shells, Invalidate(s) PROVE SavesAgree'
  <2>1. /\ UNCHANGED <<target, at, fetched, todo>> /\ Inserting' = Inserting /\ s \notin Inserting
    BY <1>5 DEF Invalidate, Inserting, TypeOK
  <2>2. CASE Inserting = {}
    BY <2>1, <2>2 DEF SavesAgree
  <2>3. CASE Inserting # {}
    <3>1. Shared(s)
      BY <2>1, <2>3 DEF Inserting, Shared, Others
    <3>2. taint' = "torn" \/ (taint # "torn" /\ rows' = rows)
      BY <1>5, <3>1 DEF Invalidate
    <3>3. QED
      BY <2>1, <3>2 DEF SavesAgree
  <2>4. QED
    BY <2>2, <2>3
<1>6. ASSUME NEW s \in Shells, Exit(s) PROVE SavesAgree'
  <2>1. CASE pc[s] = "insert"
    BY <1>6, <2>1 DEF Exit, SavesAgree
  <2>2. CASE pc[s] # "insert"
    <3>1. /\ UNCHANGED <<target, rows, taint, at>> /\ Inserting' = Inserting
          /\ \A o \in Inserting : fetched'[o] = fetched[o] /\ todo'[o] = todo[o]
      BY <1>6, <2>2 DEF Exit, Inserting, TypeOK
    <3>2. QED
      BY <3>1 DEF SavesAgree
  <2>3. QED
    BY <2>1, <2>2
<1>7. CASE Edit \/ Delete
  BY <1>7 DEF Edit, Delete, SavesAgree
<1>8. CASE Add
  BY <1>8 DEF Add, SavesAgree, Inserting, client
<1>9. CASE UNCHANGED vars
  BY <1>9 DEF SavesAgree, Inserting, vars, store, client
<1>10. QED
  BY <1>1, <1>2, <1>3, <1>4, <1>5, <1>6, <1>7, <1>8, <1>9 DEF Next

\* With every save agreeing, the last one to finish leaves a whole schema.
LEMMA SettledStep ==
  ASSUME TypeOK, ServersWhole, SavesWhole, SavesAgree, NoneWithoutConnection,
         SettledCacheIsWhole, [Next]_vars
  PROVE  SettledCacheIsWhole'
<1> USE NoDatabaseAssumption DEF Places
<1>1. ASSUME NEW s \in Shells, Step(s),
             ~Drop(s), ~Insert(s), ~InsertFails(s), ~Invalidate(s), ~Exit(s)
      PROVE  SettledCacheIsWhole'
  BY <1>1, SavesFrame DEF SettledCacheIsWhole, Inserting
<1>2. ASSUME NEW s \in Shells, Drop(s) PROVE SettledCacheIsWhole'
  BY <1>2 DEF Drop, DeleteColumns, SettledCacheIsWhole
<1>3. ASSUME NEW s \in Shells, Insert(s) PROVE SettledCacheIsWhole'
  <2> SUFFICES ASSUME taint # "torn", \A o \in Shells : pc'[o] # "insert"
               PROVE  rows' = {} \/ rows' \in SchemasOf[target]
    BY <1>3 DEF SettledCacheIsWhole, Insert
  <2>1. PICK c \in todo[s] :
          /\ rows' = rows \union {c}
          /\ IF todo[s] = {c}
             THEN Ready(s, fetched[s], FALSE)
             ELSE /\ todo' = [todo EXCEPT ![s] = @ \ {c}]
                  /\ UNCHANGED <<pc, fetched, view, seen, torn>>
    BY <1>3 DEF Insert
  <2>2. todo[s] = {c} /\ Inserting = {s}
    BY <1>3, <2>1 DEF Insert, Ready, Inserting, TypeOK
  <2>3. /\ fetched[s] \in SchemasOf[target] /\ c \in fetched[s] /\ rows \subseteq fetched[s]
        /\ fetched[s] \subseteq rows \union {c}
    BY <1>3, <2>2 DEF Insert, Inserting, SavesWhole, SavesAgree
  <2>4. QED
    BY <2>1, <2>3
<1>4. ASSUME NEW s \in Shells, InsertFails(s) PROVE SettledCacheIsWhole'
  BY <1>4 DEF InsertFails, SettledCacheIsWhole
<1>5. ASSUME NEW s \in Shells, Invalidate(s) PROVE SettledCacheIsWhole'
  BY <1>5 DEF Invalidate, DeleteColumns, SettledCacheIsWhole, TypeOK
<1>6. ASSUME NEW s \in Shells, Exit(s) PROVE SettledCacheIsWhole'
  BY <1>6 DEF Exit, SettledCacheIsWhole, TypeOK
<1>7. CASE Edit \/ Delete
  BY <1>7 DEF Edit, Delete, SettledCacheIsWhole
<1>8. CASE Add
  BY <1>8 DEF Add, SettledCacheIsWhole, NoneWithoutConnection
<1>9. CASE UNCHANGED vars
  BY <1>9 DEF SettledCacheIsWhole, vars, store, client
<1>10. QED
  BY <1>1, <1>2, <1>3, <1>4, <1>5, <1>6, <1>7, <1>8, <1>9 DEF Next

\* A shell takes its view from settled rows, or from what it fetched.
LEMMA ViewsStep ==
  ASSUME TypeOK, ServersWhole, SavesWhole, SettledCacheIsWhole, ViewsWhole, [Next]_vars
  PROVE  ViewsWhole'
<1> USE DEF Places
<1>1. ASSUME NEW s \in Shells, Start(s) PROVE ViewsWhole'
  BY <1>1 DEF TypeOK, ServersWhole, ViewsWhole, Start
<1>2. ASSUME NEW s \in Shells, ReadCache(s) PROVE ViewsWhole'
  <2>1. PICK found \in {IF target = NoDatabase THEN {} ELSE rows} \union {{}} :
          IF Usable(found)
          THEN Ready(s, found, taint = "torn" \/ Shared(s) \/ at[s] # target)
          ELSE pc' = [pc EXCEPT ![s] = "fetch"] /\ UNCHANGED <<fetched, todo, view, seen, torn>>
    BY <1>2 DEF ReadCache
  <2>2. CASE Usable(found)
    <3>1. taint # "torn" /\ ~Shared(s) /\ at[s] = target => found \in SchemasOf[at[s]]
      BY <1>2, <2>1, <2>2 DEF ReadCache, Usable, Shared, Others, SettledCacheIsWhole
    <3>2. view'[s] = found /\ (~torn'[s] => taint # "torn" /\ ~Shared(s) /\ at[s] = target)
      BY <2>1, <2>2 DEF Ready, TypeOK
    <3>3. \A o \in Shells \ {s} : pc'[o] = pc[o] /\ view'[o] = view[o] /\ torn'[o] = torn[o]
      BY <2>1, <2>2 DEF Ready, TypeOK
    <3>4. at' = at /\ job' = job
      BY <1>2 DEF ReadCache
    <3>5. QED
      BY <3>1, <3>2, <3>3, <3>4 DEF ViewsWhole
  <2>3. CASE ~Usable(found)
    BY <1>2, <2>1, <2>3 DEF ReadCache, ViewsWhole, TypeOK
  <2>4. QED
    BY <2>2, <2>3
<1>3. ASSUME NEW s \in Shells, Fetch(s) \/ FetchFails(s) PROVE ViewsWhole'
  BY <1>3 DEF TypeOK, ViewsWhole, Fetch, FetchFails
<1>4. ASSUME NEW s \in Shells, Drop(s) PROVE ViewsWhole'
  <2>1. CASE fetched[s] = {}
    <3>1. Ready(s, {}, FALSE) /\ at' = at /\ job' = job /\ {} \in SchemasOf[at[s]]
      BY <1>4, <2>1 DEF Drop, SavesWhole
    <3>2. QED
      BY <3>1 DEF TypeOK, ViewsWhole, Ready
  <2>2. CASE fetched[s] # {}
    BY <1>4, <2>2 DEF TypeOK, ViewsWhole, Drop
  <2>3. QED
    BY <2>1, <2>2
<1>5. ASSUME NEW s \in Shells, DropFails(s) \/ InsertFails(s) PROVE ViewsWhole'
  BY <1>5 DEF TypeOK, ViewsWhole, SavesWhole, DropFails, InsertFails, Ready
<1>6. ASSUME NEW s \in Shells, Insert(s) PROVE ViewsWhole'
  BY <1>6 DEF TypeOK, ViewsWhole, SavesWhole, Insert, Ready
<1>7. ASSUME NEW s \in Shells, Invalidate(s) \/ EndDraft(s) PROVE ViewsWhole'
  BY <1>7 DEF TypeOK, ViewsWhole, Invalidate, EndDraft
<1>8. ASSUME NEW s \in Shells, Refresh(s) \/ Ddl(s) PROVE ViewsWhole'
  BY <1>8 DEF TypeOK, ViewsWhole, Refresh, Ddl, ToRefresh
<1>9. ASSUME NEW s \in Shells, Exit(s) PROVE ViewsWhole'
  BY <1>9 DEF TypeOK, ViewsWhole, Exit
<1>10. CASE Edit \/ Delete \/ Add \/ UNCHANGED vars
  BY <1>10 DEF ViewsWhole, Edit, Delete, Add, vars, client
<1>11. QED
  BY <1>1, <1>2, <1>3, <1>4, <1>5, <1>6, <1>7, <1>8, <1>9, <1>10 DEF Next, Step

\* A committed schema is shown to every shell of the database that refreshes.
LEMMA SeenByGrows ==
  ASSUME TypeOK, NEW d \in Databases, NEW x, NEW o \in Shells
  PROVE  /\ seen[o] \subseteq SeenBy(d, x)[o]
         /\ at[o] = d /\ pc[o] \notin {"off", "ready"} /\ job[o] = "refresh" => x \in SeenBy(d, x)[o]
BY DEF SeenBy

\* What a refresh has fetched is a schema that the shell could see.
LEMMA SeenStep ==
  ASSUME TypeOK, ServersWhole, SavesWhole, SavesAgree, NoneWithoutConnection, RefreshSeen,
         [Next]_vars
  PROVE  RefreshSeen'
<1> USE NoDatabaseAssumption DEF Places
<1>1. ASSUME NEW s \in Shells, Start(s) PROVE RefreshSeen'
  <2>1. Inserting' = Inserting /\ UNCHANGED <<target, rows, taint, live, draft, job, fetched, seen>>
    BY <1>1 DEF Start, Inserting, TypeOK, store
  <2>2. job[s] # "refresh"
    BY <1>1 DEF Start, ServersWhole
  <2>3. QED
    BY <1>1, <2>1, <2>2 DEF Start, RefreshSeen, Visible, TypeOK
<1>2. ASSUME NEW s \in Shells, ReadCache(s) PROVE RefreshSeen'
  <2>1. Inserting' = Inserting /\ UNCHANGED <<target, rows, taint, live, draft, at, job>>
    BY <1>2 DEF ReadCache, Ready, Inserting, TypeOK, store
  <2>2. \A o \in Shells \ {s} : pc'[o] = pc[o] /\ fetched'[o] = fetched[o] /\ seen'[o] = seen[o]
    BY <1>2 DEF ReadCache, Ready, TypeOK
  <2>3. pc'[s] = "ready" \/ (pc[s] = "read" /\ pc'[s] = "fetch" /\ seen'[s] = seen[s])
    BY <1>2 DEF ReadCache, Ready, TypeOK
  <2>4. \A q \in Inserting : q \in Shells \ {s} /\ fetched'[q] = fetched[q]
    BY <1>2, <2>2 DEF ReadCache, Inserting
  <2>5. QED
    BY <2>1, <2>2, <2>3, <2>4 DEF RefreshSeen, Visible
<1>3. ASSUME NEW s \in Shells, Fetch(s) PROVE RefreshSeen'
  <2>1. Inserting' = Inserting
    BY <1>3 DEF Fetch, Inserting, TypeOK
  <2>2. \A q \in Inserting : fetched'[q] = fetched[q]
    BY <1>3 DEF Fetch, Inserting, TypeOK
  <2>3. QED
    BY <1>3, <2>1, <2>2 DEF Fetch, RefreshSeen, Visible, TypeOK, store
<1>4. ASSUME NEW s \in Shells, FetchFails(s) PROVE RefreshSeen'
  <2>1. Inserting' = Inserting
    BY <1>4 DEF FetchFails, Inserting, TypeOK
  <2>2. QED
    BY <1>4, <2>1 DEF FetchFails, RefreshSeen, Visible, TypeOK, store
<1>5. ASSUME NEW s \in Shells, Drop(s) PROVE RefreshSeen'
  <2>1. UNCHANGED <<target, live, draft, at, job>> /\ rows' = {}
    BY <1>5 DEF Drop, DeleteColumns
  <2>2. \A o \in Shells \ {s} : pc'[o] = pc[o] /\ fetched'[o] = fetched[o] /\ seen'[o] = seen[o]
    BY <1>5 DEF Drop, Ready, TypeOK
  <2>3. pc'[s] = "ready" \/ (pc'[s] = "insert" /\ fetched'[s] = fetched[s] /\ seen'[s] = seen[s])
    BY <1>5 DEF Drop, Ready, TypeOK
  <2>4. ASSUME NEW o \in Shells \ {s}, pc[o] = "read", job[o] = "refresh", taint' = "clean"
        PROVE  \A q \in Inserting' : fetched'[q] \in seen[o]
    <3>1. ~Mixed(s) /\ fetched[s] \in seen[o]
      BY <1>5, <2>4 DEF Drop, Outdates, Others
    <3>2. \A q \in Inserting' : fetched'[q] = fetched[s]
      BY <2>2, <2>3, <3>1 DEF Mixed, Others, Inserting
    <3>3. QED
      BY <3>1, <3>2
  <2>5. QED
    BY <1>5, <2>1, <2>2, <2>3, <2>4 DEF RefreshSeen, Visible, Drop
<1>6. ASSUME NEW s \in Shells, DropFails(s) \/ InsertFails(s) PROVE RefreshSeen'
  <2>1. /\ Inserting' = Inserting \ {s} /\ UNCHANGED <<target, rows, live, draft, at, job>>
        /\ s \in Inserting => taint' = "torn"
    BY <1>6 DEF DropFails, InsertFails, Ready, Inserting, TypeOK, store
  <2>2. \A o \in Shells \ {s} : pc'[o] = pc[o] /\ fetched'[o] = fetched[o] /\ seen'[o] = seen[o]
    BY <1>6 DEF DropFails, InsertFails, Ready, TypeOK
  <2>3. pc'[s] = "ready" /\ (taint' = "clean" => taint = "clean")
    BY <1>6 DEF DropFails, InsertFails, Ready, TypeOK, store
  <2>4. \A q \in Inserting' : q \in Shells \ {s} /\ fetched'[q] = fetched[q]
    BY <2>1, <2>2 DEF Inserting
  <2>5. taint' = "clean" => Inserting' = Inserting
    BY <2>1
  <2>6. QED
    BY <2>1, <2>2, <2>3, <2>4, <2>5 DEF RefreshSeen, Visible
<1>7. ASSUME NEW s \in Shells, Insert(s) PROVE RefreshSeen'
  <2>1. UNCHANGED <<target, taint, live, draft, at, job>> /\ s \in Inserting /\ target # NoDatabase
    BY <1>7 DEF Insert, Inserting
  <2>2. \A o \in Shells \ {s} : pc'[o] = pc[o] /\ fetched'[o] = fetched[o] /\ seen'[o] = seen[o]
    BY <1>7 DEF Insert, Ready, TypeOK
  <2>3. pc'[s] = "ready" \/ (pc'[s] = "insert" /\ fetched'[s] = fetched[s] /\ seen'[s] = seen[s])
    BY <1>7 DEF Insert, Ready, TypeOK
  <2>4. ASSUME NEW o \in Shells \ {s}, pc[o] = "read", job[o] = "refresh", taint = "clean"
        PROVE  /\ \A q \in Inserting' : fetched'[q] \in seen[o]
               /\ Inserting' = {} => rows' = {} \/ rows' \in seen[o]
    <3>1. \A q \in Inserting : fetched[q] \in seen[o]
      BY <2>1, <2>4 DEF RefreshSeen
    <3>2. \A q \in Inserting' : q \in Inserting /\ fetched'[q] = fetched[q]
      BY <2>1, <2>2, <2>3 DEF Inserting
    <3>3. ASSUME Inserting' = {} PROVE rows' = fetched[s]
      <4>1. Inserting = {s}
        BY <2>1, <2>2, <3>3 DEF Inserting
      <4>2. todo[s] \subseteq fetched[s] /\ rows \subseteq fetched[s]
        BY <2>1, <2>4 DEF Inserting, SavesWhole, SavesAgree
      <4>3. fetched[s] \subseteq rows \union todo[s]
        BY <2>1, <2>4, <4>1 DEF SavesAgree
      <4>4. PICK c \in todo[s] : rows' = rows \union {c} /\ todo[s] = {c}
        BY <1>7, <2>1, <3>3 DEF Insert, Inserting, TypeOK
      <4>5. QED
        BY <4>2, <4>3, <4>4
    <3>4. QED
      BY <2>1, <3>1, <3>2, <3>3
  <2>5. QED
    BY <1>7, <2>1, <2>2, <2>3, <2>4 DEF RefreshSeen, Visible, Insert
<1>8. ASSUME NEW s \in Shells, Invalidate(s) PROVE RefreshSeen'
  <2>1. Inserting' = Inserting /\ UNCHANGED <<target, live, draft, at, job, fetched, seen>>
    BY <1>8 DEF Invalidate, Inserting, TypeOK
  <2>2. taint' = "clean" => rows' = {} /\ Inserting = {}
    <3>1. taint' = "clean" => rows' = {} /\ ~Shared(s)
      BY <1>8 DEF Invalidate, DeleteColumns
    <3>2. ~Shared(s) => Inserting = {}
      BY <1>8 DEF Shared, Others, Inserting, Invalidate
    <3>3. QED
      BY <3>1, <3>2
  <2>3. pc[s] = "invalidate" /\ pc' = [pc EXCEPT ![s] = "read"]
    BY <1>8 DEF Invalidate
  <2>4. QED
    BY <2>1, <2>2, <2>3 DEF RefreshSeen, Visible, TypeOK
<1>9. ASSUME NEW s \in Shells, Refresh(s) PROVE RefreshSeen'
  <2>1. Inserting' = Inserting
    BY <1>9 DEF Refresh, ToRefresh, Inserting, TypeOK
  <2>2. QED
    BY <1>9, <2>1 DEF Refresh, ToRefresh, RefreshSeen, Visible, TypeOK, store
<1>10. ASSUME NEW s \in Shells, Ddl(s) PROVE RefreshSeen'
  <2>1. /\ Inserting' = Inserting /\ UNCHANGED <<target, rows, taint, at, fetched>>
        /\ pc'[s] = "invalidate" /\ at[s] \in Databases
        /\ \A o \in Shells \ {s} : pc'[o] = pc[o] /\ job'[o] = job[o]
    BY <1>10 DEF Ddl, ToRefresh, Inserting, TypeOK, store
  <2>2. PICK new \in SchemasOf[at[s]] :
          \/ /\ draft[s] = <<>>
             /\ live' = [live EXCEPT ![at[s]] = new]
             /\ seen' = [SeenBy(at[s], new) EXCEPT ![s] = {new}]
             /\ UNCHANGED draft
          \/ /\ draft' = [draft EXCEPT ![s] = <<new>>]
             /\ seen' = [seen EXCEPT ![s] = {new}]
             /\ UNCHANGED live
    BY <1>10 DEF Ddl
  <2>3. seen'[s] = {new} /\ Visible(s)' = new
    BY <2>1, <2>2 DEF Visible, TypeOK, SeenBy
  <2>4. ASSUME NEW o \in Shells \ {s}, job[o] = "refresh", pc[o] \in Places \ {"off", "ready"}
        PROVE  seen[o] \subseteq seen'[o] /\ (Visible(o) \in seen[o] => Visible(o)' \in seen'[o])
    <3>1. draft[o] = <<>> /\ draft'[o] = <<>>
      BY <1>10, <2>2 DEF Ddl, Others, TypeOK
    <3>2. CASE draft[s] = <<>> /\ live' = [live EXCEPT ![at[s]] = new]
               /\ seen' = [SeenBy(at[s], new) EXCEPT ![s] = {new}]
      <4>1. /\ seen'[o] = SeenBy(at[s], new)[o] /\ seen[o] \subseteq seen'[o]
            /\ at[o] = at[s] => new \in seen'[o]
        BY <2>1, <2>4, <3>2, SeenByGrows DEF SeenBy
      <4>2. live'[at[o]] = IF at[o] = at[s] THEN new ELSE live[at[o]]
        BY <2>1, <3>2 DEF TypeOK
      <4>3. QED
        BY <2>1, <3>1, <4>1, <4>2 DEF Visible
    <3>3. CASE seen' = [seen EXCEPT ![s] = {new}] /\ UNCHANGED live
      BY <2>1, <3>1, <3>3 DEF Visible, TypeOK
    <3>4. QED
      BY <2>2, <3>2, <3>3
  <2>5. QED
    BY <2>1, <2>3, <2>4 DEF RefreshSeen, TypeOK
<1>11. ASSUME NEW s \in Shells, EndDraft(s) PROVE RefreshSeen'
  <2>1. /\ Inserting' = Inserting /\ UNCHANGED <<target, rows, taint, pc, at, job, fetched>>
        /\ pc[s] = "ready" /\ at[s] \in Databases
    BY <1>11 DEF EndDraft, Inserting, TypeOK, store
  <2>2. ASSUME NEW o \in Shells \ {s}, job[o] = "refresh", pc[o] \in Places \ {"off", "ready"}
        PROVE  seen[o] \subseteq seen'[o] /\ (Visible(o) \in seen[o] => Visible(o)' \in seen'[o])
    <3>1. draft'[o] = draft[o]
      BY <1>11 DEF EndDraft, TypeOK
    <3>2. CASE live' = [live EXCEPT ![at[s]] = draft[s][1]] /\ seen' = SeenBy(at[s], draft[s][1])
      <4>1. /\ seen[o] \subseteq seen'[o]
            /\ at[o] = at[s] => draft[s][1] \in seen'[o]
        BY <2>1, <2>2, <3>2, SeenByGrows
      <4>2. live'[at[o]] = IF at[o] = at[s] THEN draft[s][1] ELSE live[at[o]]
        BY <2>1, <3>2 DEF TypeOK
      <4>3. QED
        BY <2>1, <3>1, <4>1, <4>2 DEF Visible
    <3>3. CASE UNCHANGED <<live, seen>>
      BY <2>1, <3>1, <3>3 DEF Visible
    <3>4. QED
      BY <1>11, <3>2, <3>3 DEF EndDraft
  <2>3. QED
    BY <2>1, <2>2 DEF RefreshSeen, TypeOK
<1>12. ASSUME NEW s \in Shells, Exit(s) PROVE RefreshSeen'
  <2>1. /\ UNCHANGED <<target, rows, live, at>> /\ Inserting' = Inserting \ {s}
        /\ taint' = "clean" => taint = "clean" /\ s \notin Inserting
    BY <1>12 DEF Exit, Inserting, TypeOK
  <2>2. \A o \in Shells \ {s} : /\ pc'[o] = pc[o] /\ job'[o] = job[o] /\ fetched'[o] = fetched[o]
                                /\ seen'[o] = seen[o] /\ draft'[o] = draft[o]
    BY <1>12 DEF Exit, TypeOK
  <2>3. job'[s] = "load"
    BY <1>12 DEF Exit, TypeOK
  <2>4. \A q \in Inserting' : q \in Shells \ {s} /\ fetched'[q] = fetched[q]
    BY <2>1, <2>2 DEF Inserting
  <2>5. taint' = "clean" => Inserting' = Inserting
    BY <2>1
  <2>6. QED
    BY <2>1, <2>2, <2>3, <2>4, <2>5 DEF RefreshSeen, Visible
<1>13. CASE Edit
  BY <1>13 DEF Edit, RefreshSeen, Visible, client
<1>14. CASE Delete \/ Add
  <2>1. UNCHANGED <<live, draft, pc, at, job, fetched, seen>> /\ Inserting' = Inserting
    BY <1>14 DEF Delete, Add, Inserting, client
  <2>2. taint' = "clean" /\ target' # NoDatabase => rows' = {} /\ Inserting = {}
    BY <1>14 DEF Delete, Add, Inserting, NoneWithoutConnection
  <2>3. QED
    BY <2>1, <2>2 DEF RefreshSeen, Visible
<1>15. CASE UNCHANGED vars
  BY <1>15 DEF RefreshSeen, Visible, Inserting, vars, store, client
<1>16. QED
  BY <1>1, <1>2, <1>3, <1>4, <1>5, <1>6, <1>7, <1>8, <1>9, <1>10, <1>11, <1>12, <1>13,
     <1>14, <1>15 DEF Next, Step

-----------------------------------------------------------------------------
(* The theorems                                                             *)

\* The invariant holds at the start.
LEMMA InitIInv == Init => IInv
<1> SUFFICES ASSUME Init PROVE IInv
  OBVIOUS
<1>1. TypeOK
  BY SchemasAssumption DEF Init, TypeOK, Places
<1>2. ServersWhole /\ SavesWhole /\ ViewsWhole /\ RefreshSeen
  BY DEF Init, ServersWhole, SavesWhole, ViewsWhole, RefreshSeen
<1>3. SavesAgree /\ NoneWithoutConnection /\ SettledCacheIsWhole
  BY DEF Init, SavesAgree, NoneWithoutConnection, SettledCacheIsWhole, Inserting
<1>4. QED
  BY <1>1, <1>2, <1>3 DEF IInv

\* Every step preserves the invariant.
LEMMA NextIInv == IInv /\ [Next]_vars => IInv'
BY TypeStep, ServersStep, SavesStep, AgreeStep, NoneStep, SettledStep, ViewsStep, SeenStep
   DEF IInv

\* The inductive invariant: what is true of the saves in flight, of the servers,
\* of the views and of the refreshes at every step of any number of shells.
THEOREM InductiveInvariant == Spec => []IInv
BY InitIInv, NextIInv, PTL DEF Spec

\* Once no shell is saving, save() has left nothing or one whole schema of the
\* connection's database in schema_columns, however the statements of several
\* shells interleaved, unless a save was cut short or different ones overlapped.
THEOREM SettledCache == Spec => []SettledCacheIsWhole
<1>1. IInv => SettledCacheIsWhole
  BY DEF IInv
<1>2. QED
  BY <1>1, InductiveInvariant, PTL

\* SchemaState holds a whole schema of the database the shell is connected to,
\* whichever shell's save load() found in the cache.
THEOREM WholeView == Spec => []ViewIsWhole
<1>1. IInv => ViewIsWhole
  BY DEF IInv, ViewsWhole, ViewIsWhole
<1>2. QED
  BY <1>1, InductiveInvariant, PTL

\* What a refresh leaves in SchemaState when it is over.
ViewFresh(s) ==
  Reloads(s) /\ (pc[s] = "read" => taint = "clean" /\ ~Shared(s))
    => view'[s] \in seen[s]

\* A refresh ends in the step that makes the shell ready again: it reads what
\* others have saved since it emptied the cache, or takes what it fetched,
\* whatever became of saving it.
LEMMA FreshStep ==
  ASSUME IInv, [Next]_vars, NEW s \in Shells
  PROVE  ViewFresh(s)
<1> SUFFICES ASSUME job[s] = "refresh", pc[s] \in {"read", "drop", "insert"}, pc'[s] = "ready",
                    pc[s] = "read" => taint = "clean" /\ ~Shared(s)
             PROVE  view'[s] \in seen[s]
  BY DEF ViewFresh, Reloads
<1> USE DEF IInv, TypeOK, Places
<1>1. ASSUME NEW o \in Shells, Step(o), o # s PROVE FALSE
  <2>1. CASE Start(o) \/ Fetch(o) \/ FetchFails(o) \/ Invalidate(o)
    BY <1>1, <2>1 DEF Start, Fetch, FetchFails, Invalidate
  <2>2. CASE ReadCache(o) \/ Drop(o)
    BY <1>1, <2>2 DEF ReadCache, Drop, Ready
  <2>3. CASE DropFails(o) \/ Insert(o) \/ InsertFails(o)
    BY <1>1, <2>3 DEF DropFails, Insert, InsertFails, Ready
  <2>4. CASE Refresh(o) \/ Ddl(o) \/ EndDraft(o)
    BY <1>1, <2>4 DEF Refresh, Ddl, EndDraft, ToRefresh
  <2>5. CASE Exit(o)
    BY <1>1, <2>5 DEF Exit
  <2>6. QED
    BY <1>1, <2>1, <2>2, <2>3, <2>4, <2>5 DEF Step
<1>2. CASE Start(s) \/ Fetch(s) \/ FetchFails(s) \/ Invalidate(s)
  BY <1>2 DEF Start, Fetch, FetchFails, Invalidate
<1>3. CASE ReadCache(s)
  <2>1. target # NoDatabase /\ rows # {} /\ view'[s] = rows
    BY <1>3 DEF ReadCache, Usable, Ready
  <2>2. Inserting = {}
    BY <1>3 DEF ReadCache, Shared, Others, Inserting
  <2>3. QED
    BY <1>3, <2>1, <2>2 DEF ReadCache, RefreshSeen
<1>4. CASE Drop(s)
  BY <1>4 DEF Drop, Ready, RefreshSeen
<1>5. CASE DropFails(s) \/ InsertFails(s)
  BY <1>5 DEF DropFails, InsertFails, Ready, RefreshSeen
<1>6. CASE Insert(s)
  BY <1>6 DEF Insert, Ready, RefreshSeen
<1>7. CASE Refresh(s) \/ Ddl(s) \/ EndDraft(s) \/ Exit(s)
  BY <1>7 DEF Refresh, Ddl, EndDraft, Exit
<1>8. CASE Edit \/ Delete \/ Add \/ UNCHANGED vars
  BY <1>8 DEF Edit, Delete, Add, vars, client
<1>9. QED
  BY <1>1, <1>2, <1>3, <1>4, <1>5, <1>6, <1>7, <1>8 DEF Next, Step

\* \refresh, and the refresh after DDL, whether they change the view or not,
\* never end with a schema older than the refresh itself, but for what one reads
\* from a cache that invalidate failed to empty, that a save of an older schema
\* (or a part of one) has filled again, or whose connection was edited.
THEOREM FreshRefresh == Spec => RefreshIsFresh
<1>1. IInv /\ [Next]_vars => [\A s \in Shells : ViewFresh(s)]_vars
  BY FreshStep
<1>2. [\A s \in Shells : ViewFresh(s)]_vars
        => [\A s \in Shells :
              Reloads(s) /\ (pc[s] = "read" => taint = "clean" /\ ~Shared(s))
                => view'[s] \in seen[s]]_vars
  BY DEF ViewFresh
<1>3. QED
  BY <1>1, <1>2, InductiveInvariant, PTL DEF Spec, RefreshIsFresh

=============================================================================
