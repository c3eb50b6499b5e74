-------------------------- MODULE Migrations_proofs --------------------------
(***************************************************************************)
(* The properties of Migrations hold for any number of pgrs processes that *)
(* open a store of any age, crash and fail.  The scripts are four suffixes *)
(* of one plan, so that a position in the plan says what is left to run,   *)
(* which version the store bears and what each table may look like.        *)
(***************************************************************************)
EXTENDS Migrations, SequenceTheorems, TLAPS

\* The plan: what a new store runs, from the first statement to the last.
PlanEnd == 27

Plan(k) ==
  CASE k = 1  -> Stmt("ensure", "connections", 1)
    [] k = 2  -> Stmt("ensure", "query_history", 1)
    [] k = 3  -> Stmt("index", "query_history", 1)
    [] k = 4  -> Stmt("ensure", "table_access", 1)
    [] k = 5  -> Stmt("index", "table_access", 1)
    [] k = 6  -> Stmt("ensure", "column_access", 1)
    [] k = 7  -> Stmt("index", "column_access", 1)
    [] k = 8  -> Stmt("ensure", "schema_tables", 1)
    [] k = 9  -> Stmt("ensure", "schema_columns", 1)
    [] k = 10 -> Stmt("version", "", 1)
    [] k = 11 -> Stmt("drop", "schema_columns", 0)
    [] k = 12 -> Stmt("drop", "schema_tables", 0)
    [] k = 13 -> Stmt("drop", "column_access", 0)
    [] k = 14 -> Stmt("drop", "table_access", 0)
    [] k = 15 -> Stmt("drop", "query_history", 0)
    [] k = 16 -> Stmt("create", "query_history", 2)
    [] k = 17 -> Stmt("index", "query_history", 2)
    [] k = 18 -> Stmt("create", "table_access", 2)
    [] k = 19 -> Stmt("index", "table_access", 2)
    [] k = 20 -> Stmt("create", "column_access", 2)
    [] k = 21 -> Stmt("index", "column_access", 2)
    [] k = 22 -> Stmt("create", "schema_tables", 2)
    [] k = 23 -> Stmt("create", "schema_columns", 2)
    [] k = 24 -> Stmt("version", "", 2)
    [] k = 25 -> Stmt("create", "saved_queries", 3)
    [] k = 26 -> Stmt("index", "saved_queries", 3)
    [] OTHER  -> Stmt("version", "", 3)

\* Where the script of a version starts, and the version at a position.
StartOf(v)   == IF v = 0 THEN 0 ELSE IF v = 1 THEN 10 ELSE IF v = 2 THEN 24 ELSE PlanEnd
VersionAt(i) == IF i < 10 THEN 0 ELSE IF i < 24 THEN 1 ELSE IF i < PlanEnd THEN 2 ELSE 3

\* How many statements have run when a table has surely been ensured, dropped
\* and created again.
Ensured == [query_history |-> 2, table_access |-> 4, column_access |-> 6,
            schema_tables |-> 8, schema_columns |-> 9]
Dropped == [query_history |-> 15, table_access |-> 14, column_access |-> 13,
            schema_tables |-> 12, schema_columns |-> 11]
Created == [query_history |-> 16, table_access |-> 18, column_access |-> 20,
            schema_tables |-> 22, schema_columns |-> 23]

\* The versions a table may be of after i statements of the plan, the last of
\* the migrations before having stopped anywhere in the same version.
Could(i, t) ==
  CASE t = "connections"   -> IF i < 1 THEN {0, 1} ELSE {1}
    [] t = "saved_queries" -> IF i < 24 THEN {0} ELSE IF i = 24 THEN {0, 3} ELSE {3}
    [] OTHER -> IF i < Ensured[t] THEN {0, 1}
                ELSE IF i < 10 THEN {1}
                ELSE IF i < Dropped[t] THEN {0, 1, 2}
                ELSE IF i < Created[t] THEN {0} ELSE {2}

Pos(p) == StartOf(from[p]) + done[p]

-----------------------------------------------------------------------------
(* The inductive invariant                                                  *)

TypeOK ==
  /\ version \in 0..Latest /\ shape \in [Tables -> 0..Latest]
  /\ history \in BOOLEAN /\ overlap \in BOOLEAN
  /\ pc \in [Procs -> {"off", "migrating", "open", "failed"}]
  /\ from \in [Procs -> 0..Latest] /\ done \in [Procs -> Nat]
  /\ \A p \in Procs : Pos(p) <= PlanEnd

\* The store is where a migration alone has brought it, position i.
StoreAt(i) == version = VersionAt(i) /\ \A t \in Tables : shape[t] \in Could(i, t)

\* Without overlapping migrations the store is at the start of its version or
\* further, at the position of every process that is migrating, and at the end
\* of the plan for those that have opened it.
Alone ==
  ~overlap =>
    /\ StoreAt(StartOf(version))
    /\ \A p \in Procs : pc[p] = "migrating" => StoreAt(Pos(p))
    /\ \A p \in Procs : pc[p] = "open" => StoreAt(PlanEnd)

\* A statement that fails of itself is CREATE TABLE saved_queries, and no
\* process gets beyond it any more.
Stuck ==
  ~overlap /\ "busy" \notin Faults =>
    \A p \in Procs : pc[p] = "failed" =>
      /\ version = 2 /\ shape["saved_queries"] = 3
      /\ \A q \in Procs : pc[q] = "migrating" => Pos(q) = 24

IInv == TypeOK /\ Alone /\ Stuck

-----------------------------------------------------------------------------
(* The scripts are the plan from the start of a version on                  *)

Stmts == {Plan(k) : k \in 1..PlanEnd}

\* The sequence s is what the plan runs after i statements, up to the j-th.
Part(s, i, j) ==
  /\ s \in Seq(Stmts) /\ i \in Nat /\ j \in Nat /\ Len(s) = j - i
  /\ \A k \in 1..(j - i) : s[k] = Plan(i + k)

\* The empty script is the part of the plan between i and i.
LEMMA NoPart == ASSUME NEW i \in Nat PROVE Part(<<>>, i, i)
BY EmptySeq DEF Part

\* A script of one statement.
LEMMA OnePart ==
  ASSUME NEW i \in 0..(PlanEnd - 1)
  PROVE  Part(<<Plan(i + 1)>>, i, i + 1)
<1>1. Plan(i + 1) \in Stmts
  BY DEF Stmts, PlanEnd
<1>2. QED
  BY <1>1 DEF Part, PlanEnd

\* Scripts that follow one another make a longer part.
LEMMA JoinedParts ==
  ASSUME NEW s, NEW t, NEW i, NEW j, NEW k, Part(s, i, j), Part(t, j, k)
  PROVE  Part(s \o t, i, k)
<1>1. /\ s \o t \in Seq(Stmts) /\ Len(s \o t) = Len(s) + Len(t)
      /\ \A n \in 1..(Len(s) + Len(t)) :
           (s \o t)[n] = IF n <= Len(s) THEN s[n] ELSE t[n - Len(s)]
  BY ConcatProperties DEF Part
<1>2. i \in Nat /\ j \in Nat /\ k \in Nat /\ Len(s) = j - i /\ Len(t) = k - j /\ Len(s) \in Nat /\ Len(t) \in Nat
  BY LenProperties DEF Part
<1>3. ASSUME NEW n \in 1..(k - i) PROVE (s \o t)[n] = Plan(i + n)
  <2>1. CASE n <= Len(s)
    BY <1>1, <1>2, <2>1 DEF Part
  <2>2. CASE ~(n <= Len(s))
    <3>1. n - Len(s) \in 1..(k - j) /\ j + (n - Len(s)) = i + n
      BY <1>2, <2>2
    <3>2. (s \o t)[n] = t[n - Len(s)]
      BY <1>1, <1>2, <2>2
    <3>3. t[n - Len(s)] = Plan(j + (n - Len(s)))
      BY <3>1 DEF Part
    <3>4. QED
      BY <3>1, <3>2, <3>3
  <2>3. QED
    BY <2>1, <2>2
<1>4. QED
  BY <1>1, <1>2, <1>3 DEF Part

\* The statements of each version, as the plan has them.
LEMMA PartV1 == Part(SchemaV1 \o SetVersion(1), 0, 10)
<1> DEFINE s1 == Ensure("connections", 1) \o Ensure("query_history", 1) \o Index("query_history", 1)
           s2 == s1 \o Ensure("table_access", 1) \o Index("table_access", 1)
           s3 == s2 \o Ensure("column_access", 1) \o Index("column_access", 1)
           s4 == s3 \o Ensure("schema_tables", 1) \o Ensure("schema_columns", 1)
<1>1. /\ Part(Ensure("connections", 1), 0, 1)
      /\ Part(Ensure("query_history", 1), 1, 2)
      /\ Part(Index("query_history", 1), 2, 3)
  <2>1. /\ Ensure("connections", 1) = <<Plan(1)>>
        /\ Ensure("query_history", 1) = <<Plan(2)>>
        /\ Index("query_history", 1) = <<Plan(3)>>
    BY DEF Plan, Ensure, Index
  <2>2. QED
    BY <2>1, OnePart DEF PlanEnd
<1>2. /\ Part(Ensure("table_access", 1), 3, 4)
      /\ Part(Index("table_access", 1), 4, 5)
  <2>1. /\ Ensure("table_access", 1) = <<Plan(4)>>
        /\ Index("table_access", 1) = <<Plan(5)>>
    BY DEF Plan, Ensure, Index
  <2>2. QED
    BY <2>1, OnePart DEF PlanEnd
<1>3. /\ Part(Ensure("column_access", 1), 5, 6)
      /\ Part(Index("column_access", 1), 6, 7)
  <2>1. /\ Ensure("column_access", 1) = <<Plan(6)>>
        /\ Index("column_access", 1) = <<Plan(7)>>
    BY DEF Plan, Ensure, Index
  <2>2. QED
    BY <2>1, OnePart DEF PlanEnd
<1>4. /\ Part(Ensure("schema_tables", 1), 7, 8)
      /\ Part(Ensure("schema_columns", 1), 8, 9)
  <2>1. /\ Ensure("schema_tables", 1) = <<Plan(8)>>
        /\ Ensure("schema_columns", 1) = <<Plan(9)>>
    BY DEF Plan, Ensure
  <2>2. QED
    BY <2>1, OnePart DEF PlanEnd
<1>5. Part(SetVersion(1), 9, 10)
  <2>1. SetVersion(1) = <<Plan(10)>>
    BY DEF Plan, SetVersion
  <2>2. QED
    BY <2>1, OnePart DEF PlanEnd
<1>6. Part(s1, 0, 3)
  BY <1>1, JoinedParts
<1>7. Part(s2, 0, 5)
  BY <1>2, <1>6, JoinedParts
<1>8. Part(s3, 0, 7)
  BY <1>3, <1>7, JoinedParts
<1>9. Part(s4, 0, 9)
  BY <1>4, <1>8, JoinedParts
<1>10. QED
  BY <1>5, <1>9, JoinedParts DEF SchemaV1

\* The scripts of the source are such parts.
LEMMA PartDrop == Part(DropV1, 10, 15)
<1> DEFINE s1 == DropTable("schema_columns") \o DropTable("schema_tables")
<1>1. /\ Part(DropTable("schema_columns"), 10, 11)
      /\ Part(DropTable("schema_tables"), 11, 12)
  <2>1. /\ DropTable("schema_columns") = <<Plan(11)>>
        /\ DropTable("schema_tables") = <<Plan(12)>>
    BY DEF Plan, DropTable
  <2>2. QED
    BY <2>1, OnePart DEF PlanEnd
<1>2. /\ Part(DropTable("column_access"), 12, 13)
      /\ Part(DropTable("table_access"), 13, 14)
      /\ Part(DropTable("query_history"), 14, 15)
  <2>1. /\ DropTable("column_access") = <<Plan(13)>>
        /\ DropTable("table_access") = <<Plan(14)>>
        /\ DropTable("query_history") = <<Plan(15)>>
    BY DEF Plan, DropTable
  <2>2. QED
    BY <2>1, OnePart DEF PlanEnd
<1>3. Part(s1, 10, 12)
  BY <1>1, JoinedParts
<1>4. QED
  BY <1>2, <1>3, JoinedParts DEF DropV1

\* Creating the tables of version 2 is the plan from place 15 to 23,
LEMMA PartCreate == Part(CreateV2, 15, 23)
<1> DEFINE s1 == Create("query_history", 2) \o Index("query_history", 2)
           s2 == s1 \o Create("table_access", 2) \o Index("table_access", 2)
           s3 == s2 \o Create("column_access", 2) \o Index("column_access", 2)
<1>1. /\ Part(Create("query_history", 2), 15, 16)
      /\ Part(Index("query_history", 2), 16, 17)
  <2>1. /\ Create("query_history", 2) = <<Plan(16)>>
        /\ Index("query_history", 2) = <<Plan(17)>>
    BY DEF Plan, Create, Index
  <2>2. QED
    BY <2>1, OnePart DEF PlanEnd
<1>2. /\ Part(Create("table_access", 2), 17, 18)
      /\ Part(Index("table_access", 2), 18, 19)
  <2>1. /\ Create("table_access", 2) = <<Plan(18)>>
        /\ Index("table_access", 2) = <<Plan(19)>>
    BY DEF Plan, Create, Index
  <2>2. QED
    BY <2>1, OnePart DEF PlanEnd
<1>3. /\ Part(Create("column_access", 2), 19, 20)
      /\ Part(Index("column_access", 2), 20, 21)
  <2>1. /\ Create("column_access", 2) = <<Plan(20)>>
        /\ Index("column_access", 2) = <<Plan(21)>>
    BY DEF Plan, Create, Index
  <2>2. QED
    BY <2>1, OnePart DEF PlanEnd
<1>4. /\ Part(Create("schema_tables", 2), 21, 22)
      /\ Part(Create("schema_columns", 2), 22, 23)
  <2>1. /\ Create("schema_tables", 2) = <<Plan(22)>>
        /\ Create("schema_columns", 2) = <<Plan(23)>>
    BY DEF Plan, Create
  <2>2. QED
    BY <2>1, OnePart DEF PlanEnd
<1>5. Part(s1, 15, 17)
  BY <1>1, JoinedParts
<1>6. Part(s2, 15, 19)
  BY <1>2, <1>5, JoinedParts
<1>7. Part(s3, 15, 21)
  BY <1>3, <1>6, JoinedParts
<1>8. QED
  BY <1>4, <1>7, JoinedParts DEF CreateV2

\* the script to version 2 from 10 to 24,
LEMMA PartV2 == Part(SchemaV2 \o SetVersion(2), 10, 24)
<1>1. SetVersion(2) = <<Plan(24)>>
  BY DEF Plan, SetVersion
<1>2. Part(SetVersion(2), 23, 24)
  BY <1>1, OnePart DEF PlanEnd
<1>3. QED
  BY <1>2, PartDrop, PartCreate, JoinedParts DEF SchemaV2

\* and the script to version 3 from 24 to 27.
LEMMA PartV3 == Part(SchemaV3 \o SetVersion(3), 24, 27)
<1> DEFINE s1 == Create("saved_queries", 3) \o Index("saved_queries", 3)
<1>1. /\ Part(Create("saved_queries", 3), 24, 25)
      /\ Part(Index("saved_queries", 3), 25, 26)
  <2>1. /\ Create("saved_queries", 3) = <<Plan(25)>>
        /\ Index("saved_queries", 3) = <<Plan(26)>>
    BY DEF Plan, Create, Index
  <2>2. QED
    BY <2>1, OnePart DEF PlanEnd
<1>2. Part(SetVersion(3), 26, 27)
  <2>1. SetVersion(3) = <<Plan(27)>>
    BY DEF Plan, SetVersion
  <2>2. QED
    BY <2>1, OnePart DEF PlanEnd
<1>3. Part(s1, 24, 26)
  BY <1>1, JoinedParts
<1>4. QED
  BY <1>2, <1>3, JoinedParts DEF SchemaV3

\* What is run from version v is the plan from StartOf(v) to its end.
LEMMA ScriptIsPlan ==
  ASSUME NEW v \in 0..Latest
  PROVE  Part(Script(v), StartOf(v), PlanEnd)
<1> USE DEF StartOf, PlanEnd
<1>1. Part(<<>>, 0, 0) /\ Part(<<>>, 10, 10) /\ Part(<<>>, 24, 24) /\ Part(<<>>, 27, 27)
  BY NoPart
<1>2. CASE v = 0
  BY <1>2, PartV1, PartV2, PartV3, JoinedParts DEF Script
<1>3. CASE v = 1
  BY <1>1, <1>3, PartV2, PartV3, JoinedParts DEF Script
<1>4. CASE v = 2
  BY <1>1, <1>4, PartV3, JoinedParts DEF Script
<1>5. CASE v = 3
  BY <1>1, <1>5, JoinedParts DEF Script
<1>6. QED
  BY <1>2, <1>3, <1>4, <1>5 DEF Latest

-----------------------------------------------------------------------------
(* What a statement of the plan does to a store that is where it belongs    *)

\* A statement of the plan is about a version or a table that there is.
LEMMA StatementType ==
  ASSUME NEW i \in 0..(PlanEnd - 1)
  PROVE  /\ Plan(i + 1).v \in 0..Latest
         /\ Plan(i + 1).op # "version" => Plan(i + 1).table \in Tables
BY DEF Plan, Stmt, PlanEnd, Latest, Tables, Analytics

\* A statement leaves variables of their types.
LEMMA EffectType ==
  ASSUME TypeOK, NEW i \in 0..(PlanEnd - 1), Effect(Plan(i + 1))
  PROVE  version' \in 0..Latest /\ shape' \in [Tables -> 0..Latest] /\ history' \in BOOLEAN
<1> DEFINE st == Plan(i + 1)
<1>1. st.v \in 0..Latest /\ (st.op # "version" => st.table \in Tables)
  BY StatementType
<1>2. Effect(st)
  OBVIOUS
<1> HIDE DEF st
<1>3. version' \in 0..Latest /\ history' \in BOOLEAN
  BY <1>1, <1>2 DEF TypeOK, Effect
<1>4. \/ shape' = shape
      \/ shape' = [shape EXCEPT ![st.table] = st.v]
      \/ shape' = [shape EXCEPT ![st.table] = 0]
  BY <1>2 DEF Effect
<1>5. shape' \in [Tables -> 0..Latest]
  BY <1>1, <1>4 DEF TypeOK, Latest
<1>6. QED
  BY <1>3, <1>5

\* The version that a table has after a statement, and whether it succeeds.
After(st, t, x) ==
  IF st.table # t THEN x
  ELSE IF st.op = "create" \/ (st.op = "ensure" /\ x = 0) THEN st.v
  ELSE IF st.op = "drop" THEN 0 ELSE x

Works(st, t, x) ==
  st.table = t => (st.op = "create" => x = 0) /\ (st.op = "index" => x = st.v)

\* What a statement that succeeds makes of a table, and that it can.
LEMMA EffectIsAfter ==
  ASSUME NEW st, NEW t \in Tables, shape \in [Tables -> 0..Latest], Effect(st), Succeeds(st)
  PROVE  shape'[t] = After(st, t, shape[t]) /\ Works(st, t, shape[t])
<1>1. CASE st.op = "create"
  BY <1>1 DEF Effect, Succeeds, After, Works
<1>2. CASE st.op = "ensure"
  BY <1>2 DEF Effect, Succeeds, After, Works
<1>3. CASE st.op = "drop"
  BY <1>3 DEF Effect, Succeeds, After, Works
<1>4. CASE st.op \notin {"create", "ensure", "drop"}
  BY <1>4 DEF Effect, Succeeds, After, Works
<1>5. QED
  BY <1>1, <1>2, <1>3, <1>4

\* Table by table, a statement that works keeps to what the plan allows for, and
\* one that does not is the creation of saved_queries.
TableMoves(i, t) ==
  \A x \in Could(i, t) :
    /\ Works(Plan(i + 1), t, x) => After(Plan(i + 1), t, x) \in Could(i + 1, t)
    /\ ~Works(Plan(i + 1), t, x) => i = 24 /\ t = "saved_queries" /\ x = 3

\* Each statement of the plan takes every table one place on.
LEMMA TablesMove == \A i \in 0..(PlanEnd - 1), t \in Tables : TableMoves(i, t)
<1> USE DEF Stmt, PlanEnd
<1>1. \A i \in 0..(PlanEnd - 1) : TableMoves(i, "connections")
  <2>1. \A k \in 1..PlanEnd : Plan(k).table = "connections" => k \in {1}
    BY DEF Plan
  <2>2. Plan(1) = Stmt("ensure", "connections", 1)
    BY DEF Plan
  <2>3. QED
    BY <2>1, <2>2 DEF TableMoves, Could, Ensured, Dropped, Created, Works, After
<1>2. \A i \in 0..(PlanEnd - 1) : TableMoves(i, "query_history")
  <2>1. \A k \in 1..PlanEnd : Plan(k).table = "query_history" => k \in {2, 3, 15, 16, 17}
    BY DEF Plan
  <2>2. /\ Plan(2) = Stmt("ensure", "query_history", 1)
        /\ Plan(3) = Stmt("index", "query_history", 1)
        /\ Plan(15) = Stmt("drop", "query_history", 0)
        /\ Plan(16) = Stmt("create", "query_history", 2)
        /\ Plan(17) = Stmt("index", "query_history", 2)
    BY DEF Plan
  <2>3. QED
    BY <2>1, <2>2 DEF TableMoves, Could, Ensured, Dropped, Created, Works, After
<1>3. \A i \in 0..(PlanEnd - 1) : TableMoves(i, "table_access")
  <2>1. \A k \in 1..PlanEnd : Plan(k).table = "table_access" => k \in {4, 5, 14, 18, 19}
    BY DEF Plan
  <2>2. /\ Plan(4) = Stmt("ensure", "table_access", 1)
        /\ Plan(5) = Stmt("index", "table_access", 1)
        /\ Plan(14) = Stmt("drop", "table_access", 0)
        /\ Plan(18) = Stmt("create", "table_access", 2)
        /\ Plan(19) = Stmt("index", "table_access", 2)
    BY DEF Plan
  <2>3. QED
    BY <2>1, <2>2 DEF TableMoves, Could, Ensured, Dropped, Created, Works, After
<1>4. \A i \in 0..(PlanEnd - 1) : TableMoves(i, "column_access")
  <2>1. \A k \in 1..PlanEnd : Plan(k).table = "column_access" => k \in {6, 7, 13, 20, 21}
    BY DEF Plan
  <2>2. /\ Plan(6) = Stmt("ensure", "column_access", 1)
        /\ Plan(7) = Stmt("index", "column_access", 1)
        /\ Plan(13) = Stmt("drop", "column_access", 0)
        /\ Plan(20) = Stmt("create", "column_access", 2)
        /\ Plan(21) = Stmt("index", "column_access", 2)
    BY DEF Plan
  <2>3. QED
    BY <2>1, <2>2 DEF TableMoves, Could, Ensured, Dropped, Created, Works, After
<1>5. \A i \in 0..(PlanEnd - 1) : TableMoves(i, "schema_tables")
  <2>1. \A k \in 1..PlanEnd : Plan(k).table = "schema_tables" => k \in {8, 12, 22}
    BY DEF Plan
  <2>2. /\ Plan(8) = Stmt("ensure", "schema_tables", 1)
        /\ Plan(12) = Stmt("drop", "schema_tables", 0)
        /\ Plan(22) = Stmt("create", "schema_tables", 2)
    BY DEF Plan
  <2>3. QED
    BY <2>1, <2>2 DEF TableMoves, Could, Ensured, Dropped, Created, Works, After
<1>6. \A i \in 0..(PlanEnd - 1) : TableMoves(i, "schema_columns")
  <2>1. \A k \in 1..PlanEnd : Plan(k).table = "schema_columns" => k \in {9, 11, 23}
    BY DEF Plan
  <2>2. /\ Plan(9) = Stmt("ensure", "schema_columns", 1)
        /\ Plan(11) = Stmt("drop", "schema_columns", 0)
        /\ Plan(23) = Stmt("create", "schema_columns", 2)
    BY DEF Plan
  <2>3. QED
    BY <2>1, <2>2 DEF TableMoves, Could, Ensured, Dropped, Created, Works, After
<1>7. \A i \in 0..(PlanEnd - 1) : TableMoves(i, "saved_queries")
  <2>1. \A k \in 1..PlanEnd : Plan(k).table = "saved_queries" => k \in {25, 26}
    BY DEF Plan
  <2>2. /\ Plan(25) = Stmt("create", "saved_queries", 3)
        /\ Plan(26) = Stmt("index", "saved_queries", 3)
    BY DEF Plan
  <2>3. QED
    BY <2>1, <2>2 DEF TableMoves, Could, Ensured, Dropped, Created, Works, After
<1>8. QED
  BY <1>1, <1>2, <1>3, <1>4, <1>5, <1>6, <1>7 DEF Tables, Analytics

\* A version is set where the plan enters it, and nowhere else.
LEMMA VersionMoves ==
  ASSUME NEW i \in 0..(PlanEnd - 1)
  PROVE  VersionAt(i + 1) = IF Plan(i + 1).op = "version" THEN Plan(i + 1).v ELSE VersionAt(i)
BY DEF VersionAt, Plan, Stmt, PlanEnd

\* A statement that succeeds brings the store to the next position.
LEMMA StoreMoves ==
  ASSUME TypeOK, NEW i \in 0..(PlanEnd - 1), StoreAt(i), Succeeds(Plan(i + 1)), Effect(Plan(i + 1))
  PROVE  StoreAt(i + 1)'
<1>1. version' = VersionAt(i + 1)
  BY VersionMoves DEF StoreAt, Effect
<1>2. ASSUME NEW t \in Tables PROVE shape'[t] \in Could(i + 1, t)
  <2>1. shape'[t] = After(Plan(i + 1), t, shape[t]) /\ Works(Plan(i + 1), t, shape[t])
    BY EffectIsAfter DEF TypeOK, Latest
  <2>2. shape[t] \in Could(i, t) /\ TableMoves(i, t)
    BY TablesMove DEF StoreAt
  <2>3. QED
    BY <2>1, <2>2 DEF TableMoves
<1>3. QED
  BY <1>1, <1>2 DEF StoreAt

\* The only statement that can fail there is the one that creates saved_queries.
LEMMA StoreSticks ==
  ASSUME TypeOK, NEW i \in 0..(PlanEnd - 1), StoreAt(i), ~Succeeds(Plan(i + 1))
  PROVE  i = 24 /\ version = 2 /\ shape["saved_queries"] = 3
<1> DEFINE st == Plan(i + 1)
<1>1. st.op \in {"create", "index"} /\ st.table \in Tables /\ ~Works(st, st.table, shape[st.table])
  BY StatementType DEF Succeeds, Works
<1>2. shape[st.table] \in Could(i, st.table) /\ TableMoves(i, st.table)
  BY <1>1, TablesMove DEF StoreAt
<1>3. i = 24 /\ st.table = "saved_queries" /\ shape[st.table] = 3
  BY <1>1, <1>2 DEF TableMoves
<1>4. QED
  BY <1>3 DEF StoreAt, VersionAt, PlanEnd

\* Wherever a migration stops, the next one starts from a store it allows for.
LEMMA StoreRestarts ==
  ASSUME NEW i \in 0..PlanEnd
  PROVE  /\ VersionAt(StartOf(VersionAt(i))) = VersionAt(i)
         /\ \A t \in Tables : Could(i, t) \subseteq Could(StartOf(VersionAt(i)), t)
<1>1. VersionAt(StartOf(VersionAt(i))) = VersionAt(i)
  BY DEF VersionAt, StartOf, PlanEnd
<1>2. ASSUME NEW t \in Tables PROVE Could(i, t) \subseteq Could(StartOf(VersionAt(i)), t)
  BY DEF Could, VersionAt, StartOf, Ensured, Dropped, Created, Tables, Analytics, PlanEnd
<1>3. QED
  BY <1>1, <1>2

\* At the end of the plan the store is the current one.
LEMMA EndIsCurrent ==
  ASSUME TypeOK, StoreAt(PlanEnd)
  PROVE  version = Latest /\ shape = Current
<1>1. \A t \in Tables : Could(PlanEnd, t) = {Current[t]}
  BY DEF Could, Current, Ensured, Dropped, Created, Tables, Analytics, PlanEnd
<1>2. \A t \in Tables : shape[t] = Current[t]
  BY <1>1 DEF StoreAt
<1>3. QED
  BY <1>2 DEF StoreAt, VersionAt, TypeOK, Current, Latest, PlanEnd

\* A process's next statement is the one its position in the plan says.
LEMMA HeadIsPlan ==
  ASSUME TypeOK, NEW p \in Procs
  PROVE  /\ Left(p) = PlanEnd - Pos(p) /\ Pos(p) \in 0..PlanEnd
         /\ Left(p) > 0 => Head1(p) = Plan(Pos(p) + 1)
<1>1. from[p] \in 0..Latest /\ done[p] \in Nat /\ Pos(p) <= PlanEnd
  BY DEF TypeOK
<1>2. Part(Script(from[p]), StartOf(from[p]), PlanEnd)
  BY <1>1, ScriptIsPlan
<1>3. StartOf(from[p]) \in 0..PlanEnd
  BY <1>1 DEF StartOf, PlanEnd, Latest
<1>4. Left(p) = PlanEnd - Pos(p) /\ Pos(p) \in 0..PlanEnd
  <2>1. Len(Script(from[p])) = PlanEnd - StartOf(from[p])
    BY <1>2 DEF Part
  <2>2. Left(p) = (PlanEnd - StartOf(from[p])) - done[p]
    BY <2>1 DEF Left
  <2>3. ASSUME NEW d \in Nat, NEW a \in 0..PlanEnd, a + d <= PlanEnd
        PROVE  (PlanEnd - a) - d = PlanEnd - (a + d) /\ a + d \in 0..PlanEnd
    BY <2>3 DEF PlanEnd
  <2>4. StartOf(from[p]) + done[p] <= PlanEnd
    BY <1>1 DEF Pos
  <2>5. QED
    BY <1>1, <1>3, <2>2, <2>3, <2>4 DEF Pos
<1>5. ASSUME Left(p) > 0 PROVE Head1(p) = Plan(Pos(p) + 1)
  <2>1. done[p] + 1 \in 1..(PlanEnd - StartOf(from[p]))
    BY <1>1, <1>3, <1>4, <1>5 DEF Pos, PlanEnd
  <2>2. Head1(p) = Plan(StartOf(from[p]) + (done[p] + 1))
    BY <1>2, <2>1 DEF Head1, Part
  <2>3. StartOf(from[p]) + (done[p] + 1) = Pos(p) + 1
    BY <1>1, <1>3 DEF Pos, PlanEnd
  <2>4. QED
    BY <2>2, <2>3
<1>6. QED
  BY <1>4, <1>5

-----------------------------------------------------------------------------
(* Each conjunct of the invariant is preserved                              *)

\* A process that changes nothing of another leaves its position alone.
LEMMA PosFrame ==
  ASSUME NEW p \in Procs, from'[p] = from[p], done'[p] = done[p]
  PROVE  Pos(p)' = Pos(p)
BY DEF Pos

\* A statement is run, and the process is one further in the plan.
LEMMA RunMoves ==
  ASSUME TypeOK, NEW p \in Procs, Run(p)
  PROVE  /\ Pos(p) \in 0..(PlanEnd - 1) /\ Pos(p)' = Pos(p) + 1
         /\ Succeeds(Plan(Pos(p) + 1)) /\ Effect(Plan(Pos(p) + 1))
         /\ \A q \in Procs \ {p} : Pos(q)' = Pos(q)
<1>1. Pos(p) \in 0..PlanEnd /\ Left(p) = PlanEnd - Pos(p) /\ Head1(p) = Plan(Pos(p) + 1)
  BY HeadIsPlan DEF Run
<1>2. Pos(p) \in 0..(PlanEnd - 1)
  BY <1>1 DEF Run, PlanEnd
<1>3. done'[p] = done[p] + 1 /\ from' = from /\ \A q \in Procs \ {p} : done'[q] = done[q]
  BY DEF Run, TypeOK
<1>4. Pos(p)' = Pos(p) + 1
  <2>1. StartOf(from[p]) \in Nat /\ done[p] \in Nat
    BY DEF TypeOK, StartOf, PlanEnd
  <2>2. QED
    BY <1>3, <2>1 DEF Pos
<1>5. QED
  BY <1>1, <1>2, <1>3, <1>4, PosFrame DEF Run

\* Every step leaves variables of their types.
LEMMA TypeStep ==
  ASSUME TypeOK, [Next]_vars
  PROVE  TypeOK'
<1> DEFINE Kinds == {"off", "migrating", "open", "failed"}
<1>1. ASSUME NEW p \in Procs, ReadVersion(p) PROVE TypeOK'
  <2>1. /\ from' \in [Procs -> 0..Latest] /\ done' \in [Procs -> Nat] /\ pc' \in [Procs -> Kinds]
        /\ from'[p] = version /\ done'[p] = 0
        /\ \A q \in Procs \ {p} : from'[q] = from[q] /\ done'[q] = done[q]
    BY <1>1 DEF ReadVersion, TypeOK
  <2>2. StartOf(version) + 0 <= PlanEnd
    BY DEF StartOf, PlanEnd, TypeOK, Latest
  <2>3. \A q \in Procs : Pos(q)' <= PlanEnd
    BY <2>1, <2>2, PosFrame DEF TypeOK, Pos
  <2>4. QED
    BY <1>1, <2>1, <2>3 DEF ReadVersion, TypeOK
<1>2. ASSUME NEW p \in Procs, Run(p) PROVE TypeOK'
  <2>1. version' \in 0..Latest /\ shape' \in [Tables -> 0..Latest] /\ history' \in BOOLEAN
    BY <1>2, RunMoves, EffectType
  <2>2. \A q \in Procs : Pos(q)' <= PlanEnd
    BY <1>2, RunMoves DEF TypeOK, PlanEnd
  <2>3. done' \in [Procs -> Nat] /\ overlap' \in BOOLEAN /\ UNCHANGED <<pc, from>>
    BY <1>2 DEF Run, TypeOK
  <2>4. QED
    BY <2>1, <2>2, <2>3 DEF TypeOK
<1>3. ASSUME NEW p \in Procs, Fail(p) \/ Opened(p) \/ Record(p) PROVE TypeOK'
  <2>1. /\ UNCHANGED <<version, shape, from, done>> /\ pc' \in [Procs -> Kinds]
        /\ history' \in BOOLEAN /\ overlap' \in BOOLEAN
    BY <1>3 DEF Fail, Opened, Record, TypeOK
  <2>2. QED
    BY <2>1, PosFrame DEF TypeOK
<1>4. ASSUME NEW p \in Procs, Exit(p) PROVE TypeOK'
  <2>1. /\ from' \in [Procs -> 0..Latest] /\ done' \in [Procs -> Nat] /\ pc' \in [Procs -> Kinds]
        /\ from'[p] = 0 /\ done'[p] = 0
        /\ \A q \in Procs \ {p} : from'[q] = from[q] /\ done'[q] = done[q]
    BY <1>4 DEF Exit, TypeOK, Latest
  <2>2. \A q \in Procs : Pos(q)' <= PlanEnd
    BY <2>1, PosFrame DEF TypeOK, Pos, StartOf, PlanEnd
  <2>3. QED
    BY <1>4, <2>1, <2>2 DEF Exit, TypeOK
<1>5. CASE UNCHANGED vars
  BY <1>5, PosFrame DEF TypeOK, vars
<1>6. QED
  BY <1>1, <1>2, <1>3, <1>4, <1>5 DEF Next

\* While nothing overlaps, whoever runs a statement is alone: another process
\* that is migrating would have to be at the end, where the store is not.
LEMMA RunsAlone ==
  ASSUME TypeOK, Alone, NEW p \in Procs, ~overlap, ~Crowded(p),
         pc[p] = "migrating", Left(p) > 0
  PROVE  \A q \in Procs \ {p} : pc[q] \notin {"migrating", "open"}
<1>1. Pos(p) \in 0..PlanEnd /\ Pos(p) # PlanEnd /\ version = VersionAt(Pos(p))
  BY HeadIsPlan DEF PlanEnd, Alone, StoreAt
<1>2. version # 3
  BY <1>1 DEF VersionAt, PlanEnd
<1>3. ~StoreAt(PlanEnd)
  BY <1>2 DEF StoreAt, VersionAt, PlanEnd
<1>4. ASSUME NEW q \in Procs \ {p}, pc[q] = "migrating" PROVE FALSE
  <2>1. ~(Left(q) > 0)
    BY <1>4 DEF Crowded
  <2>2. Pos(q) = PlanEnd
    BY <2>1, HeadIsPlan DEF PlanEnd
  <2>3. QED
    BY <1>3, <1>4, <2>2 DEF Alone
<1>5. QED
  BY <1>3, <1>4 DEF Alone

\* A process that migrates alone finds the store where its script is.
LEMMA AloneStep ==
  ASSUME TypeOK, Alone, [Next]_vars
  PROVE  Alone'
<1> SUFFICES ASSUME ~overlap'
             PROVE  /\ StoreAt(StartOf(version))'
                    /\ \A q \in Procs : pc'[q] = "migrating" => StoreAt(Pos(q))'
                    /\ \A q \in Procs : pc'[q] = "open" => StoreAt(PlanEnd)'
  BY DEF Alone
<1> DEFINE Same == UNCHANGED <<version, shape>>
<1>1. Same => \A i : StoreAt(i)' = StoreAt(i)
  BY DEF StoreAt
<1>2. ASSUME NEW p \in Procs, ReadVersion(p) PROVE Alone'
  <2>1. Same /\ ~overlap /\ Pos(p)' = StartOf(version)
    BY <1>2 DEF ReadVersion, Pos, TypeOK, StartOf, PlanEnd
  <2>2. \A q \in Procs \ {p} : pc'[q] = pc[q] /\ Pos(q)' = Pos(q)
    BY <1>2, PosFrame DEF ReadVersion, TypeOK
  <2>3. pc'[p] = "migrating"
    BY <1>2 DEF ReadVersion, TypeOK
  <2>4. QED
    BY <1>1, <2>1, <2>2, <2>3 DEF Alone
<1>3. ASSUME NEW p \in Procs, Run(p) PROVE Alone'
  <2>1. ~overlap /\ pc' = pc /\ \A q \in Procs \ {p} : pc[q] \notin {"migrating", "open"}
    BY <1>3, RunsAlone DEF Run
  <2>2. Pos(p) \in 0..(PlanEnd - 1) /\ Pos(p)' = Pos(p) + 1 /\ pc[p] = "migrating" /\ StoreAt(Pos(p))
    BY <1>3, <2>1, RunMoves DEF Run, Alone
  <2>3. PICK i \in 0..(PlanEnd - 1) : i = Pos(p)
    BY <2>2
  <2>4. StoreAt(i + 1)' /\ i + 1 \in 0..PlanEnd
    BY <1>3, <2>2, <2>3, RunMoves, StoreMoves DEF PlanEnd
  <2>5. StoreAt(StartOf(version))'
    BY <2>4, StoreRestarts DEF StoreAt
  <2>6. StoreAt(Pos(p))'
    BY <2>2, <2>3, <2>4 DEF StoreAt
  <2>7. QED
    BY <2>1, <2>2, <2>5, <2>6 DEF Alone
<1>4. ASSUME NEW p \in Procs, Fail(p) \/ Record(p) PROVE Alone'
  <2>1. Same /\ ~overlap /\ \A q \in Procs : Pos(q)' = Pos(q) /\ (pc'[q] = pc[q] \/ pc'[q] = "failed")
    BY <1>4, PosFrame DEF Fail, Record, TypeOK
  <2>2. QED
    BY <1>1, <2>1 DEF Alone
<1>5. ASSUME NEW p \in Procs, Opened(p) PROVE Alone'
  <2>1. Same /\ ~overlap /\ pc[p] = "migrating" /\ Pos(p) = PlanEnd
    BY <1>5, HeadIsPlan DEF Opened, PlanEnd
  <2>2. StoreAt(PlanEnd)
    BY <2>1 DEF Alone
  <2>3. \A q \in Procs : Pos(q)' = Pos(q) /\ (pc'[q] = "migrating" => pc[q] = "migrating")
    BY <1>5, PosFrame DEF Opened, TypeOK
  <2>4. QED
    BY <1>1, <2>1, <2>2, <2>3 DEF Alone
<1>6. ASSUME NEW p \in Procs, Exit(p) PROVE Alone'
  <2>1. Same /\ ~overlap /\ pc'[p] = "off" /\ \A q \in Procs \ {p} : Pos(q)' = Pos(q) /\ pc'[q] = pc[q]
    BY <1>6, PosFrame DEF Exit, TypeOK
  <2>2. QED
    BY <1>1, <2>1 DEF Alone
<1>7. CASE UNCHANGED vars
  BY <1>1, <1>7, PosFrame DEF Alone, vars
<1>8. QED
  BY <1>2, <1>3, <1>4, <1>5, <1>6, <1>7 DEF Next, Alone

\* A store is stuck by the script to version 3 only.
LEMMA StuckStep ==
  ASSUME TypeOK, Alone, Stuck, [Next]_vars
  PROVE  Stuck'
<1> SUFFICES ASSUME ~overlap', "busy" \notin Faults, NEW f \in Procs, pc'[f] = "failed"
             PROVE  /\ version' = 2 /\ shape'["saved_queries"] = 3
                    /\ \A q \in Procs : pc'[q] = "migrating" => Pos(q)' = 24
  BY DEF Stuck
<1>1. ASSUME NEW p \in Procs, ReadVersion(p)
      PROVE  /\ version' = 2 /\ shape'["saved_queries"] = 3
             /\ \A q \in Procs : pc'[q] = "migrating" => Pos(q)' = 24
  <2>1. UNCHANGED <<version, shape, overlap>> /\ Pos(p)' = StartOf(version) /\ pc[f] = "failed"
    BY <1>1 DEF ReadVersion, Pos, TypeOK, StartOf, PlanEnd
  <2>2. version = 2 /\ shape["saved_queries"] = 3
    BY <2>1 DEF Stuck
  <2>3. Pos(p)' = 24
    BY <2>1, <2>2 DEF StartOf
  <2>4. \A q \in Procs \ {p} : pc'[q] = pc[q] /\ Pos(q)' = Pos(q)
    BY <1>1, PosFrame DEF ReadVersion, TypeOK
  <2>5. QED
    BY <2>1, <2>2, <2>3, <2>4 DEF Stuck
<1>2. ASSUME NEW p \in Procs, Run(p) PROVE FALSE
  <2>1. ~overlap /\ pc[f] = "failed" /\ pc[p] = "migrating"
    BY <1>2 DEF Run
  <2>2. Pos(p) = 24 /\ shape["saved_queries"] = 3
    BY <2>1 DEF Stuck
  <2>3. Succeeds(Stmt("create", "saved_queries", 3))
    <3>1. Plan(25) = Stmt("create", "saved_queries", 3)
      BY DEF Plan
    <3>2. Succeeds(Plan(24 + 1))
      BY <1>2, <2>2, RunMoves
    <3>3. QED
      BY <3>1, <3>2
  <2>4. QED
    BY <2>2, <2>3 DEF Succeeds, Stmt
<1>3. ASSUME NEW p \in Procs, Fail(p)
      PROVE  /\ version' = 2 /\ shape'["saved_queries"] = 3
             /\ \A q \in Procs : pc'[q] = "migrating" => Pos(q)' = 24
  <2>1. /\ ~overlap /\ ~Crowded(p) /\ pc[p] = "migrating" /\ Left(p) > 0 /\ ~Succeeds(Head1(p))
        /\ UNCHANGED <<version, shape>>
    BY <1>3 DEF Fail
  <2>2. Pos(p) \in 0..(PlanEnd - 1) /\ ~Succeeds(Plan(Pos(p) + 1)) /\ StoreAt(Pos(p))
    BY <2>1, HeadIsPlan DEF Alone, PlanEnd
  <2>3. version = 2 /\ shape["saved_queries"] = 3
    BY <2>2, StoreSticks
  <2>4. \A q \in Procs : pc'[q] # "migrating"
    BY <1>3, <2>1, RunsAlone DEF Fail, TypeOK
  <2>5. QED
    BY <2>1, <2>3, <2>4
<1>4. ASSUME NEW p \in Procs, Opened(p) \/ Record(p) \/ Exit(p)
      PROVE  /\ version' = 2 /\ shape'["saved_queries"] = 3
             /\ \A q \in Procs : pc'[q] = "migrating" => Pos(q)' = 24
  <2>1. /\ UNCHANGED <<version, shape, overlap>> /\ pc[f] = "failed"
        /\ \A q \in Procs : pc'[q] = "migrating" => pc[q] = "migrating" /\ Pos(q)' = Pos(q)
    BY <1>4, PosFrame DEF Opened, Record, Exit, TypeOK
  <2>2. QED
    BY <2>1 DEF Stuck
<1>5. CASE UNCHANGED vars
  BY <1>5, PosFrame DEF Stuck, vars
<1>6. QED
  BY <1>1, <1>2, <1>3, <1>4, <1>5 DEF Next

-----------------------------------------------------------------------------
(* The theorems                                                             *)

\* The invariant holds of every store that a process may find.
LEMMA InitIInv == Init => IInv
<1> SUFFICES ASSUME Init PROVE IInv
  OBVIOUS
<1>1. version \in {0, 1, 2, 3} /\ shape = ShapeAt(version)
  BY DEF Init, Latest
<1>2. TypeOK
  <2>1. ShapeAt(version) \in [Tables -> 0..Latest]
    BY <1>1 DEF ShapeAt, Current, Tables, Latest
  <2>2. \A p \in Procs : Pos(p) <= PlanEnd
    <3>1. \A p \in Procs : from[p] = 0 /\ done[p] = 0
      BY DEF Init
    <3>2. StartOf(0) + 0 <= PlanEnd
      BY DEF StartOf, PlanEnd
    <3>3. QED
      BY <3>1, <3>2 DEF Pos
  <2>3. history \in BOOLEAN
    BY DEF Init
  <2>4. overlap \in BOOLEAN
    BY DEF Init
  <2>5. /\ pc \in [Procs -> {"off", "migrating", "open", "failed"}]
        /\ from \in [Procs -> 0..Latest] /\ done \in [Procs -> Nat] /\ version \in 0..Latest
    BY <1>1 DEF Init, Latest
  <2>6. QED
    BY <1>1, <2>1, <2>2, <2>3, <2>4, <2>5 DEF TypeOK
<1>3. StoreAt(StartOf(version))
  <2>1. VersionAt(StartOf(version)) = version
    BY <1>1 DEF VersionAt, StartOf, PlanEnd
  <2>2. \A t \in Tables : ShapeAt(version)[t] \in Could(StartOf(version), t)
    BY <1>1 DEF ShapeAt, Current, Could, StartOf, Ensured, Dropped, Created, Tables, Analytics, PlanEnd
  <2>3. QED
    BY <1>1, <2>1, <2>2 DEF StoreAt
<1>4. Alone /\ Stuck
  BY <1>3 DEF Init, Alone, Stuck
<1>5. QED
  BY <1>2, <1>4 DEF IInv

\* Every step preserves the invariant.
LEMMA NextIInv == IInv /\ [Next]_vars => IInv'
BY TypeStep, AloneStep, StuckStep DEF IInv

\* The inductive invariant: without overlapping migrations the store is where
\* the plan has it at the position of whoever migrates.
THEOREM InductiveInvariant == Spec => []IInv
BY InitIInv, NextIInv, PTL DEF Spec

\* SqliteRepository::open returns only on a store of the latest version whose
\* tables are all the current ones, whatever crashes came before.
THEOREM OpenIsCurrent == Spec => []OpenedIsCurrent
<1>1. IInv => OpenedIsCurrent
  BY EndIsCurrent DEF IInv, Alone, OpenedIsCurrent
<1>2. QED
  BY <1>1, InductiveInvariant, PTL

\* A statement fails of itself in one place only: a restart on a store that
\* crashed between CREATE TABLE saved_queries and the pragma of version 3.
THEOREM OnlyV3Sticks == Spec => []StuckOnlyAtV3
<1>1. IInv => StuckOnlyAtV3
  BY DEF IInv, Stuck, StuckOnlyAtV3
<1>2. QED
  BY <1>1, InductiveInvariant, PTL

\* The statement that drops query_history is run on the way to version 2 alone.
LEMMA DropIsBeforeV2 ==
  ASSUME NEW i \in 0..(PlanEnd - 1), Plan(i + 1).op = "drop"
  PROVE  VersionAt(i) = 1
BY DEF Plan, Stmt, VersionAt, PlanEnd

\* Without overlap no step drops the history of a store of version 2.
LEMMA KeptStep ==
  ASSUME IInv, [Next]_vars, ~overlap', version >= 2, history
  PROVE  history'
<1> USE DEF IInv
<1>1. ASSUME NEW p \in Procs, Run(p) PROVE history'
  <2>1. ~overlap /\ pc[p] = "migrating"
    BY <1>1 DEF Run
  <2>2. Pos(p) \in 0..(PlanEnd - 1) /\ VersionAt(Pos(p)) # 1
    BY <1>1, <2>1, RunMoves DEF Alone, StoreAt
  <2>3. Plan(Pos(p) + 1).op # "drop"
    BY <2>2, DropIsBeforeV2
  <2>4. QED
    BY <1>1, <2>3, RunMoves DEF Effect
<1>2. ASSUME NEW p \in Procs, ReadVersion(p) \/ Fail(p) \/ Opened(p) \/ Record(p) \/ Exit(p)
      PROVE  history'
  BY <1>2 DEF ReadVersion, Fail, Opened, Record, Exit
<1>3. QED
  BY <1>1, <1>2 DEF Next, vars

\* From version 2 on no migration clears the recorded queries again, however
\* often it is repeated after crashes.
THEOREM HistoryIsKept == Spec => HistoryKept
<1>1. IInv /\ [Next]_vars => [~overlap' /\ version >= 2 /\ history => history']_vars
  BY KeptStep
<1>2. QED
  BY <1>1, InductiveInvariant, PTL DEF Spec, HistoryKept

=============================================================================
