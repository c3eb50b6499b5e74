----------------------------- MODULE QueryRefs -----------------------------
(***************************************************************************)
(* The tables and columns that record_query counts for an executed text:   *)
(* what query/alias.rs finds in the syntax tree and how it attributes a    *)
(* column to a table, beside what the text reads by the scoping rules of   *)
(* SQL.                                                                    *)
(*                                                                         *)
(* A text is a sequence of statements [kind, query] or [kind, table].      *)
(*   query   [ctes, body]: the ctes are a sequence of [name, query]        *)
(*   body    [kind |-> "select", from, stars, mentions], or                *)
(*           [kind |-> "nested", query] for parentheses,                   *)
(*           [kind |-> "setop"] for UNION and the like                     *)
(*   from    a sequence of factors: a table [kind, name, alias], a         *)
(*           subquery [kind |-> "derived", query, alias], or a join in     *)
(*           parentheses [kind |-> "joined", of], of a set of tables       *)
(*   stars   what * stands after: NoId for a bare one                      *)
(*   mentions  the columns [of, name, under] named in each of the three    *)
(*           Places that are looked at, with the forms of the expressions    *)
(*           they stand under: an expression is the set of the ways from its *)
(*           root to its columns.  GROUP BY, ORDER BY, HAVING and USING are   *)
(*           not looked at; of a subquery inside of an expression only what   *)
(*           it takes from the select around it is among the mentions         *)
(***************************************************************************)
EXTENDS Naturals, Sequences, FiniteSets, SequencesExt

CONSTANTS
  Columns,
  Schema,      \* the columns of each table, as the shell has loaded them
  Sorted,      \* its tables in order
  Ids,         \* names of tables, aliases and ctes
  NoId,
  QueryTrees,  \* bound: the queries of the texts and all that are inside of them
  Depth,       \* of a query: how deep it goes, syntax trees being finite
  Texts        \* bound: what is executed

Tables == DOMAIN Schema
Places == {"projection", "where", "on"}

\* The forms of expressions.  The Exotic ones, the comment of the walk says, are
\* "simply skipped" (alias.rs:215-216), ILIKE and CASE among them.
Common ==
  {"BinaryOp", "UnaryOp", "Nested", "IsNull", "IsNotNull", "Collate", "Cast", "InList",
   "Between", "Like", "Tuple", "Argument"}
Exotic ==
  {"ILike", "Case", "IsTrue", "IsDistinctFrom", "AnyOp", "Extract", "AtTimeZone", "Array",
   "Subscript", "InSubquery", "Subquery", "Filter", "Over"}

Mentions == [of : Ids \union {NoId}, name : Columns, under : SUBSET (Common \union Exotic)]

Factors ==
  [kind : {"table"}, name : Ids, alias : Ids \union {NoId}]
  \union [kind : {"derived"}, query : QueryTrees, alias : Ids \union {NoId}]
  \union [kind : {"joined"}, of : SUBSET Tables]
Statements ==
  [kind : {"query", "update", "delete"}, query : QueryTrees]
  \union [kind : {"insert"}, table : Ids] \union [kind : {"other"}]

\* The queries that a query has directly inside of it.
InnerQueries(q) ==
  {q.ctes[i].query : i \in DOMAIN q.ctes}
  \union CASE q.body.kind = "select" -> {f.query : f \in {g \in ToSet(q.body.from) : g.kind = "derived"}}
           [] q.body.kind = "nested" -> {q.body.query}
           [] q.body.kind = "setop"  -> {}

ASSUME SchemaAssumption ==
  /\ Tables \subseteq Ids /\ NoId \notin Ids
  /\ \A t \in Tables : Schema[t] \subseteq Columns
  /\ ToSet(Sorted) = Tables

ASSUME QueryAssumption ==
  /\ Depth \in [QueryTrees -> Nat]
  /\ \A q \in QueryTrees :
       /\ q.ctes \in Seq([name : Ids, query : QueryTrees])
       /\ \/ q.body.kind = "select" /\ q.body.from \in Seq(Factors)
             /\ q.body.mentions \in [Places -> SUBSET Mentions]
          \/ q.body.kind = "nested" /\ q.body.query \in QueryTrees
          \/ q.body.kind = "setop"
       /\ \A r \in InnerQueries(q) : Depth[r] < Depth[q]
  /\ Texts \subseteq Seq(Statements)

VARIABLES
  text,     \* the text recorded, <<>> for none
  tables,   \* the tables found, one access row for each place in the sequence
  columns   \* the <<table, column>> pairs found

refsVars == <<text, tables, columns>>

Concat(Of(_), s) == FlattenSeq([i \in DOMAIN s |-> Of(s[i])])
-----------------------------------------------------------------------------
(* What is found                                                           *)

\* Vec::dedup: repetitions next to each other go.
Dedup(s) == FlattenSeq([i \in DOMAIN s |-> IF i > 1 /\ s[i] = s[i-1] THEN <<>> ELSE <<s[i]>>])

\* What Of gives for the factors of a query, beside what is found in the queries
\* inside of it, in order.
Collect(q, Of(_, _), found) ==
  LET OfCte(c) == found[c.query]
      OfFactor(f) == Of(f, found)
  IN  Concat(OfCte, q.ctes) \o
      CASE q.body.kind = "select" -> Concat(OfFactor, q.body.from)
        [] q.body.kind = "nested" -> found[q.body.query]
        [] q.body.kind = "setop"  -> <<>>

Bind(f, to) == IF f.alias = NoId THEN <<>> ELSE <<[id |-> f.alias, to |-> to]>>

FactorAliases(f, found) ==
  CASE f.kind = "table"   -> Bind(f, f.name)
    [] f.kind = "derived" -> Bind(f, NoId) \o found[f.query]
    [] f.kind = "joined"  -> <<>>

FactorTables(f, found) ==
  CASE f.kind = "table"   -> <<f.name>>
    [] f.kind = "derived" -> found[f.query]
    [] f.kind = "joined"  -> <<>>

\* The aliases, in the order in which they enter the map, and the tables.
AliasesOf[q \in QueryTrees] == Collect(q, FactorAliases, AliasesOf)
TablesOf[q \in QueryTrees]  == Collect(q, FactorTables, TablesOf)

FirstSelect[q \in QueryTrees] ==
  IF q.body.kind = "select" THEN <<q.body>>
  ELSE IF q.body.kind = "nested" THEN FirstSelect[q.body.query] ELSE <<>>

BuildAliasMap(t) ==
  LET Of(st) == IF st.kind \in {"query", "update"} THEN AliasesOf[st.query] ELSE <<>>
  IN  Concat(Of, t)

ExtractReferencedTables(t) ==
  LET Of(st) == CASE st.kind \in {"query", "update", "delete"} -> TablesOf[st.query]
                  [] st.kind = "insert"                        -> <<st.table>>
                  [] st.kind = "other"                         -> <<>>
  IN  Dedup(Concat(Of, t))

\* The table that a qualifier stands for: the last alias of that name, or the
\* name itself, also for the alias of a subquery.
\* Faulty: the name itself.  (A "Faulty" definition is no part of the model: it
\* is the next one with a plausible bug.)
ResolveNothing(map, id) == id
Resolve(map, id) ==
  LET i == SelectLastInSeq(map, LAMBDA e : e.id = id)
  IN  IF i = 0 THEN id ELSE IF map[i].to = NoId THEN id ELSE map[i].to

HasCol(t, c) == t \in Tables /\ c \in Schema[t]

ResolveToken(map, referenced, token) ==
  LET t      == Resolve(map, token.of)
      among  == IF referenced = <<>> THEN Sorted ELSE referenced
      owner  == SelectInSeq(among, LAMBDA u : HasCol(u, token.name))
  IN  IF token.of # NoId THEN IF HasCol(t, token.name) THEN {<<t, token.name>>} ELSE {}
      ELSE IF owner = 0 THEN {} ELSE {<<among[owner], token.name>>}

ExpandWildcard(map, referenced, of) ==
  LET expanded == IF of = NoId THEN ToSet(referenced) ELSE {Resolve(map, of)}
  IN  UNION {{t} \X Schema[t] : t \in expanded \cap Tables}

\* Faulty: what is compared with LIKE is forgotten.
WalkedWithoutLike == {"BinaryOp", "UnaryOp", "Nested", "IsNull", "IsNotNull", "Collate", "Cast",
                      "InList", "Between", "Tuple", "Argument"}

\* The arms of collect_expr_columns that go on into what they hold: operators,
\* tests, lists and the arguments of a function, not its FILTER and OVER.  Under
\* any other form nothing is collected.
Walked == {"BinaryOp", "UnaryOp"} \union {"Nested", "IsNull", "IsNotNull", "Collate", "Cast"}
          \union {"InList"} \union {"Between"} \union {"Like"} \union {"Tuple"} \union {"Argument"}

Mentioned(select) == {token \in UNION {select.mentions[p] : p \in Places} : token.under \subseteq Walked}

\* What a select reads, by the aliases and the tables of the whole text.
ColumnsOf(map, referenced, select) ==
  (UNION {ExpandWildcard(map, referenced, of) : of \in select.stars})
  \union (UNION {ResolveToken(map, referenced, token) : token \in Mentioned(select)})

\* The columns of the first select of the first query.
ExtractColumnRefs(t) ==
  LET query == SelectInSeq(t, LAMBDA st : st.kind = "query" /\ FirstSelect[st.query] # <<>>)
  IN  IF query = 0 THEN {}
      ELSE ColumnsOf(BuildAliasMap(t), ExtractReferencedTables(t), FirstSelect[t[query].query][1])
-----------------------------------------------------------------------------
(* What SQL says                                                           *)

Binding(f) == IF f.alias = NoId THEN f.name ELSE f.alias

\* The columns that a factor of a query shows: under which qualifier and name,
\* and which column of which table they are.
Shown(ctes, f, output) ==
  LET Cte(name) == {i \in DOMAIN ctes : ctes[i].name = name}
      Renamed(q) == {[of |-> Binding(f), name |-> e.name, from |-> e.from] : e \in output[q]}
      Own(of, t) == {[of |-> of, name |-> c, from |-> <<t, c>>] : c \in Schema[t]}
  IN  CASE f.kind = "derived" -> {[of |-> f.alias, name |-> e.name, from |-> e.from] : e \in output[f.query]}
        [] f.kind = "joined"  -> UNION {Own(t, t) : t \in f.of}
        [] f.kind = "table"   -> IF Cte(f.name) # {} THEN UNION {Renamed(ctes[i].query) : i \in Cte(f.name)}
                                 ELSE Own(Binding(f), f.name)

Fits(e, token) == e.name = token.name /\ token.of \in {NoId, e.of}

\* A column keeps its name in the output under these forms; any other expression
\* is a column of no table.
KeepsName(token) == token.under \subseteq {"Nested", "Cast", "Collate", "Subscript"}

\* What a query gives to the query around it.
OutputOf[q \in QueryTrees] ==
  LET s     == q.body
      shown == UNION {Shown(q.ctes, s.from[i], OutputOf) : i \in DOMAIN s.from}
  IN  IF s.kind = "select"
      THEN {e \in shown : \/ \E of \in s.stars : of \in {NoId, e.of}
                         \/ \E token \in s.mentions["projection"] : KeepsName(token) /\ Fits(e, token)}
      ELSE IF s.kind = "nested" THEN OutputOf[s.query] ELSE {}

\* What the factors of the select show, each with the factor's place.
Scope(q) == UNION {{i} \X Shown(q.ctes, q.body.from[i], OutputOf) : i \in DOMAIN q.body.from}

\* All that the select names, and what it names outside of Exotic forms: the
\* references beside Mentioned.
AllNamed(select)   == UNION Range(select.mentions)
PlainNamed(select) == {token \in AllNamed(select) : token.under \cap Exotic = {}}

\* What a factor is called in the select.
Called(f) ==
  CASE f.kind = "table"   -> {Binding(f)}
    [] f.kind = "derived" -> {f.alias} \ {NoId}
    [] f.kind = "joined"  -> f.of

\* A select over tables that are known: names in FROM differ, every token has one
\* meaning, every qualified star a factor.
Clear(q) ==
  LET from == q.body.from
      Known(f) == f.kind = "table" => f.name \in Tables \union {c.name : c \in ToSet(q.ctes)}
  IN  /\ \A i, j \in DOMAIN from : i # j => Called(from[i]) \cap Called(from[j]) = {}
      /\ \A of \in q.body.stars \ {NoId} : \E i \in DOMAIN from : of \in Called(from[i])
      /\ (\A i \in DOMAIN from : Known(from[i])) =>
           \A token \in AllNamed(q.body) : Cardinality({x \in Scope(q) : Fits(x[2], token)}) = 1

\* What the server may take.
Taken[q \in QueryTrees] ==
  IF q.body.kind = "select" THEN Clear(q)
  ELSE IF q.body.kind = "nested" THEN Taken[q.body.query] ELSE TRUE

\* The columns of tables that the select of a query reads by its stars and tokens.
Reads(q, tokens) ==
  {x[2].from : x \in {y \in Scope(q) : \/ \E of \in q.body.stars : of \in {NoId, y[2].of}
                                      \/ \E token \in tokens : Fits(y[2], token)}}
-----------------------------------------------------------------------------
RefsInit == text = <<>> /\ tables = <<>> /\ columns = {}

\* A text is recorded that the server has taken.
RecordQuery ==
  /\ text = <<>>
  /\ \E t \in Texts :
       /\ \A st \in ToSet(t) : st.kind = "query" => Taken[st.query]
       /\ text' = t
       /\ tables' = ExtractReferencedTables(t)
       /\ columns' = ExtractColumnRefs(t)

\* The rows are written; the loop goes on.
Return == text # <<>> /\ text' = <<>> /\ tables' = <<>> /\ columns' = {}

RefsNext == RecordQuery \/ Return

RefsSpec == RefsInit /\ [][RefsNext]_refsVars
-----------------------------------------------------------------------------
\* One query over tables alone: what \stats counts is read by the query, and what
\* it reads in the places that extract_column_refs promises to cover (alias.rs:363)
\* is counted, under whatever aliases, also those that are names of other tables.
\* Named exception: a column that stands only under an Exotic form is not counted
\* (WHERE mail ILIKE 'x'), while those beside it are.
OverTables(t) ==
  /\ Len(t) = 1 /\ t[1].kind = "query" /\ t[1].query.ctes = <<>>
  /\ t[1].query.body.kind = "select"
  /\ \A f \in ToSet(t[1].query.body.from) : f.kind = "table" /\ f.name \in Tables
PlainIsExact ==
  OverTables(text) =>
    LET q == text[1].query
    IN  Reads(q, PlainNamed(q.body)) \subseteq columns /\ columns \subseteq Reads(q, AllNamed(q.body))

\* A qualified column of a table is counted for that table in any text, unless
\* the text uses its qualifier for something else as well, or the column stands
\* under an Exotic form.
Unshared(id, t) == \A e \in ToSet(BuildAliasMap(text)) : e.id = id => e.to = t
QualifiedIsCounted ==
  text # <<>> /\ text[1].kind = "query" =>
    LET s == text[1].query.body
    IN  s.kind = "select" =>
          \A token \in PlainNamed(s), k \in DOMAIN s.from :
            /\ s.from[k].kind = "table" /\ HasCol(s.from[k].name, token.name)
            /\ token.of # NoId /\ token.of = Binding(s.from[k]) /\ Unshared(token.of, s.from[k].name)
            => <<s.from[k].name, token.name>> \in columns
=============================================================================
