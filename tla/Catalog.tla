------------------------------- MODULE Catalog -------------------------------
(***************************************************************************)
(* The catalog queries of core's postgres_catalog.rs: how \d <table> puts  *)
(* a description together from up to six statements, and what \explain     *)
(* keeps of the plan that the server returns.                              *)
(*                                                                         *)
(* A name is a sequence of characters, typed by the user.  Some statements *)
(* look a table up by ::regclass, which folds case, splits at the dot and  *)
(* goes along the search path, others compare the text with a bare name in *)
(* any schema.  Names of three parts and of digits alone are left out.     *)
(***************************************************************************)
EXTENDS Sequences, FiniteSets, SequencesExt

CONSTANTS
  Relations,   \* [schema, name, columns, indexes, foreign_keys, checks, triggers]
  SearchPath,  \* the schemas that a bare name is looked for in
  Public,      \* the name of the schema public
  NameChars,   \* letters, digits and _
  Lower,       \* what each of them folds to
  PlanNodes    \* the nodes of the server's plans

ASSUME CatalogAssumption ==
  /\ IsFiniteSet(Relations)
  /\ \A r, s \in Relations : r.schema = s.schema /\ r.name = s.name => r = s
  /\ NameChars \subseteq DOMAIN Lower /\ Lower["."] = "."
  /\ \A node \in PlanNodes : ToSet(node.plans) \subseteq PlanNodes

Sections == {"indexes", "foreign_keys", "checks", "triggers"}
\* The statements after the first, any of which may fail.
LaterQueries == Sections \union {"schema"}

ValidateTableName(name) == name # <<>> /\ \A c \in ToSet(name) : c \in NameChars \union {"."}

Dots(name) == SelectSeq([i \in DOMAIN name |-> i], LAMBDA i : name[i] = ".")

\* 'name'::regclass: one relation, or an error.
Regclass(name) ==
  LET folded == [i \in DOMAIN name |-> Lower[name[i]]]
      dots   == Dots(name)
      inPath == SelectSeq(SearchPath, LAMBDA s : \E r \in Relations : r.schema = s /\ r.name = folded)
  IN  CASE Len(dots) = 0 -> {r \in Relations : r.name = folded /\ inPath # <<>> /\ r.schema = inPath[1]}
        [] Len(dots) = 1 -> {r \in Relations : r.schema \o <<".">> \o r.name = folded}
        [] OTHER         -> {}

\* relname = 'name', tablename = 'name'
Named(name) == {r \in Relations : r.name = name}

ColumnsQuery(name, extended) ==
  {[k \in DOMAIN r.columns |-> IF extended THEN r.columns[k] ELSE SubSeq(r.columns[k], 1, 4)] : r \in Regclass(name)}

SchemaQuery(name) == {r.schema : r \in Named(name)}
\* Faulty: in the schema public only.  (A "Faulty" definition
\* is no part of the model: it is the next one with a plausible bug.)
IndexesOfPublic(name) == UNION {r.indexes : r \in {s \in Named(name) : s.schema = Public}}
IndexesQuery(name) == UNION {r.indexes : r \in Named(name)}
ForeignKeysQuery(name) == UNION {r.foreign_keys : r \in Regclass(name)}
ChecksQuery(name) == UNION {r.checks : r \in Regclass(name)}
TriggersQuery(name) == UNION {r.triggers : r \in Regclass(name)}

\* The first row, in no order; "public" for none, and for an error.
FetchSchema(name, failing) ==
  IF "schema" \in failing \/ SchemaQuery(name) = {} THEN {Public} ELSE SchemaQuery(name)

\* An error is no entry.
FetchNamed(section, name, failing) ==
  CASE section \in failing        -> {}
    [] section = "indexes"        -> IndexesQuery(name)
    [] section = "foreign_keys"   -> ForeignKeysQuery(name)
    [] section = "checks"         -> ChecksQuery(name)
    [] section = "triggers"       -> TriggersQuery(name)

NotFound == [found |-> FALSE]
Description(name, extended, columns, schema, failing) ==
  [found |-> TRUE, schema |-> schema, name |-> name, extended |-> extended, columns |-> columns,
   sections |-> [s \in Sections |-> IF s = "triggers" /\ ~extended THEN {} ELSE FetchNamed(s, name, failing)]]

\* What describe_table may return.  An invalid name, one that the server does not
\* know, an error of the first statement and a table without columns are alike.
DescribeTable(name, extended, failing) ==
  IF ~ValidateTableName(name) \/ ColumnsQuery(name, extended) \in {{}, {<<>>}} THEN {NotFound}
  ELSE {Description(name, extended, columns, schema, failing) :
          columns \in ColumnsQuery(name, extended), schema \in FetchSchema(name, failing)}
-----------------------------------------------------------------------------
(* Plans: a node of the server's answer is [type, relation, cost, rows,    *)
(* actual, attributes, plans], where attributes is a function.             *)

ExplainDetailKeys == <<"Join Type", "Index Cond", "Hash Cond", "Filter">>

ParseExplainNode[node \in PlanNodes] ==
  LET keys == SelectSeq(ExplainDetailKeys, LAMBDA k : k \in DOMAIN node.attributes)
  IN  [type |-> node.type, relation |-> node.relation, cost |-> node.cost, rows |-> node.rows,
       actual   |-> node.actual,
       detail   |-> [i \in DOMAIN keys |-> <<keys[i], node.attributes[keys[i]]>>],
       children |-> [i \in DOMAIN node.plans |-> ParseExplainNode[node.plans[i]]]]
=============================================================================
