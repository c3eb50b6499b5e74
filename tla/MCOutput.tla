------------------------------ MODULE MCOutput ------------------------------
(* A terminal of three rows and of a width that leaves two columns for the  *)
(* values of a column with a name of one byte.                              *)
(* The server has two tables t, a table u, a v out of the search path and an *)
(* e without columns.                                                       *)
EXTENDS Output, TLC

Name1 == <<"a">>
MCWide == {"w"}
MCAccented == {"e"}
Chars == {"a", "t", "w"}
Short == UNION {[1 .. n -> Chars] : n \in 0 .. 3}
Long == {<<"a", "b", "c", "d", "a", "t">>, <<"w", "w", "w", "w", "w", "w">>}
Table(names, rows) == [columns |-> names, rows |-> rows]
MCResults ==
  {Table(<<>>, <<>>), Table(<<Name1>>, <<>>)}
  \union {Table(<<n>>, << <<v>> >>) : n \in {Name1, <<"e", "a">>, <<"w">>}, v \in Short \union Long}
  \union {Table(<<Name1, n>>, << <<v, <<"a">> >>, << <<"w">>, <<"t">> >> >>) :
             n \in {<<"e">>, <<"a", "a">>}, v \in Long \union [1 .. 2 -> Chars]}
  \union {Table(<<Name1, Name1>>, << <<v>> >>) : v \in {<<"f">>}}

P == <<"p">>
S == <<"s">>
MCLower == [c \in {"p", "s", "t", "u", "v", "x", "e", "."} |-> c] @@ ("T" :> "t") @@ ("U" :> "u")
MCNameChars == {"p", "s", "t", "u", "v", "x", "e", "T", "U"}
MCSearchPath == <<P, S>>
Column(name) == << <<name>>, <<"int">>, <<"not null">>, <<>>, <<"plain">>, <<"-">>, <<>> >>
Entry(kind, schema, name) == {[name |-> kind, definition |-> schema \o name]}
Relation(schema, name, columns) ==
  [schema |-> schema, name |-> name, columns |-> columns, indexes |-> Entry("key", schema, name),
   foreign_keys |-> {}, checks |-> Entry("check", schema, name), triggers |-> Entry("trigger", schema, name)]
MCRelations ==
  {Relation(P, <<"t">>, <<Column("i"), Column("t")>>), Relation(S, <<"t">>, <<Column("i")>>),
   Relation(S, <<"u">>, <<Column("i")>>), Relation(<<"x">>, <<"v">>, <<Column("i")>>), Relation(P, <<"e">>, <<>>)}
MCTypedNames ==
  {<<>>, <<"t">>, <<"T">>, <<"u">>, <<"U">>, <<"v">>, <<"e">>, <<"s", ".", "t">>, <<"s", ".", "U">>, <<"x", ".", "v">>,
   <<"u", "'">>, <<"p", ".", "s", ".", "u">>}

Node(type, attributes, plans) ==
  [type |-> type, relation |-> IF plans = <<>> THEN <<"t">> ELSE <<>>, cost |-> "c", rows |-> "n",
   actual |-> IF plans = <<>> THEN <<"ms", "n">> ELSE <<>>, attributes |-> attributes, plans |-> plans]
Scan == Node("Seq Scan", "Filter" :> <<"a">> @@ "Alias" :> <<"b">>, <<>>)
Inner == Node("Hash", <<>>, <<Scan>>)
Hash == Node("Hash Join", "Hash Cond" :> <<"a">>, <<Scan, Inner>>)
MCPlanNodes == {Scan, Inner, Hash}
MCPlans == {<<>>, Scan, Hash}

CsvCells == UNION {[1 .. n -> {"a", ",", "\"", "\n"}] : n \in 0 .. 2}
MCExports ==
  {Table(<<>>, << <<>> >>), Table(<<Name1>>, << <<Name1>>, <<Name1, Name1>> >>)}
  \union {Table(<<Name1>>, << <<v>> >>) : v \in CsvCells}
  \union {Table(<<Name1, <<"\"", ",">> >>, << <<v, w>> >>) : v \in CsvCells, w \in {<<>>, <<"\"">>, <<"\r">>}}
=============================================================================
