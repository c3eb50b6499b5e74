---------------------------- MODULE MCQueryRefs ----------------------------
(* The texts of the run: selects of one or two factors over two tables, with *)
(* subqueries, ctes and parentheses, and the other statements.               *)
EXTENDS QueryRefs, TLC

MCNoId == "none"
MCSchema == ("users" :> {"id", "mail"}) @@ ("orders" :> {"id", "user"})
MCSorted == <<"orders", "users">>
MCColumns == {"id", "mail", "user"}
MCIds == {"users", "orders", "x", "c"}

NoMentions == [p \in Places |-> {}]
Table(name, alias) == [kind |-> "table", name |-> name, alias |-> alias]
Select(from, stars, mentions) ==
  [ctes |-> <<>>, body |-> [kind |-> "select", from |-> from, stars |-> stars, mentions |-> mentions]]
Mention(p, token) == [NoMentions EXCEPT ![p] = {token}]
Under(of, name, forms) == [of |-> of, name |-> name, under |-> forms]
Token(of, name) == Under(of, name, {})

\* Subqueries: SELECT *, id or another column FROM a table, with an alias or not.
Inner ==
  UNION {
    LET from == <<Table(t, a)>>
    IN  {Select(from, {NoId}, NoMentions)}
        \union {Select(from, {}, Mention("projection", Token(NoId, c))) : c \in Schema[t]}
    : t \in Tables, a \in {NoId, "x"}}

InnerExpressions ==
  {Select(<<Table("users", NoId)>>, {}, Mention("projection", Under(NoId, "mail", {f}))) :
     f \in {"Cast", "ILike", "Case"}}

TableFactors == {Table(t, a) : t \in Tables, a \in {NoId, "x", "users", "orders"}}
Derived == {[kind |-> "derived", query |-> q, alias |-> a] : q \in Inner, a \in {"x", "users"}}
Joined == {[kind |-> "joined", of |-> Tables]}
Froms ==
  {<<f>> : f \in TableFactors \union Derived \union Joined}
  \union (TableFactors \X TableFactors)
  \union {<<f, Table(t, NoId)>> : f \in Derived, t \in Tables}
  \union {<<f>> \o <<Table(t, NoId), f>> : f \in {Table(u, "x") : u \in Tables}, t \in Tables}
  \union {<<Table(t, NoId), Table("users", "x"), Table(t, "c")>> : t \in Tables}

Tokens == {Token(of, c) : of \in MCIds \union {NoId}, c \in Columns}

\* What selects over the factors may ask for: one token somewhere, or one star.
Asking(froms) ==
  {Select(x[1], x[2], Mention(x[3], x[4])) :
     x \in {y \in froms \X {{}, {NoId}} \X Places \X Tokens : y[3] = "on" => Len(y[1]) > 1}}
  \union {Select(from, {of}, NoMentions) : from \in froms, of \in MCIds \union {NoId}}

WithCte(q, inner) == [q EXCEPT !.ctes = <<[name |-> "c", query |-> inner]>>]
CteQueries ==
  {WithCte(q, inner) :
     q \in Asking({<<Table("c", NoId)>>, <<Table("c", "users")>>, <<Table("c", NoId), Table("orders", "x")>>}),
     inner \in {i \in Inner : i.body.from[1].alias = NoId}}

\* Expressions: the same column under each form, alone and inside of another, in
\* each place, beside a column of its own in the projection; and a subquery whose
\* output is such an expression.
Expressions ==
  {Select(from, {}, [NoMentions EXCEPT !["projection"] = {Token("users", "id")}, ![p] = @ \union {token}]) :
     from \in {<<Table("users", NoId)>>, <<Table("orders", "x"), Table("users", NoId)>>},
     p \in Places,
     token \in {Under(NoId, "mail", {f, "Argument"}) : f \in Common \union Exotic}
               \union {Under("users", "mail", {f}) : f \in Common \union Exotic}
               \union {Under(NoId, "mail", {f, "Case"}) : f \in Common}}
OfExpressions ==
  {Select(<<[kind |-> "derived", query |-> q, alias |-> "x"]>>, {}, Mention("where", Token("x", "mail"))) :
     q \in InnerExpressions}

Selects == Asking(Froms) \union CteQueries \union Expressions \union OfExpressions
Small == Asking({<<f>> : f \in TableFactors}) \union Inner
Nested == {[ctes |-> <<>>, body |-> [kind |-> "nested", query |-> q]] : q \in Small}
Setop == [ctes |-> <<>>, body |-> [kind |-> "setop"]]
Changed == {Select(<<Table(t, a)>>, {}, NoMentions) : t \in Tables, a \in {NoId, "x"}}

MCQueryTrees == Selects \union Nested \union Inner \union InnerExpressions \union Changed \union {Setop}
MCDepth == [q \in MCQueryTrees |-> IF q.body.kind = "nested" THEN 2 ELSE IF q \in Inner \union InnerExpressions THEN 0 ELSE 1]

Alone(q) == <<[kind |-> "query", query |-> q]>>
Changes ==
  {[kind |-> k, query |-> q] : k \in {"update", "delete"}, q \in Changed}
  \union {[kind |-> "insert", table |-> t] : t \in Tables}
  \union {[kind |-> "other"]}
MCTexts ==
  {Alone(q) : q \in Selects \union Nested \union {Setop}}
  \union {<<c>> : c \in Changes}
  \union {<<c>> \o Alone(q) : c \in Changes, q \in Small}
  \union {Alone(q) \o Alone(s) : q \in Inner \union {Setop}, s \in Inner}
=============================================================================
