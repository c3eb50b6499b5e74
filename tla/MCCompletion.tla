---------------------------- MODULE MCCompletion ----------------------------
(* Two tables that share a column, with aliases and without, in lines with  *)
(* every part or none, the cursor anywhere.                                 *)
EXTENDS Completion

us == <<"u", "s">>
or == <<"o", "r">>
u == <<"u">>
MCAlphabet == <<" ", ",", ".", "d", "i", "m", "o", "r", "s", "u", "x",
                "FROM", "INTO", "JOIN", "ON", "SELECT", "SET", "UPDATE", "WHERE", "\\d">>
MCKeywords == {"FROM", "INTO", "JOIN", "ON", "SELECT", "SET", "UPDATE", "WHERE"}
MCSchema == (us :> << <<"i", "d">>, <<"i", "m">> >>) @@ (or :> << <<"i", "d">>, <<"u">> >>)
MCSorted == <<or, us>>
MCTableFreq == (us :> 2)
MCColumnFreq == (<<"u">> :> 1) @@ (<<"i", "m">> :> 1)

Spaced(words) == FlattenSeq([i \in DOMAIN words |-> IF i = 1 THEN words[i] ELSE <<" ">> \o words[i]])
After1(k, w) == << <<k>>, w >>
Items  == {<<>>, <<"u", ".">>}
Froms  == {<<us>>, <<us, u>>, <<or, us>>, <<us \o <<",">>, or>>}
Joins  == {<<>>} \union {<< <<"JOIN">> >> \o t \o o :
                           t \in {<<or, <<"o">> >>, <<us, <<"o">> >>, <<us, or>>},
                           o \in {<<>>, After1("ON", <<>>), After1("ON", <<"o", ".">>)}}
Wheres == {After1("WHERE", w) : w \in {<<>>, <<"u">>}}
OrOn   == << <<"JOIN">>, or, <<"o">> >> \o After1("ON", <<"o", ".">>)
\* What follows FROM: joins, and a WHERE with a join or without.
Ends   == Joins \union Wheres \union {OrOn \o w : w \in Wheres}
Selects == {Spaced(After1("SELECT", w) \o << <<"FROM">> >> \o f \o e) : w \in Items, f \in Froms, e \in Ends}
\* Three tables in a list, and a word that begins as ON does.
Three == << <<"FROM">>, <<"s">>, <<"m", ",">>, us, <<"u", ",">>, or, <<"o">> >>
OnX   == << <<"WHERE">>, <<"ON", "x">> >>
Others ==
  {<<>>, <<"SELECT">>, <<"SELECT", " ">>, <<"SELECT", " ", "u">>, <<"\\d", " ">>, <<"\\d", " ", "u">>,
   <<"UPDATE", " ">>, <<"UPDATE", " ", "u", "s", " ", "SET", " ">>, <<"INTO", " ">>, <<"WHERE", " ">>,
   <<"SELECT", " ", "i", " ", "FROM">>, Spaced(<< <<"SELECT">>, <<"i">> >> \o Three \o OnX)}
MCLines == Selects \union Others
MCTyped == {"o"}
=============================================================================
