----------------------------- MODULE Completion -----------------------------
(***************************************************************************)
(* Tab completion and the ghost text of the prompt: which candidates       *)
(* core's services/query offers at a cursor, how they are ranked and cut,  *)
(* and what becomes of the line when one is taken (repl/completer.rs, the  *)
(* Tab binding of repl/ui.rs; the menu itself is reedline's).              *)
(*                                                                         *)
(* A line is a sequence of characters.  A keyword is one character, and so *)
(* is the command \d: a keyword half typed is left out.  Everything is     *)
(* lower case where the code folds case.  Texts are of the form            *)
(*   SELECT item FROM table alias, ... JOIN table alias ON word WHERE word *)
(* in which any part may be missing.                                       *)
(***************************************************************************)
EXTENDS Naturals, Sequences, FiniteSets, SequencesExt, TLC

CONSTANTS
  Alphabet,       \* the characters, in their order
  Keywords,       \* those of them that are keywords
  Schema,         \* the columns of each table, sequences in order
  Sorted,         \* the tables in order
  TableFreq,      \* how often each table was read
  ColumnFreq,     \* and each column
  MaxCompletions, \* MAX_COMPLETIONS
  Lines,          \* bound: the lines at which a user starts,
  Typed,          \* the characters that are typed into them
  MaxTyped        \* and how many of them

Blank == " "
Text  == Seq(ToSet(Alphabet))

ASSUME CompletionAssumption ==
  /\ Alphabet \in Seq(ToSet(Alphabet)) /\ {Blank, ".", "x"} \subseteq ToSet(Alphabet)
  /\ Keywords \subseteq ToSet(Alphabet) \ {Blank}
  /\ Sorted \in Seq(DOMAIN Schema) /\ ToSet(Sorted) = DOMAIN Schema /\ IsInjective(Sorted)
  /\ \A t \in DOMAIN Schema : t \in Text /\ Schema[t] \in Seq(Text)
  /\ \A t \in DOMAIN TableFreq : TableFreq[t] \in Nat
  /\ \A c \in DOMAIN ColumnFreq : ColumnFreq[c] \in Nat
  /\ Lines \subseteq Text /\ Typed \subseteq ToSet(Alphabet)
  /\ MaxCompletions \in Nat \ {0} /\ MaxTyped \in Nat

VARIABLES
  line,
  pos,      \* the cursor: how many characters are before it
  menu,     \* the open menu's suggestions, or Closed
  typed     \* how many characters the user has typed

completionVars == <<line, pos, menu, typed>>

Closed == "closed"
TableTriggers  == {"FROM", "JOIN", "INTO", "UPDATE"}
ColumnTriggers == {"SELECT", "WHERE", "ON", "SET", "BY"}
Triggers       == {<<k>> : k \in TableTriggers \union ColumnTriggers}

-----------------------------------------------------------------------------
(* Strings                                                                 *)

Indices(s)        == [i \in DOMAIN s |-> i]
Each(s, Of(_))    == [i \in DOMAIN s |-> Of(s[i])]
Flat(s, Of(_))    == FlattenSeq(Each(s, Of))
\* The elements that pass a test: SelectSeq, in a form that can be reasoned about.
Where(s, Test(_)) == Flat(s, LAMBDA x : IF Test(x) THEN <<x>> ELSE <<>>)

\* The parts between the places of a character.
Cuts(s, c) == <<0>> \o Where(Indices(s), LAMBDA i : s[i] = c) \o <<Len(s) + 1>>
SplitOn(s, c) ==
  LET cuts == Cuts(s, c)
  IN  [k \in 1 .. Len(cuts) - 1 |-> SubSeq(s, cuts[k] + 1, cuts[k+1] - 1)]

\* The words between blanks: from each start to the first end from there on.
WordFrom(s, i) == SubSeq(s, i, Min({j \in i .. Len(s) : j = Len(s) \/ s[j+1] = Blank}))
Words(s) ==
  Each(Where(Indices(s), LAMBDA i : s[i] # Blank /\ (i = 1 \/ s[i-1] = Blank)), LAMBDA i : WordFrom(s, i))

Behind(s, c) == SubSeq(s, SelectLastInSeq(s, LAMBDA x : x = c) + 1, Len(s))
LastPart(w)  == Behind(w, ".")
Dotted(w)    == Contains(w, ".")

\* What stands between the last blank and the cursor, and the part of it that a
\* suggestion replaces.
Token(input) == Behind(input, Blank)
\* Faulty: the dot is not looked for.  (A "Faulty" definition is no part of the
\* model: it is the next one with a plausible bug.)
WholeWordStart(input) == Len(input) - Len(Token(input))
WordStart(input) == Len(input) - Len(LastPart(Token(input)))

Code(c) == SelectInSeq(Alphabet, LAMBDA x : x = c)
Lex(a, b) ==
  \/ IsStrictPrefix(a, b)
  \/ \E i \in DOMAIN a \intersect DOMAIN b : Code(a[i]) < Code(b[i]) /\ SubSeq(a, 1, i-1) = SubSeq(b, 1, i-1)
-----------------------------------------------------------------------------
(* What sqlparser makes of the line                                        *)

\* A dangling dot gets an x, so that the rest can be parsed.
FixDanglingDots(s) ==
  Flat(Indices(s), LAMBDA i :
    IF s[i] = "." /\ (i = Len(s) \/ s[i+1] = Blank) THEN <<".", "x">> ELSE <<s[i]>>)

\* The clauses: each keyword that stands by itself with the items after it, an
\* item being the words between two commas.
Clauses(s) ==
  LET starts == Where(Indices(s), LAMBDA i :
                  /\ s[i] \in Keywords
                  /\ i = 1 \/ s[i-1] = Blank
                  /\ i = Len(s) \/ s[i+1] = Blank)
      end(k) == IF k = Len(starts) THEN Len(s) ELSE starts[k+1] - 1
  IN  [k \in DOMAIN starts |->
         [key |-> s[starts[k]], items |-> Each(SplitOn(SubSeq(s, starts[k] + 1, end(k)), ","), Words)]]

IsName(w) == \A part \in ToSet(SplitOn(w, ".")) : part # <<>>
ClauseParses(clause) ==
  LET Sizes == {Len(item) : item \in ToSet(clause.items)}
  IN  /\ \A item \in ToSet(clause.items) : \A w \in ToSet(item) : IsName(w)
      /\ CASE clause.key = "SELECT" -> clause.items = << <<>> >> \/ Sizes \subseteq {1, 2}
           [] clause.key = "FROM"   -> Sizes \subseteq {1, 2}
           [] clause.key = "JOIN"   -> Sizes \subseteq {1, 2} /\ Len(clause.items) = 1
           [] OTHER                 -> Sizes = {1} /\ Len(clause.items) = 1
Parses(s) ==
  LET clauses == Clauses(s)
      Follows(k, keys) == k > 1 /\ clauses[k-1].key \in keys
  IN  /\ s # <<>> /\ s[1] = "SELECT"
      /\ \A k \in DOMAIN clauses :
           /\ ClauseParses(clauses[k])
           /\ clauses[k].key = "FROM" => Follows(k, {"SELECT", "INTO"})
           /\ clauses[k].key = "JOIN" => Follows(k, {"FROM", "JOIN", "ON"})
           /\ clauses[k].key = "ON"   => Follows(k, {"JOIN"})

\* The tables after FROM and JOIN: their names and what they are called.
TableItems(s) ==
  Flat(Where(Clauses(s), LAMBDA c : c.key \in {"FROM", "JOIN"}),
       LAMBDA c : Where(c.items, LAMBDA item : item # <<>>))

\* The alias map: a HashMap, to which the last insertion counts and whose order is
\* any order.
BuildAliasMap(s) ==
  LET fixed   == FixDanglingDots(s)
      aliased == Where(TableItems(fixed), LAMBDA item : Len(item) = 2)
      last(a) == SelectLastInSeq(aliased, LAMBDA item : item[2] = a)
  IN  IF ~Parses(fixed) THEN <<>>
      ELSE [a \in {item[2] : item \in ToSet(aliased)} |-> LastPart(aliased[last(a)][1])]

Orders(s) == SetToSeqs(DOMAIN BuildAliasMap(s))

ResolveAlias(map, name) == IF name \in DOMAIN map THEN map[name] ELSE name

ColumnsFor(t) == IF t \in DOMAIN Schema THEN Schema[t] ELSE <<>>
-----------------------------------------------------------------------------
(* The candidates.  "order" is the order in which the alias map is walked. *)

As(kind, values) == [i \in DOMAIN values |-> [value |-> values[i], kind |-> kind]]
StartingWith(values, prefix) == Where(values, LAMBDA v : IsPrefix(prefix, v))

TableCompletions(prefix) == As("Table", StartingWith(Sorted, prefix))
KeywordCompletions == As("Keyword", Each(Where(Alphabet, LAMBDA k : k \in Keywords), LAMBDA k : <<k>>))
ColumnCompletions(tables) == As("Column", Flat(tables, ColumnsFor))

QualifiedColumnCompletions(tables, map, order) ==
  LET Forms(t, col) ==
        <<col, t \o <<".">> \o col>>
        \o Each(Where(order, LAMBDA a : map[a] = t), LAMBDA a : a \o <<".">> \o col)
  IN  As("Column", Flat(tables, LAMBDA t : Flat(ColumnsFor(t), LAMBDA col : Forms(t, col))))

\* The word after each of some keywords, and where the keyword is.
After(s, keys) ==
  LET words == Words(s)
      at    == Where(Indices(words), LAMBDA i : i < Len(words) /\ words[i] \in keys)
  IN  Each(at, LAMBDA i : [at |-> i, name |-> LastPart(words[i+1])])

\* What does not come before.
Distinct(s) == Each(Where(Indices(s), LAMBDA i : \A j \in 1 .. i - 1 : s[j] # s[i]), LAMBDA i : s[i])

\* The tables of the text, and those of the alias map that are not among them.
WithAliased(named, map, order) ==
  named \o Distinct(Where(Each(order, LAMBDA a : map[a]), LAMBDA t : ~Contains(named, t)))
TablesNamed(s, keys) == Each(After(s, keys), LAMBDA w : w.name)
\* Faulty: the tables joined are forgotten.
FromRefs(s, map, order) == WithAliased(TablesNamed(s, {<<"FROM">>, <<"UPDATE">>}), map, order)
TableRefs(s, map, order) ==
  WithAliased(TablesNamed(s, {<<"FROM">>, <<"JOIN">>, <<"UPDATE">>}), map, order)

\* The table of the last JOIN and the tables before and after it: <<>> if the
\* text ends with that JOIN or has none.
JoinContext(s, map) ==
  LET words == Words(s)
      last  == SelectLastInSeq(words, LAMBDA w : w = <<"JOIN">>)
      right == ResolveAlias(map, LastPart(words[last+1]))
      others == Where(After(s, {<<"FROM">>, <<"JOIN">>, <<"UPDATE">>}), LAMBDA w : w.at # last)
  IN  IF last = 0 \/ last = Len(words) THEN <<>>
      ELSE <<[right |-> right,
              left  |-> Where(Each(others, LAMBDA w : ResolveAlias(map, w.name)), LAMBDA t : t # right)]>>

\* After ON: the columns of the joined table that the others have too, its other
\* columns, then those of the others.
OnCompletions(ctx) ==
  LET right == ColumnsFor(ctx.right)
      left  == Flat(ctx.left, ColumnsFor)
  IN  As("Column", Where(right, LAMBDA c : Contains(left, c))
                   \o Where(right, LAMBDA c : ~Contains(left, c)) \o left)

CandidatesForTrigger(trigger, refs, ctx, map, order) ==
  CASE trigger \in {<<k>> : k \in TableTriggers} -> TableCompletions(<<>>)
    [] trigger = <<"ON">> /\ ctx # <<>> -> OnCompletions(ctx[1])
    [] trigger = <<"ON">> /\ ctx = <<>> ->
         IF refs = <<>> THEN KeywordCompletions ELSE ColumnCompletions(refs)
    [] trigger = <<"SELECT">> ->
         IF refs = <<>> THEN TableCompletions(<<>>) ELSE QualifiedColumnCompletions(refs, map, order)
    [] trigger \in {<<"WHERE">>, <<"SET">>, <<"BY">>} ->
         IF refs \o Sorted = <<>> THEN KeywordCompletions
         ELSE QualifiedColumnCompletions(IF refs = <<>> THEN Sorted ELSE refs, map, order)
    [] OTHER -> KeywordCompletions

\* After a qualifier: the columns of its table, of all tables if it has none.
CompleteQualified(token, map) ==
  LET parts == SplitOn(token, ".")
      own   == ColumnsFor(ResolveAlias(map, parts[Len(parts) - 1]))
      among == IF own = <<>> THEN Flat(Sorted, ColumnsFor) ELSE own
  IN  As("Column", StartingWith(among, LastPart(token)))

\* The word that decides what is offered, and the word to be completed.
Trigger(input) ==
  LET words == Words(input)
      word  == Token(input)
  IN  IF word \in Triggers THEN word
      ELSE IF input # <<>> /\ word = <<>> THEN (IF words = <<>> THEN <<>> ELSE Last(words))
      ELSE IF Len(words) >= 2 THEN words[Len(words) - 1] ELSE <<>>
Prefix(input) == IF Token(input) \in Triggers THEN <<>> ELSE Token(input)

Filter(candidates, prefix) ==
  Where(candidates, LAMBDA c :
    \/ IsPrefix(prefix, c.value)
    \/ prefix # <<>> /\ Dotted(c.value) /\ IsPrefix(prefix, LastPart(c.value)))

Freq(f, name) == IF name \in DOMAIN f THEN f[name] ELSE 0
Keys(c) ==
  CASE c.kind = "Table"  -> <<Freq(TableFreq, c.value), 0>>
    [] c.kind = "Column" -> <<IF Dotted(c.value) THEN Freq(TableFreq, SplitOn(c.value, ".")[1]) ELSE 0,
                              Freq(ColumnFreq, LastPart(c.value))>>
    [] c.kind = "Keyword" -> <<0, 0>>
\* More used ones first, then shorter ones, then in the order of the letters.
\* Faulty: names of one length are left as they come.
ByUseAndLength(j, k, v, w) ==
  \/ j[1] > k[1]
  \/ j[1] = k[1] /\ j[2] > k[2]
  \/ j = k /\ Len(v) < Len(w)
ByUseAndName(j, k, v, w) ==
  \/ j[1] > k[1]
  \/ j[1] = k[1] /\ j[2] > k[2]
  \/ j = k /\ Len(v) < Len(w)
  \/ j = k /\ Len(v) = Len(w) /\ Lex(v, w)
Before(a, b) == ByUseAndName(Keys(a), Keys(b), a.value, b.value)
\* The sort is stable: each candidate goes behind those that it is not before.
Insert(sorted, c) ==
  Where(sorted, LAMBDA d : ~Before(c, d)) \o <<c>> \o Where(sorted, LAMBDA d : Before(c, d))
Rank(candidates) ==
  LET sorted[n \in 0 .. Len(candidates)] ==
        IF n = 0 THEN <<>> ELSE Insert(sorted[n-1], candidates[n])
  IN  sorted[Len(candidates)]

\* What is not what comes just before it.
Dedup(s) == Each(Where(Indices(s), LAMBDA i : i = 1 \/ s[i] # s[i-1]), LAMBDA i : s[i])

QueryCompletions(trigger, token, prefix, found, map) ==
  IF Dotted(token) THEN CompleteQualified(token, map)
  ELSE IF trigger = <<"ON">> THEN Distinct(Where(found, LAMBDA c : IsPrefix(prefix, c.value)))
  ELSE Dedup(Rank(Filter(found, prefix)))
Candidates(s, input, trigger, map, order) ==
  QueryCompletions(trigger, Token(input), Prefix(input),
    CandidatesForTrigger(trigger, TableRefs(s, map, order), JoinContext(s, map), map, order), map)

\* What may be offered, in whatever order the map is walked: after \d the tables,
\* else what the query asks for.
Completions(s, at) ==
  LET input == SubSeq(s, 1, at)
  IN  IF IsPrefix(<<"\\d", Blank>>, input) THEN {TableCompletions(SubSeq(input, 3, at))}
      ELSE {Candidates(s, input, Trigger(input), BuildAliasMap(s), order) : order \in Orders(s)}

Cut(list) == SubSeq(list, 1, IF Len(list) < MaxCompletions THEN Len(list) ELSE MaxCompletions)
Shown(s, at) == {Cut(list) : list \in Completions(s, at)}
-----------------------------------------------------------------------------
(* The line                                                                *)

Input == SubSeq(line, 1, pos)
Typing(input) == LastPart(Token(input))

\* The line in which the word at the cursor has given way to a text.
Replaced(s, at, text) ==
  SubSeq(s, 1, WordStart(SubSeq(s, 1, at))) \o text \o SubSeq(s, at + 1, Len(s))
PosAfter(at, text) == WordStart(Input) + Len(text)

CommonPrefix(values) == LongestCommonPrefix(ToSet(values))

\* The candidates that the ghost text goes by: all of them, not only those shown.
\* Faulty: those shown.
HintedShown(list, word) == Where(Cut(list), LAMBDA c : c.kind # "Keyword" /\ IsPrefix(word, c.value))
Hinted(list, word) == Where(list, LAMBDA c : c.kind # "Keyword" /\ IsPrefix(word, c.value))

Values(candidates) == Each(candidates, LAMBDA c : c.value)

\* What the values begin with, beyond the word typed.
Rest(word, values) ==
  LET common == CommonPrefix(values)
  IN  IF values = <<>> THEN <<>> ELSE SubSeq(common, Len(word) + 1, Len(common))
Hint(s, at) ==
  LET word == Typing(SubSeq(s, 1, at))
  IN  {Rest(word, Values(Hinted(list, word))) : list \in Completions(s, at)}

Type(c) ==
  /\ typed < MaxTyped
  /\ line' = SubSeq(line, 1, pos) \o <<c>> \o SubSeq(line, pos + 1, Len(line))
  /\ pos' = pos + 1
  /\ typed' = typed + 1
  /\ menu' \in IF menu = Closed THEN {Closed} ELSE Shown(line', pos')

\* Tab: HistoryHintComplete, which applies at the end of the line ...
HintApplies(hint) == pos = Len(line) /\ hint # <<>>
AcceptHint ==
  /\ menu = Closed
  /\ \E hint \in Hint(line, pos) :
       /\ HintApplies(hint)
       /\ line' = line \o hint
       /\ pos' = Len(line')
  /\ UNCHANGED <<menu, typed>>

\* ... or the menu: a suggestion that is the only one is taken, what they all
\* begin with is taken if it is more than what was typed.
Take(text) ==
  /\ line' = Replaced(line, pos, text)
  /\ pos' = PosAfter(pos, text)
OpenMenu ==
  /\ menu = Closed
  /\ \E hint \in Hint(line, pos) : ~HintApplies(hint)
  /\ \E shown \in Shown(line, pos) :
       LET common == CommonPrefix(Values(shown))
           shared == shown # <<>> /\ IsStrictPrefix(Typing(Input), common)
       IN  \/ Len(shown) = 1 /\ Take(shown[1].value) /\ menu' = Closed
           \/ Len(shown) # 1 /\ shared /\ Take(common) /\ menu' \in Shown(line', pos')
           \/ Len(shown) # 1 /\ ~shared /\ menu' = shown /\ UNCHANGED <<line, pos>>
  /\ UNCHANGED typed

Choose(i) ==
  /\ menu # Closed /\ i \in DOMAIN menu
  /\ Take(menu[i].value)
  /\ menu' = Closed
  /\ UNCHANGED typed

Dismiss == menu # Closed /\ menu' = Closed /\ UNCHANGED <<line, pos, typed>>

CompletionInit ==
  /\ line \in Lines
  /\ pos \in 0 .. Len(line)
  /\ menu = Closed
  /\ typed = 0

CompletionNext ==
  \/ \E c \in Typed : Type(c)
  \/ AcceptHint \/ OpenMenu \/ Dismiss
  \/ \E i \in 1 .. MaxCompletions : Choose(i)

CompletionSpec == CompletionInit /\ [][CompletionNext]_completionVars
-----------------------------------------------------------------------------
\* Whatever the order of the alias map, a line offers the same candidates in the
\* same order: the menu, which shows the first of them, does not jump about.  The
\* exception is an ON without a JOIN, when two tables are in the alias map only, as
\* the second and third of a list are.  And a line offers each candidate once, but
\* after a qualifier, where all tables may be looked at.
OnlyAliased(s) ==
  LET map == BuildAliasMap(s)
  IN  {map[a] : a \in DOMAIN map} \ ToSet(TablesNamed(s, {<<"FROM">>, <<"JOIN">>, <<"UPDATE">>}))
Unordered(s, input) ==
  /\ Trigger(input) = <<"ON">> /\ JoinContext(s, BuildAliasMap(s)) = <<>>
  /\ \E t, u \in OnlyAliased(s) : t # u
StableAndDistinct ==
  LET lists == Completions(line, pos)
  IN  /\ Unordered(line, Input) \/ Cardinality(lists) = 1
      /\ Dotted(Token(Input)) \/ \A l \in lists : IsInjective(l)

\* After SELECT, WHERE, SET, BY and ON the columns offered are exactly those of
\* the tables in FROM, JOIN and UPDATE that begin with what was typed, as long as
\* the tables are not a list and no alias is the name of another of them.
TableClauses == {c \in ToSet(Clauses(line)) : c.key \in {"FROM", "JOIN", "UPDATE"}}
TablesIn == UNION {ToSet(c.items) \ {<<>>} : c \in TableClauses}
InScope == {LastPart(item[1]) : item \in TablesIn}
OneTableEach == \A c \in TableClauses : Len(c.items) = 1
AliasesOwn == \A item \in TablesIn : Len(item) = 2 => item[2] \notin InScope \ {LastPart(item[1])}
ScopeIsExact ==
  /\ ~IsPrefix(<<"\\d", Blank>>, Input)
  /\ Trigger(Input) \in {<<k>> : k \in ColumnTriggers} /\ ~Dotted(Token(Input))
  /\ InScope # {} /\ InScope \subseteq DOMAIN Schema /\ OneTableEach /\ AliasesOwn
  => \A list \in Completions(line, pos) :
       {v \in ToSet(Values(list)) : ~Dotted(v)}
         = {c \in UNION {ToSet(Schema[t]) : t \in InScope} : IsPrefix(Prefix(Input), c)}

\* Taking a suggestion keeps what was typed, but for a trigger word: the new word
\* begins with the old one, or is a qualified name of the column typed.
ChoiceKeepsTyped ==
  menu # Closed /\ Token(Input) \notin Triggers =>
    \A i \in DOMAIN menu :
      LET chosen == Token(SubSeq(Replaced(line, pos, menu[i].value), 1, PosAfter(pos, menu[i].value)))
      IN  IsPrefix(Token(Input), chosen) \/ IsPrefix(Token(Input), LastPart(chosen))

\* The ghost text takes nothing away: a line that one of its candidates would have
\* given can still be had after it, as long as no alias is the name of another
\* table (a qualified name of which then stands for something else) and the word
\* at the cursor neither is nor becomes a trigger word (which changes what is offered).
GivenBy(list) == ToSet(Values(Where(list, LAMBDA c : c.kind # "Keyword")))
Given(s, at) ==
  {Replaced(s, at, v) : v \in {w \in UNION {GivenBy(list) : list \in Completions(s, at)} : IsPrefix(Typing(SubSeq(s, 1, at)), w)}}
TabKeepsChoices ==
  [][AcceptHint /\ AliasesOwn /\ Token(Input) \notin Triggers /\ Token(Input)' \notin Triggers
       => Given(line, pos) \subseteq Given(line', pos')]_completionVars
=============================================================================
