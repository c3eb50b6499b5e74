------------------------------ MODULE SqlInput ------------------------------
(***************************************************************************)
(* How a text typed at the prompt becomes a statement or a command: the    *)
(* validator that decides whether Enter submits or continues the buffer,   *)
(* the parser of backslash commands and of their arguments, and the \edit  *)
(* editor.  A symbol stands for a character, for a run of letters or       *)
(* digits, or for a command with its backslash; a text is a sequence.      *)
(***************************************************************************)
EXTENDS Naturals, Sequences, SequencesExt

CONSTANT Keys(_, _)  \* bound: the symbols a user may type in a mode after a buffer

Quotes  == {"'", "\""}
Blank   == {" ", "nl"}
Letters == {"a", "exit"}
Digits  == {"7"}
Plain   == {"\\q", "\\x", "\\begin", "\\edit"}       \* \x: a command that only prints or toggles
Taking  == {"\\save", "\\run", "\\unsave", "\\export", "\\explain"}
Other   == {"-", "/", "*", "$", ";", "~", "\\foo"}     \* \foo: no command
Symbols == Quotes \union Blank \union Letters \union Digits \union Plain \union Taking \union Other
Slashed == Plain \union Taking \union {"\\foo"}

VARIABLES
  mode,     \* who reads the keys: "prompt" or "editor"; "closed" after quitting, "dead" after a panic
  buffer,   \* the text being typed
  entered,  \* the text just submitted
  command   \* what the loop makes of it

vars == <<mode, buffer, entered, command>>

Has(s, i, d) == i + Len(d) - 1 <= Len(s) /\ SubSeq(s, i, i + Len(d) - 1) = d

Solid(s) == {i \in DOMAIN s : s[i] \notin Blank}
Trim(s)  == IF Solid(s) = {} THEN <<>> ELSE SubSeq(s, Min(Solid(s)), Max(Solid(s)))
-----------------------------------------------------------------------------
(* When a statement is complete.  closer is what ends the string, the      *)
(* comment or the dollar quote that the scan is inside of, <<>> at the top *)
(* level; at is the next position to look at.                              *)

IsTag(t) == ToSet(t) \subseteq Letters \union Digits /\ (t # <<>> => t[1] \in Letters)

\* The dollar quote $tag$ that opens at i: one or none.
DollarsAt(s, i) ==
  {SubSeq(s, i, j) : j \in {k \in i+1 .. Len(s) :
     s[i] = "$" /\ s[k] = "$" /\ IsTag(SubSeq(s, i + 1, k - 1))}}

Inside(a, closer, size, i) == [a EXCEPT !.closer = closer, !.at = i + size]

ScanTop(s, a, i) ==
  CASE Has(s, i, <<"-", "-">>) -> Inside(a, <<"nl">>, 2, i)
    [] Has(s, i, <<"/", "*">>) -> Inside(a, <<"*", "/">>, 2, i)
    [] DollarsAt(s, i) # {}    -> LET d == CHOOSE d \in DollarsAt(s, i) : TRUE
                                  IN  [Inside(a, d, Len(d), i) EXCEPT !.last = "$"]
    [] s[i] \in Quotes         -> [Inside(a, <<s[i]>>, 1, i) EXCEPT !.last = s[i]]
    [] s[i] \in Blank          -> [a EXCEPT !.at = i + 1]
    [] OTHER                   -> [a EXCEPT !.at = i + 1, !.last = s[i]]

\* Faulty: a newline does not end a comment.  (A "Faulty" definition is no part
\* of the model: it is the next one with a plausible bug.)
ScanInsideUnending(s, a, i) ==
  IF a.closer # <<"nl">> /\ Has(s, i, a.closer)
    THEN Inside(a, <<>>, Len(a.closer), i) ELSE [a EXCEPT !.at = i + 1]

ScanInside(s, a, i) ==
  IF a.closer = <<s[i]>> /\ s[i] \in Quotes /\ Has(s, i + 1, a.closer)
    THEN [a EXCEPT !.at = i + 2]
  ELSE IF Has(s, i, a.closer) THEN Inside(a, <<>>, Len(a.closer), i)
  ELSE [a EXCEPT !.at = i + 1]

Begin == [closer |-> <<>>, last |-> "none", at |-> 1]
Step(s, a, i) ==
  IF i < a.at THEN a ELSE IF a.closer = <<>> THEN ScanTop(s, a, i) ELSE ScanInside(s, a, i)
Scan(s) ==
  LET upto[i \in 0 .. Len(s)] == IF i = 0 THEN Begin ELSE Step(s, upto[i-1], i)
  IN  upto[Len(s)]

\* Faulty: what is still open at the end does not count.
IsCompleteAnyway(s) == Scan(s).last = ";"

IsCompleteStatement(s) ==
  Scan(s).closer \in {<<>>, <<"nl">>} /\ Scan(s).last = ";"

Validates(s) ==
  LET line == Trim(s)
  IN  line # <<>> /\ line[1] \notin Slashed => IsCompleteStatement(s)
-----------------------------------------------------------------------------
(* The arguments of a command.                                             *)

NoQuote == "no quote"

Separate(a) ==
  IF a.inside THEN [a EXCEPT !.tokens = Append(@, a.current), !.current = <<>>, !.inside = FALSE] ELSE a

\* Faulty: a blank ends a token wherever it is.
TokenStepBlankFirst(a, c) ==
  CASE c \in Blank                     -> Separate(a)
    [] c = a.quote                     -> [a EXCEPT !.quote = NoQuote]
    [] c \in Quotes /\ a.quote = NoQuote /\ ~a.inside -> [a EXCEPT !.quote = c, !.inside = TRUE]
    [] OTHER                           -> [a EXCEPT !.current = Append(@, c), !.inside = TRUE]

TokenStep(a, c) ==
  CASE c = a.quote                     -> [a EXCEPT !.quote = NoQuote]
    [] c \in Blank /\ a.quote = NoQuote -> Separate(a)
    [] c \in Quotes /\ a.quote = NoQuote /\ ~a.inside -> [a EXCEPT !.quote = c, !.inside = TRUE]
    [] OTHER                           -> [a EXCEPT !.current = Append(@, c), !.inside = TRUE]

TokenizeArgs(rest) ==
  LET upto[i \in 0 .. Len(rest)] ==
        IF i = 0 THEN [tokens |-> <<>>, current |-> <<>>, inside |-> FALSE, quote |-> NoQuote]
        ELSE TokenStep(upto[i-1], rest[i])
      a == upto[Len(rest)]
  IN  IF a.inside THEN Append(a.tokens, a.current) ELSE a.tokens

IsId(t) == t # <<>> /\ LET d == IF t[1] = "-" THEN Tail(t) ELSE t
                       IN  d # <<>> /\ ToSet(d) \subseteq Digits

Usage == [kind |-> "usage"]

ParseSaveArgs(rest) ==
  LET t == TokenizeArgs(rest)
  IN  IF Len(t) = 2 /\ IsId(t[2]) THEN [kind |-> "\\save", name |-> t[1]] ELSE Usage

SingleNameToken(word, rest) ==
  LET t == TokenizeArgs(rest)
  IN  IF Len(t) = 1 THEN [kind |-> word, name |-> t[1]] ELSE Usage

\* The slice of a path in quotes; of a lone quote it is out of bounds.
Unquoted(raw) ==
  IF raw[1] \in Quotes /\ Last(raw) = raw[1] THEN SubSeq(raw, 2, Len(raw) - 1) ELSE raw

AtHome(path) == IF path # <<>> /\ path[1] = "~" THEN <<"HOME">> \o Tail(path) ELSE path

ParseExportArgs(rest) ==
  LET line   == Trim(rest)
      spaces == {i \in DOMAIN line : line[i] = " "}
      gap    == Min(spaces)
      raw    == Trim(SubSeq(line, gap + 1, Len(line)))
  IN  IF spaces = {} \/ ~IsId(SubSeq(line, 1, gap - 1)) \/ raw = <<>> THEN Usage
      ELSE IF raw \in {<<q>> : q \in Quotes} THEN [kind |-> "panic"]
      ELSE [kind |-> "\\export", path |-> AtHome(Unquoted(raw))]
-----------------------------------------------------------------------------
(* What the loop makes of a line.                                          *)

Sql(text) == [kind |-> "sql", text |-> text]

\* A line that is one word and nothing else.
Bare(word) ==
  CASE word = "\\q"       -> [kind |-> "quit"]
    [] word = "\\x"     -> [kind |-> "setting"]
    [] word = "\\edit"    -> [kind |-> "edit"]
    [] word = "\\begin"   -> Sql(<<"BEGIN">>)
    [] word \in Taking    -> Usage
    [] word = "\\foo"     -> [kind |-> "unknown"]

WithArgs(word, rest) ==
  CASE word = "\\save"                -> ParseSaveArgs(rest)
    [] word \in {"\\run", "\\unsave"} -> SingleNameToken(word, rest)
    [] word = "\\export"              -> ParseExportArgs(rest)
    [] word = "\\explain"             -> [kind |-> word, text |-> rest]

\* Faulty: a command that is not known goes to the server.
ParseLeniently(line) ==
  IF line = <<>> THEN [kind |-> "empty"]
  ELSE IF line = <<"exit">> THEN [kind |-> "quit"]
  ELSE IF Len(line) = 1 /\ line[1] \in Slashed \ {"\\foo"} THEN Bare(line[1])
  ELSE IF line[1] \in Taking /\ line[2] = " "
         THEN WithArgs(line[1], SubSeq(line, 3, Len(line)))
  ELSE Sql(line)

Parse(line) ==
  IF line = <<>> THEN [kind |-> "empty"]
  ELSE IF line = <<"exit">> THEN [kind |-> "quit"]
  ELSE IF line[1] \notin Slashed THEN Sql(line)
  ELSE IF Len(line) = 1 THEN Bare(line[1])
  ELSE IF line[1] \in Taking /\ line[2] = " "
         THEN WithArgs(line[1], SubSeq(line, 3, Len(line)))
  ELSE [kind |-> "unknown"]
-----------------------------------------------------------------------------
Nothing == [kind |-> "nothing"]

Init ==
  /\ mode = "prompt"
  /\ buffer = <<>> /\ entered = <<>>
  /\ command = Nothing

Type(text) == buffer' = text /\ entered' = <<>> /\ command' = Nothing /\ mode' = mode

\* A key; the newline of a paste, or of Alt+Enter, does not submit.
Press ==
  \E k \in Symbols \intersect Keys(mode, buffer) :
    /\ mode \in {"prompt", "editor"}
    /\ k = "nl" => mode = "prompt" /\ Validates(buffer)
    /\ Type(Append(buffer, k))

\* Enter where the validator asks for more; in the editor it always does.
Continue ==
  /\ \/ mode = "editor"
     \/ mode = "prompt" /\ ~Validates(buffer)
  /\ "nl" \in Keys(mode, buffer)
  /\ Type(Append(buffer, "nl"))

\* The text leaves the editor; the loop acts on it.
Hand(text, what) ==
  /\ buffer' = <<>> /\ entered' = text /\ command' = what
  /\ mode' \in CASE what.kind = "quit"  -> {"prompt", "closed"}
                 [] what.kind = "edit"  -> {"editor"}
                 [] what.kind = "panic" -> {"dead"}
                 [] OTHER               -> {"prompt"}

Submit == mode = "prompt" /\ Validates(buffer) /\ Hand(buffer, Parse(Trim(buffer)))

\* Alt+Enter in the editor: a text that is not blank runs as it is.
SubmitEdited ==
  /\ mode = "editor"
  /\ Hand(buffer, IF Trim(buffer) = <<>> THEN [kind |-> "empty"] ELSE Sql(buffer))

\* Ctrl-C or Ctrl-D.
Interrupt ==
  \/ mode = "prompt" /\ Hand(<<>>, [kind |-> "quit"])
  \/ mode = "editor" /\ Hand(<<>>, [kind |-> "cancelled"])

Start == mode \in {"closed", "dead"} /\ mode' = "prompt"
         /\ buffer' = <<>> /\ entered' = <<>> /\ command' = Nothing

Next == Press \/ Continue \/ Submit \/ SubmitEdited \/ Interrupt \/ Start

Spec == Init /\ [][Next]_vars
-----------------------------------------------------------------------------
(* What SQL makes of a text: PostgreSQL's lexemes, from one to the next.   *)

Open(s) == Len(s) + 2   \* the end of a lexeme that never ends
Past(s, i, d) ==        \* just past the first d from i on
  LET found == {j \in i .. Len(s) : Has(s, j, d)}
  IN  IF found = {} THEN Open(s) ELSE Min(found) + Len(d)

Word == Letters \union Digits \union {"$"}

\* Comments nest.
CommentEnd(s, i) ==
  LET from[j \in 1 .. Len(s) + 2] == [depth \in Nat |->
        IF depth = 0 THEN j
        ELSE IF j > Len(s) THEN Open(s)
        ELSE IF Has(s, j, <<"/", "*">>) THEN from[j + 2][depth + 1]
        ELSE IF Has(s, j, <<"*", "/">>) THEN from[j + 2][depth - 1]
        ELSE from[j + 1][depth]]
  IN  from[i + 2][1]

LexemeEnd(s, i) ==
  CASE s[i] \in Quotes         -> Past(s, i + 1, <<s[i]>>)
    [] Has(s, i, <<"-", "-">>) -> LET e == Past(s, i, <<"nl">>)
                                  IN  IF e = Open(s) THEN Len(s) + 1 ELSE e
    [] Has(s, i, <<"/", "*">>) -> CommentEnd(s, i)
    [] DollarsAt(s, i) # {}    -> LET d == CHOOSE d \in DollarsAt(s, i) : TRUE
                                  IN  Past(s, i + Len(d), d)
    [] s[i] \in Letters        -> Min({j \in i + 1 .. Len(s) + 1 : j > Len(s) \/ s[j] \notin Word})
    [] OTHER                   -> i + 1

IsSpace(s, i) == s[i] \in Blank \/ Has(s, i, <<"-", "-">>) \/ Has(s, i, <<"/", "*">>)

\* All lexemes end and the last one, comments aside, is a semicolon.
Terminated(s) ==
  LET tail[i \in 1 .. Len(s) + 2] ==
        IF i = Len(s) + 1 THEN "blank"
        ELSE IF i = Open(s) THEN "open"
        ELSE LET after == tail[LexemeEnd(s, i)]
             IN  IF after # "blank" THEN after
                 ELSE IF IsSpace(s, i) THEN "blank" ELSE s[i]
  IN  tail[1] = ";"

\* Where the scan and PostgreSQL part: a comment in a comment, a dollar quote
\* that begins within a word.
Nested(s) == \E i, j \in DOMAIN s : i < j /\ Has(s, i, <<"/", "*">>) /\ Has(s, j, <<"/", "*">>)
                                   /\ Past(s, i + 2, <<"*", "/">>) > j
Midword(s) == \E i \in DOMAIN s : i > 1 /\ DollarsAt(s, i) # {} /\ s[i-1] \in Letters \union Digits
Ordinary(s) == ~Nested(s) /\ ~Midword(s)
-----------------------------------------------------------------------------
\* The editor holds a statement for complete exactly when SQL does
\* (is_complete_statement, against PostgreSQL's own lexemes), outside the two
\* places where the scan is known to differ.
CompleteIsTerminated ==
  Ordinary(buffer) => (IsCompleteStatement(buffer) <=> Terminated(buffer))

\* Whatever has been typed at the prompt, one closer and a semicolon get it
\* submitted: Enter is never refused for good.
Closers(s) == {<<>>, <<"'">>, <<"\"">>, <<"nl">>, <<"*", "/">>} \union UNION {DollarsAt(s, i) : i \in DOMAIN s}
NeverTrapped ==
  mode = "prompt" => \E c \in Closers(buffer) : Validates(buffer \o c \o <<";">>)

\* What goes from the prompt to run_statement is a whole statement or stands for
\* one: no command, known or not, and no half-typed text reaches the server as SQL.
OnlyWholeStatementsRun ==
  [][mode = "prompt" /\ command'.kind = "sql" /\ Ordinary(command'.text)
       => command'.text = <<"BEGIN">> \/ Terminated(command'.text)]_vars

\* A name or a path in quotes arrives as it was typed, whatever it contains but
\* that quote: \save, \run and \unsave agree on the name of a query.
Quoted(line, i, j) == line[i] \in Quotes /\ line[j] = line[i] /\ line[i] \notin ToSet(SubSeq(line, i + 1, j - 1))
ArgumentSurvives(line, what) ==
  LET n == Len(line)
      Text(i, j) == SubSeq(line, i + 1, j - 1)
  IN  \A i \in 3 .. n, j \in 4 .. n :
        i < j /\ line[2] = " " /\ Quoted(line, i, j) =>
          /\ line[1] \in {"\\run", "\\unsave"} /\ i = 3 /\ j = n
               => what = [kind |-> line[1], name |-> Text(i, j)]
          /\ line[1] = "\\save" /\ i = 3 /\ Has(line, j + 1, <<" ">>) /\ IsId(SubSeq(line, j + 2, n))
               => what = [kind |-> "\\save", name |-> Text(i, j)]
          /\ line[1] = "\\export" /\ line[i-1] = " " /\ IsId(SubSeq(line, 3, i - 2)) /\ j = n /\ line[i+1] # "~"
               => what = [kind |-> "\\export", path |-> Text(i, j)]
QuotedArgumentSurvives == [][mode = "prompt" => ArgumentSurvives(Trim(entered'), command')]_vars
=============================================================================
