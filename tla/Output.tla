------------------------------- MODULE Output -------------------------------
(***************************************************************************)
(* What becomes of an answer of the server: repl/executor.rs lays a result *)
(* out, as a table or one record after another, repl/explain.rs a plan,    *)
(* repl/describe.rs a description; repl/pager.rs hands results and plans   *)
(* to $PAGER through a pipe or writes them to the terminal; repl/csv.rs    *)
(* writes a result to a file.                                              *)
(*                                                                         *)
(* A text is a sequence of characters, and a word whose letters do not     *)
(* matter is one character.  A result has columns (names) and rows         *)
(* (sequences of values).  Colours are left out: they do not change the    *)
(* characters.  The pager is a process of its own.                         *)
(***************************************************************************)
EXTENDS Catalog, Integers

CONSTANTS
  Wide, Accented,  \* characters two columns wide, and others of several bytes
  MaxCell,         \* MAX_CELL_CHARS
  TermWidth,       \* columns of the terminal
  TermRows,        \* its rows, 0 when they are not known
  PipeSize,        \* lines that the pipe to the pager holds
  Results,         \* bound: what the server answers,
  Plans,           \* the plans, <<>> for an error,
  Exports,         \* the results exported
  TypedNames,      \* and the names that \d is given
  Faults           \* "spawn": $PAGER cannot be started; "pager": it fails;
                   \* "query": a catalog query; "disk": a write to the file

\* Names and sequences of values, all of them texts; rows need not be equally long.
IsSeq(s) == s \in Seq(ToSet(s))
IsTable(r) ==
  /\ IsSeq(r.rows)
  /\ \A row \in {r.columns} \union ToSet(r.rows) : IsSeq(row) /\ \A cell \in ToSet(row) : IsSeq(cell)

ASSUME OutputAssumption ==
  /\ MaxCell > 3 /\ TermWidth \in Nat /\ TermRows \in Nat /\ PipeSize \in Nat \ {0}
  /\ Plans \ {<<>>} \subseteq PlanNodes /\ Faults \subseteq {"spawn", "pager", "query", "disk"}
  /\ \A r \in Results \union Exports : IsTable(r)

VARIABLES
  phase,    \* "prompt", "emit", "feed", "wait", "direct", "emitted"; "create",
            \* "write"; "killed"
  command,  \* whose answer it is: "none", "sql", "explain", "describe", "export"
  expanded, timing, paging,   \* the toggles \x, \timing and \pager
  result,   \* the answer last laid out, <<>> for none
  content,  \* its lines
  sent,     \* how many of them have gone into the pipe
  read,     \* how many of them the pager has read
  pager,    \* "none", "running", "quit" by the user, "failed", "done"
  direct,   \* ghost: whether they have been written to the terminal itself
  failing,  \* ghost: the catalog queries of the description that have failed
  file      \* what stands at the path of \export: Absent, Theirs, or during the
            \* command the lines written and, as a ghost, the result they are of

toggles == <<expanded, timing, paging>>
answer == <<command, result, content, failing>>
pipe == <<sent, read, pager, direct>>
vars == <<phase, toggles, answer, pipe, file>>

Absent == [by |-> "nobody"]
Theirs == [by |-> "others"]

-----------------------------------------------------------------------------
(* Layout                                                                  *)

Width(c) == IF c \in Wide THEN 2 ELSE 1
Bytes(c) == IF c \in Wide THEN 3 ELSE IF c \in Accented THEN 2 ELSE 1
Total(Of(_), s) ==
  LET upto[i \in 0 .. Len(s)] == IF i = 0 THEN 0 ELSE upto[i-1] + Of(s[i]) IN upto[Len(s)]
VisibleLen(s) == Total(Width, s)
ByteLen(s)    == Total(Bytes, s)
Most(s, Of(_)) == Max({0} \union {Of(x) : x \in ToSet(s)})

Fill(c, n)  == [i \in 1 .. (IF n > 0 THEN n ELSE 0) |-> c]
Blanks(n)   == Fill(" ", n)
\* format!("{:<n$}") counts characters, the cells' padding counts columns.
PadChars(s, n)   == s \o Blanks(n - Len(s))
PadVisible(s, n) == s \o Blanks(n - VisibleLen(s))
Join(cells, by)  == FoldLeft(LAMBDA line, c : IF line = <<>> THEN c ELSE line \o by \o c, <<>>, cells)

Null == <<"N", "U", "L", "L">>
\* t and f stand for booleans, whatever the type of the column.
Normalize(v) == CASE v = <<"t">> -> <<"t", "r", "u", "e">>
                  [] v = <<"f">> -> <<"f", "a", "l", "s", "e">>
                  [] OTHER -> v

TruncateMiddle(v) ==
  LET keep == MaxCell - 3
      head == (keep + 1) \div 2
  IN  IF Len(v) <= MaxCell THEN v
      ELSE SubSeq(v, 1, head) \o <<".", ".", ".">> \o SubSeq(v, Len(v) - (keep - head) + 1, Len(v))

\* The segments with one character more, none wider than a width unless it is that
\* character alone.  Faulty: the character that does not fit goes missing.  (A "Faulty"
\* definition is no part of the model: it is the next one with a plausible bug.)
FoldedDropping(segs, c, width) ==
  IF VisibleLen(Last(segs)) + Width(c) > width /\ Last(segs) # <<>>
  THEN Append(segs, <<>>) ELSE [segs EXCEPT ![Len(segs)] = Append(@, c)]
Folded(segs, c, width) ==
  IF VisibleLen(Last(segs)) + Width(c) > width /\ Last(segs) # <<>>
  THEN Append(segs, <<c>>) ELSE [segs EXCEPT ![Len(segs)] = Append(@, c)]
WrapValue(v, width) ==
  LET upto[i \in 0 .. Len(v)] == IF i = 0 THEN << <<>> >> ELSE Folded(upto[i-1], v[i], width) IN upto[Len(v)]

Footer(r) == <<"(", Len(r.rows), "rows)">>

\* One record after another: a title, then each column with its value folded
\* into the room that the longest name leaves.
LabelWidth(r) == Most(r.columns, ByteLen)
Room(r) == LET left == TermWidth - (LabelWidth(r) + 3) IN IF left > 1 THEN left ELSE 1
ValueAt(row, i) == IF i \in DOMAIN row THEN row[i] ELSE Null
Field(r, row, i) ==
  LET segs == WrapValue(ValueAt(row, i), Room(r))
  IN  [k \in DOMAIN segs |->
         IF k = 1 THEN PadChars(r.columns[i], LabelWidth(r)) \o <<" ", "|", " ">> \o Normalize(segs[1])
         ELSE Blanks(LabelWidth(r) + 3) \o Normalize(segs[k])]
Title(r, k) ==
  LET title == <<"-", "[", " ", "R", "E", "C", "O", "R", "D", " ", k, " ", "]">>
  IN  title \o Fill("-", LabelWidth(r) + 3 - Len(title))
FormatExpanded(r) ==
  FlattenSeq([k \in DOMAIN r.rows |->
    <<Title(r, k)>> \o FlattenSeq([i \in DOMAIN r.columns |-> Field(r, r.rows[k], i)])])
  \o <<Footer(r)>>

\* A table: a header, a rule and the rows, as sequences of padded cells.
Cells(r) == [k \in DOMAIN r.rows |-> [i \in DOMAIN r.rows[k] |-> TruncateMiddle(Normalize(r.rows[k][i]))]]
ColWidth(r, i) ==
  LET widest == Most(Cells(r), LAMBDA row : IF i \in DOMAIN row THEN VisibleLen(row[i]) ELSE 0)
  IN  IF ByteLen(r.columns[i]) > widest THEN ByteLen(r.columns[i]) ELSE widest
Grid(r) ==
  <<[i \in DOMAIN r.columns |-> PadChars(r.columns[i], ColWidth(r, i))],
    [i \in DOMAIN r.columns |-> Fill("-", ColWidth(r, i))]>>
  \o [k \in DOMAIN r.rows |-> [i \in DOMAIN r.rows[k] |-> PadVisible(Cells(r)[k][i], ColWidth(r, i))]]
FormatMinimal(r) ==
  LET grid == Grid(r) IN [k \in DOMAIN grid |-> Join(grid[k], <<" ", " ">>)] \o <<Footer(r)>>

FormatResult(r, records) ==
  IF r.columns = <<>> THEN <<Footer(r)>>
  ELSE IF records THEN FormatExpanded(r) ELSE FormatMinimal(r)

\* A plan: a line for each node, its details under it, then its children.
ParsedNodes == {ParseExplainNode[node] : node \in PlanNodes}
RenderLine(node, depth) ==
  Blanks(2 * depth) \o (IF depth = 0 THEN <<>> ELSE <<"-> ">>) \o <<node.type>>
  \o (IF node.relation = <<>> THEN <<>> ELSE <<" on ">> \o node.relation)
  \o <<"cost", node.cost, "rows", node.rows>>
  \o (IF node.actual = <<>> THEN <<>> ELSE <<"actual">> \o node.actual)
RenderDetail(node, depth) == [i \in DOMAIN node.detail |-> Blanks(2 * depth + 2) \o node.detail[i]]
RenderNode[node \in ParsedNodes, depth \in Nat] ==
  <<RenderLine(node, depth)>> \o RenderDetail(node, depth)
  \o FlattenSeq([i \in DOMAIN node.children |-> RenderNode[node.children[i], depth + 1]])
RenderPlan(plan) == RenderNode[plan, 0]

\* A description: its columns as a table, then each section that has entries.
ColumnHeads(extended) ==
  << <<"column">>, <<"type">>, <<"nullable">>, <<"default">> >>
  \o IF extended THEN << <<"storage">>, <<"stats_target">>, <<"description">> >> ELSE <<>>
PrintNamedList(header, items) ==
  IF items = {} THEN <<>>
  ELSE << <<>>, <<header, ":">> >> \o SetToSeq({Blanks(4) \o <<i.name, " ", i.definition>> : i \in items})
PrintDescription(d) ==
  << <<"Table">> \o d.schema \o <<".">> \o d.name, <<>> >>
  \o FormatMinimal([columns |-> ColumnHeads(d.extended), rows |-> d.columns])
  \o PrintNamedList("Indexes", d.sections["indexes"])
  \o PrintNamedList("Foreign-key constraints", d.sections["foreign_keys"])
  \o PrintNamedList("Check constraints", d.sections["checks"])
  \o PrintNamedList("Triggers", d.sections["triggers"])

\* CSV: a value with a comma, a quote or the end of a line is quoted.
Comma == ","
Quote == "\""
NewLine == "\n"
Special == {Comma, Quote, NewLine, "\r"}
\* Faulty: its quotes are not doubled.
CsvQuoteOnce(v) ==
  IF ToSet(v) \intersect Special = {} THEN v ELSE <<Quote>> \o v \o <<Quote>>
CsvQuote(v) ==
  IF ToSet(v) \intersect Special = {} THEN v
  ELSE <<Quote>> \o FlattenSeq([i \in DOMAIN v |-> IF v[i] = Quote THEN <<Quote, Quote>> ELSE <<v[i]>>]) \o <<Quote>>
CsvRecord(cells) ==
  FlattenSeq([i \in DOMAIN cells |-> (IF i = 1 THEN <<>> ELSE <<Comma>>) \o CsvQuote(cells[i])]) \o <<NewLine>>
CsvLines(r) ==
  LET records == <<r.columns>> \o r.rows IN [k \in DOMAIN records |-> CsvRecord(records[k])]

-----------------------------------------------------------------------------
(* Paging                                                                  *)

Toggle ==
  /\ phase = "prompt"
  /\ \/ expanded' = ~expanded /\ UNCHANGED <<timing, paging>>
     \/ timing' = ~timing     /\ UNCHANGED <<expanded, paging>>
     \/ paging' = ~paging     /\ UNCHANGED <<expanded, timing>>
  /\ UNCHANGED <<phase, answer, pipe, file>>

\* A statement has run: its result and, with \timing, its time.
Reply(r) ==
  /\ phase = "prompt"
  /\ phase' = "emit" /\ command' = "sql"
  /\ result' = r
  /\ content' = FormatResult(r, expanded) \o (IF timing THEN << <<"Time">> >> ELSE <<>>)
  /\ UNCHANGED <<toggles, pipe, failing, file>>

\* \explain: a plan, or an error.
Explain(p) ==
  /\ phase = "prompt"
  /\ phase' = "emit" /\ command' = "explain"
  /\ result' = IF p = <<>> THEN <<>> ELSE ParseExplainNode[p]
  /\ content' = IF p = <<>> THEN << <<"error">> >> ELSE RenderPlan(result')
  /\ UNCHANGED <<toggles, pipe, failing, file>>

\* \d <table> and \d+ <table>: not paged.
Describe(name, extended) ==
  /\ phase = "prompt"
  /\ \E failed \in SUBSET (IF "query" \in Faults THEN LaterQueries ELSE {}) :
       /\ result' \in DescribeTable(name, extended, failed)
       /\ failing' = failed
  /\ content' = IF result'.found THEN PrintDescription(result') ELSE << <<"error">> >>
  /\ phase' = "emitted" /\ command' = "describe" /\ direct' = TRUE
  /\ UNCHANGED <<toggles, sent, read, pager, file>>

\* \export of a history entry, to a path where nothing is: the query runs again ...
Export(r) ==
  /\ phase = "prompt" /\ file = Absent
  /\ phase' = "create" /\ command' = "export"
  /\ result' = r
  /\ UNCHANGED <<toggles, content, failing, pipe, file>>

\* ... its answer creates the file, or empties what has come to be there, ...
CreateFile ==
  /\ phase = "create"
  /\ \/ phase' = "write" /\ file' = [by |-> "export", of |-> result, lines |-> <<>>]
     \/ "disk" \in Faults /\ phase' = "emitted" /\ UNCHANGED file
  /\ UNCHANGED <<toggles, answer, pipe>>

\* ... and is written to it.  A file that cannot be written whole is removed.
WriteFile ==
  /\ phase = "write"
  /\ LET lines == CsvLines(result)
         k     == Len(file.lines)
     IN  \/ k < Len(lines) /\ file' = [file EXCEPT !.lines = Append(@, lines[k+1])] /\ UNCHANGED phase
         \/ k < Len(lines) /\ "disk" \in Faults /\ phase' = "emitted" /\ file' = Absent
         \/ k = Len(lines) /\ phase' = "emitted" /\ UNCHANGED file
  /\ UNCHANGED <<toggles, answer, pipe>>

\* Others make a file of that name, and take it or the exported one away.
OthersFile ==
  /\ \/ file = Absent /\ phase \in {"prompt", "create"} /\ file' = Theirs
     \/ file # Absent /\ phase = "prompt" /\ file' = Absent
  /\ UNCHANGED <<phase, toggles, answer, pipe>>

ShouldPage == paging /\ TermRows > 0 /\ Len(content) > TermRows

\* The pager is started, or the text is for the terminal: paging is off, the text
\* fits, or $PAGER cannot be started.
Emit ==
  /\ phase = "emit"
  /\ \/ ShouldPage /\ phase' = "feed" /\ pager' = "running"
     \/ (ShouldPage => "spawn" \in Faults) /\ phase' = "direct" /\ UNCHANGED pager
  /\ UNCHANGED <<toggles, answer, sent, read, direct, file>>

\* write_all blocks while the pipe is full, and fails when nobody reads it any
\* more: the text then goes to the terminal, all of it.
\* Faulty: it goes nowhere.
FeedOrDrop ==
  /\ phase = "feed" /\ sent < Len(content)
  /\ \/ /\ pager = "running" /\ sent - read < PipeSize
        /\ sent' = sent + 1 /\ phase' = phase
     \/ /\ pager # "running"
        /\ phase' = "emitted" /\ UNCHANGED sent
  /\ UNCHANGED <<toggles, answer, read, pager, direct, file>>
Feed ==
  /\ phase = "feed" /\ sent < Len(content)
  /\ \/ /\ pager = "running" /\ sent - read < PipeSize
        /\ sent' = sent + 1 /\ phase' = phase
     \/ /\ pager # "running"
        /\ phase' = "direct" /\ UNCHANGED sent
  /\ UNCHANGED <<toggles, answer, read, pager, direct, file>>

\* Everything is in the pipe, which is closed: the pager sees its end.
Close ==
  /\ phase = "feed" /\ sent = Len(content)
  /\ phase' = "wait"
  /\ UNCHANGED <<toggles, answer, pipe, file>>

\* The pager has exited, with whatever status.
\* Faulty: only one that has been read to the end is taken for over.
WaitForEnd ==
  /\ phase = "wait" /\ pager = "done"
  /\ phase' = "emitted"
  /\ UNCHANGED <<toggles, answer, pipe, file>>
Wait ==
  /\ phase = "wait" /\ pager # "running"
  /\ phase' = "emitted"
  /\ UNCHANGED <<toggles, answer, pipe, file>>

WriteDirect ==
  /\ phase = "direct"
  /\ phase' = "emitted" /\ direct' = TRUE
  /\ UNCHANGED <<toggles, answer, sent, read, pager, file>>

\* emit has returned: the loop goes on to the next prompt.
NextPrompt ==
  /\ phase = "emitted"
  /\ phase' = "prompt" /\ command' = "none"
  /\ result' = <<>> /\ content' = <<>> /\ sent' = 0 /\ read' = 0 /\ pager' = "none" /\ direct' = FALSE
  /\ failing' = {}
  /\ file' = IF file = Absent THEN Absent ELSE Theirs
  /\ UNCHANGED toggles

\* The pager reads, and ends: when all has been read and the user has seen it,
\* when the user has seen enough, or by an error of its own.
PagerRead ==
  /\ pager = "running" /\ read < sent
  /\ read' = read + 1
  /\ UNCHANGED <<phase, toggles, answer, sent, pager, direct, file>>
PagerEnds ==
  /\ pager = "running"
  /\ \/ phase = "wait" /\ read = Len(content) /\ pager' = "done"
     \/ (phase # "wait" \/ read < Len(content)) /\ pager' = "quit"
     \/ "pager" \in Faults /\ pager' = "failed"
  /\ UNCHANGED <<phase, toggles, answer, sent, read, direct, file>>

\* Ctrl-C outside of the editor kills the shell, also while the pager has the
\* terminal and while a file is being written.
Interrupt ==
  /\ phase \in {"feed", "wait", "create", "write"}
  /\ phase' = "killed"
  /\ UNCHANGED <<toggles, answer, pipe, file>>

Init ==
  /\ phase = "prompt" /\ command = "none" /\ failing = {} /\ file \in {Absent, Theirs}
  /\ expanded = FALSE /\ timing = FALSE /\ paging = TRUE
  /\ result = <<>> /\ content = <<>> /\ sent = 0 /\ read = 0 /\ pager = "none" /\ direct = FALSE

Shell == Emit \/ Feed \/ Close \/ Wait \/ WriteDirect \/ CreateFile \/ WriteFile \/ NextPrompt
Pager == PagerRead \/ PagerEnds
Killed == phase = "killed" /\ UNCHANGED vars

Asked ==
  \/ \E r \in Results : Reply(r)
  \/ \E p \in Plans : Explain(p)
  \/ \E name \in TypedNames, extended \in BOOLEAN : Describe(name, extended)
  \/ \E r \in Exports : Export(r)

Next == Toggle \/ Asked \/ Shell \/ Pager \/ OthersFile \/ Interrupt \/ Killed

\* The shell goes on; the user, sooner or later, leaves the pager.
Spec == Init /\ [][Next]_vars /\ WF_vars(Shell) /\ WF_vars(PagerEnds)

-----------------------------------------------------------------------------
\* Expanded display shows every value whole, folded into the terminal's width
\* where that is possible; a segment that reads t or f is the exception.
Lone(v, width) == \E k \in DOMAIN WrapValue(v, width) : WrapValue(v, width)[k] \in {<<"t">>, <<"f">>}
Unfolded(r, row, i) == FlattenSeq([k \in DOMAIN Field(r, row, i) |-> SubSeq(Field(r, row, i)[k], LabelWidth(r) + 4, Len(Field(r, row, i)[k]))])
ExpandedIsWhole ==
  phase = "emit" /\ command = "sql" /\ expanded =>
    \A row \in ToSet(result.rows), i \in DOMAIN result.columns :
      Lone(ValueAt(row, i), Room(result)) \/ Unfolded(result, row, i) = ValueAt(row, i)

\* A text longer than what the pipe holds is never lost: it has been read by the
\* pager or written to the terminal, unless the user has left the pager.
Seen == command \in {"describe", "export"} \/ direct \/ read = Len(content) \/ pager = "quit"
LostOnlyInPipe == phase = "emitted" /\ ~Seen => pager = "failed" /\ Len(content) <= read + PipeSize

\* \d with a bare name that one relation has, and which the search path finds, shows
\* that relation: its schema, and in each section what belongs to it and all of it,
\* up to the queries that failed; nothing tells that a section is missing.
DescriptionIsTrue ==
  command = "describe" /\ result.found /\ Cardinality(Named(result.name)) = 1 /\ Named(result.name) = Regclass(result.name) =>
    LET r == CHOOSE rel \in Relations : rel.name = result.name
        truth == [s \in Sections |-> CASE s = "indexes" -> r.indexes [] s = "foreign_keys" -> r.foreign_keys
                                        [] s = "checks" -> r.checks [] s = "triggers" -> r.triggers]
    IN  /\ result.schema = IF "schema" \in failing THEN Public ELSE r.schema
        /\ \A s \in Sections \ failing : s # "triggers" \/ result.extended => result.sections[s] = truth[s]

\* What \export leaves at the path, unless it is killed, is the whole result: a
\* reader of CSV gets back its columns and rows, whatever characters are in them.
\* (CSV has one line for a record without cells and one with an empty cell.)
CsvStep(st, c) ==
  LET Cell(mode) == [st EXCEPT !.cell = Append(@, c), !.mode = mode]
      record == Append(st.record, st.cell)
  IN  CASE st.mode = "quoted" /\ c = Quote    -> [st EXCEPT !.mode = "closed"]
        [] st.mode = "quoted" /\ c # Quote    -> Cell("quoted")
        [] st.mode = "closed" /\ c = Quote    -> Cell("quoted")
        [] st.mode = "start"  /\ c = Quote    -> [st EXCEPT !.mode = "quoted"]
        [] st.mode # "quoted" /\ c = Comma    -> [st EXCEPT !.record = record, !.cell = <<>>, !.mode = "start"]
        [] st.mode # "quoted" /\ c = NewLine  -> [st EXCEPT !.records = Append(@, record), !.record = <<>>, !.cell = <<>>, !.mode = "start"]
        [] OTHER                              -> Cell("plain")
ReadCsv(text) ==
  LET upto[i \in 0 .. Len(text)] ==
        IF i = 0 THEN [records |-> <<>>, record |-> <<>>, cell |-> <<>>, mode |-> "start"]
        ELSE CsvStep(upto[i-1], text[i])
  IN  upto[Len(text)].records
ExportIsWhole ==
  phase \notin {"write", "killed"} /\ file.by = "export" =>
    LET records == <<file.of.columns>> \o file.of.rows
    IN  <<>> \notin ToSet(records) => ReadCsv(FlattenSeq(file.lines)) = records

\* The prompt comes back once the pager has been left, whatever it did.
PromptReturns == phase \in {"emit", "create"} ~> phase \in {"prompt", "killed"}
=============================================================================
