---------------------------- MODULE Output_proofs ----------------------------
(***************************************************************************)
(* What Output says of the pager, of descriptions and of exported files    *)
(* holds for any results, catalog, terminal and pipe; that an exported     *)
(* file can be read back and that expanded display shows values whole, for *)
(* any texts in their cells.  And what Completion says of a suggestion     *)
(* taken, and of the order of what is offered, holds for any line,         *)
(* alphabet, frequencies and schema of plain names: the two modules are    *)
(* independent, and share the lemmas about sequences.                      *)
(***************************************************************************)
EXTENDS Output, Completion, FiniteSetTheorems, SequenceTheorems, WellFoundedInduction, TLAPS

\* The pager runs while it is fed or waited for.  Before it there is nothing in
\* the pipe, and the pipe never holds more than it can.
PipeOK ==
  /\ sent \in Nat /\ read \in Nat /\ read <= sent /\ sent <= read + PipeSize
  /\ pager \in {"none", "running", "quit", "failed", "done"}
  /\ phase \in {"prompt", "emit", "create", "write"} => pager = "none" /\ sent = 0 /\ read = 0
  /\ pager = "running" => phase \in {"feed", "wait", "killed"}
  /\ phase \in {"feed", "wait"} => pager # "none"
  /\ phase = "wait" => sent = Len(content)
  /\ pager = "done" => read = Len(content)

\* What has been emitted was for the terminal, or went through the pipe.
Emitted ==
  /\ phase \in {"create", "write"} => command = "export"
  /\ phase = "emitted" =>
       command \in {"describe", "export"} \/ direct \/ (pager # "none" /\ sent = Len(content))

\* A description is one of the table named, with the queries that failed.
Described ==
  command = "describe" => \E name \in TypedNames, extended \in BOOLEAN : result \in DescribeTable(name, extended, failing)

\* An exported file is a part of the result, from its beginning, and all of it
\* once it has been written.
Exported ==
  /\ phase \in {"create", "write"} => result \in Exports
  /\ phase = "write" => file.by = "export"
  /\ file.by = "export" =>
       /\ phase \in {"write", "emitted", "killed"} /\ file.of = result /\ result \in Exports
       /\ file = [by |-> "export", of |-> file.of, lines |-> file.lines]
       /\ Len(file.lines) \in 0 .. Len(CsvLines(result))
       /\ file.lines = SubSeq(CsvLines(result), 1, Len(file.lines))
       /\ phase = "emitted" => Len(file.lines) = Len(CsvLines(result))

\* What is laid out is a result of the server.
Replied == phase = "emit" /\ command = "sql" => result \in Results

IInv == PipeOK /\ Emitted /\ Described /\ Replied /\ Exported

\* An exported file that the shell was not killed while writing has every line of
\* the result.
FileIsWhole == phase \notin {"write", "killed"} /\ file.by = "export" => file.lines = CsvLines(file.of)

-----------------------------------------------------------------------------
(* The pager                                                                *)

\* The pipe holds what has been sent and not read, and no more than it can.
LEMMA PipeKept ==
  ASSUME PipeOK, [Next]_vars
  PROVE  PipeOK'
<1> USE DEF PipeOK, answer, pipe, toggles
<1>0. PipeSize \in Nat
  BY OutputAssumption
<1>1. CASE UNCHANGED vars
  BY <1>1 DEF vars
<1>2. CASE Toggle
  BY <1>2 DEF Toggle
<1>3. ASSUME NEW r, Reply(r) PROVE PipeOK'
  BY <1>3 DEF Reply
<1>4. ASSUME NEW p, Explain(p) PROVE PipeOK'
  BY <1>4 DEF Explain
<1>5. ASSUME NEW name, NEW extended, Describe(name, extended) PROVE PipeOK'
  BY <1>5 DEF Describe
<1>6. ASSUME NEW r, Export(r) PROVE PipeOK'
  BY <1>6 DEF Export
<1>7. CASE Emit
  BY <1>7 DEF Emit
<1>8. CASE Feed
  BY <1>0, <1>8 DEF Feed
<1>9. CASE Close
  BY <1>9 DEF Close
<1>10. CASE Wait
  BY <1>10 DEF Wait
<1>11. CASE WriteDirect
  BY <1>11 DEF WriteDirect
<1>12. CASE CreateFile
  BY <1>12 DEF CreateFile
<1>13. CASE WriteFile
  BY <1>13 DEF WriteFile
<1>14. CASE NextPrompt
  BY <1>0, <1>14 DEF NextPrompt
<1>15. CASE PagerRead
  BY <1>0, <1>15 DEF PagerRead
<1>16. CASE PagerEnds
  BY <1>16 DEF PagerEnds
<1>17. CASE OthersFile
  BY <1>17 DEF OthersFile
<1>18. CASE Interrupt
  BY <1>18 DEF Interrupt
<1>19. CASE Killed
  BY <1>1, <1>19 DEF Killed
<1>20. QED
  BY <1>1, <1>2, <1>3, <1>4, <1>5, <1>6, <1>7, <1>8, <1>9, <1>10, <1>11, <1>12, <1>13, <1>14, <1>15, <1>16,
     <1>17, <1>18, <1>19 DEF Next, Asked, Shell, Pager

\* Only what reached the terminal or the pipe counts as emitted.
LEMMA EmittedKept ==
  ASSUME PipeOK, Emitted, [Next]_vars
  PROVE  Emitted'
<1> USE DEF Emitted, answer, pipe, toggles
<1>1. CASE UNCHANGED vars
  BY <1>1 DEF vars
<1>2. CASE Toggle
  BY <1>2 DEF Toggle
<1>3. ASSUME NEW r, Reply(r) PROVE Emitted'
  BY <1>3 DEF Reply
<1>4. ASSUME NEW p, Explain(p) PROVE Emitted'
  BY <1>4 DEF Explain
<1>5. ASSUME NEW name, NEW extended, Describe(name, extended) PROVE Emitted'
  BY <1>5 DEF Describe
<1>6. ASSUME NEW r, Export(r) PROVE Emitted'
  BY <1>6 DEF Export
<1>7. CASE Emit
  BY <1>7 DEF Emit
<1>8. CASE Feed
  BY <1>8 DEF Feed
<1>9. CASE Close
  BY <1>9 DEF Close
<1>10. CASE Wait
  BY <1>10 DEF Wait, PipeOK
<1>11. CASE WriteDirect
  BY <1>11 DEF WriteDirect
<1>12. CASE CreateFile
  BY <1>12 DEF CreateFile
<1>13. CASE WriteFile
  BY <1>13 DEF WriteFile
<1>14. CASE NextPrompt
  BY <1>14 DEF NextPrompt
<1>15. CASE PagerRead
  BY <1>15 DEF PagerRead
<1>16. CASE PagerEnds
  BY <1>16 DEF PagerEnds
<1>17. CASE OthersFile
  BY <1>17 DEF OthersFile
<1>18. CASE Interrupt
  BY <1>18 DEF Interrupt
<1>19. CASE Killed
  BY <1>1, <1>19 DEF Killed
<1>20. QED
  BY <1>1, <1>2, <1>3, <1>4, <1>5, <1>6, <1>7, <1>8, <1>9, <1>10, <1>11, <1>12, <1>13, <1>14, <1>15, <1>16,
     <1>17, <1>18, <1>19 DEF Next, Asked, Shell, Pager

\* Only \d puts a description there, and only the next prompt takes it away.
LEMMA DescribedKept ==
  ASSUME Described, [Next]_vars
  PROVE  Described'
<1> USE DEF Described, answer, pipe, toggles
<1>0. ASSUME UNCHANGED answer PROVE Described'
  BY <1>0
<1>1. CASE UNCHANGED vars \/ Toggle \/ (Shell /\ ~NextPrompt) \/ Pager \/ OthersFile \/ Interrupt \/ Killed
  BY <1>0, <1>1
  DEF vars, Toggle, Shell, Emit, Feed, Close, Wait, WriteDirect, CreateFile, WriteFile, Pager, PagerRead, PagerEnds,
      OthersFile, Interrupt, Killed
<1>2. CASE NextPrompt
  BY <1>2 DEF NextPrompt
<1>3. ASSUME NEW r, Reply(r) \/ Export(r) PROVE Described'
  BY <1>3 DEF Reply, Export
<1>4. ASSUME NEW p, Explain(p) PROVE Described'
  BY <1>4 DEF Explain
<1>5. ASSUME NEW name \in TypedNames, NEW extended \in BOOLEAN, Describe(name, extended) PROVE Described'
  BY <1>5 DEF Describe
<1>6. QED
  BY <1>1, <1>2, <1>3, <1>4, <1>5 DEF Next, Asked

\* Only a statement's result is laid out as one.
LEMMA RepliedKept ==
  ASSUME Replied, [Next]_vars
  PROVE  Replied'
<1> USE DEF Replied, answer, pipe, toggles
<1>1. CASE UNCHANGED vars \/ Toggle \/ Shell \/ Pager \/ OthersFile \/ Interrupt \/ Killed
  BY <1>1
  DEF vars, Toggle, Shell, Emit, Feed, Close, Wait, WriteDirect, CreateFile, WriteFile, NextPrompt, Pager, PagerRead, PagerEnds,
      OthersFile, Interrupt, Killed
<1>2. ASSUME NEW r \in Results, Reply(r) PROVE Replied'
  BY <1>2 DEF Reply
<1>3. ASSUME NEW p, Explain(p) PROVE Replied'
  BY <1>3 DEF Explain
<1>4. ASSUME NEW name, NEW extended, Describe(name, extended) PROVE Replied'
  BY <1>4 DEF Describe
<1>5. ASSUME NEW r, Export(r) PROVE Replied'
  BY <1>5 DEF Export
<1>6. QED
  BY <1>1, <1>2, <1>3, <1>4, <1>5 DEF Next, Asked

-----------------------------------------------------------------------------
(* The exported file                                                        *)

\* A sequence over a set is one over a larger set.
LEMMA SeqWithin ==
  ASSUME NEW A, NEW B, A \subseteq B, NEW s \in Seq(A)
  PROVE  s \in Seq(B)
<1>1. Len(s) \in Nat /\ s = [i \in 1 .. Len(s) |-> s[i]] /\ \A i \in 1 .. Len(s) : s[i] \in A
  BY LenProperties, ElementOfSeq
<1>2. PICK n \in Nat : n = Len(s)
  BY <1>1
<1>3. s \in [1 .. n -> B]
  BY <1>1, <1>2
<1>4. QED
  BY <1>3, SeqDef, SMT

\* The records of an exported result: the names of its columns and the rows.
RecordsOf(r) == <<r.columns>> \o r.rows

\* A table has sequences of texts over one set of characters.
LEMMA TableIs ==
  ASSUME NEW r \in Results \union Exports
  PROVE  \E C : r.columns \in Seq(Seq(C)) /\ r.rows \in Seq(Seq(Seq(C))) /\ RecordsOf(r) \in Seq(Seq(Seq(C)))
<1> DEFINE records == {r.columns} \union ToSet(r.rows)
<1>1. IsSeq(r.rows) /\ \A row \in records : IsSeq(row) /\ \A cell \in ToSet(row) : IsSeq(cell)
  BY OutputAssumption DEF IsTable
<1>2. PICK C : C = UNION {UNION {ToSet(cell) : cell \in ToSet(row)} : row \in records}
  OBVIOUS
<1>3. ASSUME NEW row \in records, NEW cell \in ToSet(row) PROVE cell \in Seq(C)
  <2>1. ToSet(cell) \subseteq C
    BY <1>2
  <2>2. cell \in Seq(ToSet(cell))
    BY <1>1 DEF IsSeq
  <2>3. QED
    BY <2>1, <2>2, SeqWithin
<1>4. ASSUME NEW row \in records PROVE row \in Seq(Seq(C))
  <2>1. ToSet(row) \subseteq Seq(C)
    BY <1>3
  <2>2. row \in Seq(ToSet(row))
    BY <1>1 DEF IsSeq
  <2>3. QED
    BY <2>1, <2>2, SeqWithin
<1>5. PICK E : E = Seq(Seq(C))
  OBVIOUS
<1>6. r.columns \in E /\ r.rows \in Seq(E)
  <2>1. r.columns \in E /\ ToSet(r.rows) \subseteq E
    BY <1>4, <1>5
  <2>2. r.rows \in Seq(ToSet(r.rows))
    BY <1>1 DEF IsSeq
  <2>3. QED
    BY <2>1, <2>2, SeqWithin
<1>7. RecordsOf(r) \in Seq(E)
  <2>1. <<r.columns>> \in Seq(E)
    BY <1>6
  <2>2. QED
    BY <1>6, <2>1, ConcatProperties DEF RecordsOf
<1>8. QED
  BY <1>5, <1>6, <1>7

\* A result has a line for each record.
LEMMA CsvType ==
  ASSUME NEW r \in Exports
  PROVE  /\ \E S : CsvLines(r) \in Seq(S)
         /\ Len(CsvLines(r)) = Len(RecordsOf(r)) /\ \A k \in 1 .. Len(RecordsOf(r)) : CsvLines(r)[k] = CsvRecord(RecordsOf(r)[k])
<1>0. PICK t : t = RecordsOf(r)
  OBVIOUS
<1>1. PICK n \in Nat : DOMAIN t = 1 .. n /\ Len(t) = n
  <2>1. PICK C : t \in Seq(Seq(Seq(C)))
    BY <1>0, TableIs
  <2>2. QED
    BY <2>1, LenProperties
<1>2. CsvLines(r) = [k \in 1 .. n |-> CsvRecord(t[k])]
  BY <1>0, <1>1 DEF CsvLines, RecordsOf
<1>3. PICK lines : lines = CsvLines(r)
  OBVIOUS
<1>4. PICK S : S = {CsvRecord(t[k]) : k \in 1 .. n}
  OBVIOUS
<1>5. lines \in [1 .. n -> S] /\ \A k \in 1 .. n : lines[k] = CsvRecord(t[k])
  BY <1>2, <1>3, <1>4
<1>6. lines \in Seq(S) /\ Len(lines) = n
  <2>1. lines \in Seq(S)
    BY <1>5, SeqDef, Zenon
  <2>2. QED
    BY <1>5, <2>1, LenProperties
<1>7. QED
  BY <1>0, <1>1, <1>3, <1>5, <1>6

\* The part of a sequence up to k, with the element after it, goes up to k + 1.
LEMMA OneMore ==
  ASSUME NEW S, NEW s \in Seq(S), NEW k \in 0 .. Len(s) - 1
  PROVE  Append(SubSeq(s, 1, k), s[k+1]) = SubSeq(s, 1, k + 1)
<1>1. Len(s) \in Nat /\ k \in Nat /\ k + 1 \in 1..Len(s) /\ \A i \in 1..Len(s) : s[i] \in S
  BY LenProperties, ElementOfSeq
<1>2. PICK t : t = SubSeq(s, 1, k)
  OBVIOUS
<1>3. t \in Seq(S) /\ Len(t) = k /\ \A i \in 1..k : t[i] = s[i]
  <2>1. \A i \in 1..k : s[i] \in S
    BY <1>1
  <2>2. QED
    BY <1>1, <1>2, <2>1, SubSeqProperties
<1>4. PICK u : u = SubSeq(s, 1, k + 1)
  OBVIOUS
<1>5. u \in Seq(S) /\ Len(u) = k + 1 /\ \A i \in 1..k + 1 : u[i] = s[i]
  <2>1. \A i \in 1..k + 1 : s[i] \in S
    BY <1>1
  <2>2. QED
    BY <1>1, <1>4, <2>1, SubSeqProperties
<1>6. PICK e : e = s[k+1] /\ e \in S
  BY <1>1
<1>7. Append(t, e) \in Seq(S) /\ Len(Append(t, e)) = k + 1
      /\ \A i \in 1..k + 1 : Append(t, e)[i] = IF i <= k THEN t[i] ELSE e
  BY <1>3, <1>6, AppendProperties
<1>8. \A i \in 1..k + 1 : Append(t, e)[i] = u[i]
  BY <1>1, <1>3, <1>5, <1>6, <1>7
<1>9. Append(t, e) = u
  BY <1>5, <1>7, <1>8, SeqEqual
<1>10. QED
  BY <1>2, <1>4, <1>6, <1>9

\* A part of the lines and the next line are a longer part of them.
LEMMA PartGrows ==
  ASSUME NEW r \in Exports, NEW lines, NEW k, k = Len(lines),
         k \in 0 .. Len(CsvLines(r)) - 1, lines = SubSeq(CsvLines(r), 1, k)
  PROVE  /\ Append(lines, CsvLines(r)[k+1]) = SubSeq(CsvLines(r), 1, k + 1)
         /\ Len(Append(lines, CsvLines(r)[k+1])) = k + 1 /\ k + 1 \in 0 .. Len(CsvLines(r))
<1>1. PICK S, s : s = CsvLines(r) /\ s \in Seq(S)
  BY CsvType
<1>2. Len(s) \in Nat /\ k + 1 \in 1..Len(s) /\ \A i \in 1..Len(s) : s[i] \in S
  BY <1>1, LenProperties, ElementOfSeq
<1>3. Append(lines, s[k+1]) = SubSeq(s, 1, k + 1)
  BY <1>1, OneMore
<1>4. Len(SubSeq(s, 1, k + 1)) = k + 1
  <2>1. \A i \in 1..k + 1 : s[i] \in S
    BY <1>2
  <2>2. QED
    BY <1>2, <2>1, SubSeqProperties
<1>5. QED
  BY <1>1, <1>2, <1>3, <1>4

\* The file of an export stays a part of its result, whoever else writes files.
LEMMA ExportedKept ==
  ASSUME Exported, [Next]_vars
  PROVE  Exported'
<1> USE DEF answer, pipe, toggles
<1>0. ASSUME UNCHANGED <<file, result>>, phase' = phase PROVE Exported'
  BY <1>0 DEF Exported
<1>1. CASE UNCHANGED vars \/ Toggle \/ Pager \/ Killed
  BY <1>0, <1>1 DEF vars, Toggle, Pager, PagerRead, PagerEnds, Killed
<1>2. ASSUME UNCHANGED <<file, result>>, phase \in {"emit", "feed", "wait", "direct"},
             phase' \in {"emit", "feed", "wait", "direct", "emitted"}
      PROVE  Exported'
  BY <1>2 DEF Exported
<1>3. CASE Emit \/ Feed \/ Close \/ Wait \/ WriteDirect
  BY <1>2, <1>3 DEF Emit, Feed, Close, Wait, WriteDirect
<1>4. CASE Interrupt
  BY <1>4 DEF Interrupt, Exported
<1>5. ASSUME phase = "prompt", UNCHANGED file, phase' \in {"emit", "emitted"} PROVE Exported'
  BY <1>5 DEF Exported
<1>6. ASSUME NEW r, Reply(r) PROVE Exported'
  BY <1>5, <1>6 DEF Reply
<1>7. ASSUME NEW p, Explain(p) PROVE Exported'
  BY <1>5, <1>7 DEF Explain
<1>8. ASSUME NEW name, NEW extended, Describe(name, extended) PROVE Exported'
  BY <1>5, <1>8 DEF Describe
<1>9. ASSUME NEW r \in Exports, Export(r) PROVE Exported'
  BY <1>9 DEF Export, Exported, Absent
<1>10. CASE NextPrompt
  BY <1>10 DEF NextPrompt, Exported, Absent, Theirs
<1>11. CASE OthersFile
  BY <1>11 DEF OthersFile, Exported, Absent, Theirs
<1>12. CASE CreateFile
  <2>1. phase = "create" /\ result' = result /\ result \in Exports /\ file.by # "export"
    BY <1>12 DEF CreateFile, Exported
  <2>2. CASE phase' = "emitted" /\ UNCHANGED file
    BY <2>1, <2>2 DEF Exported
  <2>3. CASE phase' = "write" /\ file' = [by |-> "export", of |-> result, lines |-> <<>>]
    <3>1. PICK S, s : s = CsvLines(result) /\ s \in Seq(S)
      BY <2>1, CsvType
    <3>2. Len(s) \in Nat /\ SubSeq(s, 1, 0) = <<>>
      BY <3>1, LenProperties, SubSeqEmpty
    <3>3. file'.by = "export" /\ file'.of = result /\ file'.lines = <<>> /\ Len(file'.lines) = 0
      BY <2>3
    <3>4. QED
      BY <2>1, <2>3, <3>1, <3>2, <3>3 DEF Exported
  <2>4. QED
    BY <1>12, <2>2, <2>3 DEF CreateFile
<1>13. CASE WriteFile
  <2>1. PICK k : k = Len(file.lines)
    OBVIOUS
  <2>2. PICK lines : lines = CsvLines(result)
    OBVIOUS
  <2>3. /\ phase = "write" /\ result' = result /\ result \in Exports /\ file.by = "export" /\ file.of = result
        /\ file = [by |-> "export", of |-> result, lines |-> file.lines]
        /\ k \in 0 .. Len(lines) /\ file.lines = SubSeq(lines, 1, k)
    BY <1>13, <2>1, <2>2 DEF WriteFile, Exported
  <2>4. CASE k = Len(lines) /\ phase' = "emitted" /\ UNCHANGED file
    BY <2>1, <2>2, <2>3, <2>4 DEF Exported
  <2>5. CASE phase' = "emitted" /\ file' = Absent
    BY <2>3, <2>5 DEF Exported, Absent
  <2>6. CASE k < Len(lines) /\ file' = [file EXCEPT !.lines = Append(@, lines[k+1])] /\ UNCHANGED phase
    <3>1. PICK more : more = Append(file.lines, lines[k+1])
      OBVIOUS
    <3>2. file' = [by |-> "export", of |-> result, lines |-> more]
      BY <2>3, <2>6, <3>1
    <3>3. Len(lines) \in Nat
      BY <2>2, <2>3, CsvType, LenProperties
    <3>4. k \in 0 .. Len(lines) - 1
      BY <2>3, <2>6, <3>3
    <3>5. more = SubSeq(lines, 1, k + 1) /\ Len(more) = k + 1 /\ k + 1 \in 0 .. Len(lines)
      BY <2>1, <2>2, <2>3, <3>1, <3>4, PartGrows
    <3>6. file'.by = "export" /\ file'.of = result /\ file'.lines = more
      BY <3>2
    <3>7. QED
      BY <2>2, <2>3, <2>6, <3>2, <3>5, <3>6 DEF Exported
  <2>7. QED
    BY <1>13, <2>1, <2>2, <2>4, <2>5, <2>6 DEF WriteFile
<1>14. QED
  BY <1>1, <1>3, <1>4, <1>6, <1>7, <1>8, <1>9, <1>10, <1>11, <1>12, <1>13 DEF Next, Asked, Shell

-----------------------------------------------------------------------------
(* What the commands show                                                   *)

\* At the first prompt nothing has been shown or written.
LEMMA Initially ==
  ASSUME Init
  PROVE  IInv
BY OutputAssumption DEF Init, IInv, PipeOK, Emitted, Described, Replied, Exported, Absent, Theirs

\* Whatever the pager, the disk and other programs do, the pipe holds no more than
\* it can, and what stands in a file is a part of the result it is of.
THEOREM InductiveInvariant == Spec => []IInv
<1>1. Init => IInv
  BY Initially
<1>2. IInv /\ [Next]_vars => IInv'
  BY PipeKept, EmittedKept, DescribedKept, RepliedKept, ExportedKept DEF IInv
<1>3. QED
  BY <1>1, <1>2, PTL DEF Spec

\* No more than what a pipe holds is ever lost, and nothing unless the pager fails.
THEOREM LossIsBounded == Spec => []LostOnlyInPipe
<1>1. IInv => LostOnlyInPipe
  <2>1. SUFFICES ASSUME PipeOK, Emitted, phase = "emitted", ~Seen
                 PROVE  pager = "failed" /\ Len(content) <= read + PipeSize
    BY DEF IInv, LostOnlyInPipe
  <2>2. pager # "none" /\ sent = Len(content) /\ pager # "quit" /\ read # Len(content)
    BY <2>1 DEF Emitted, Seen
  <2>3. QED
    BY <2>1, <2>2 DEF PipeOK
<1>2. QED
  BY <1>1, InductiveInvariant, PTL

\* Outside the writing of it an exported file has the lines of its result.
LEMMA WholeWhenWritten ==
  ASSUME IInv
  PROVE  FileIsWhole
<1>1. SUFFICES ASSUME Exported, phase \notin {"write", "killed"}, file.by = "export"
               PROVE  file.lines = CsvLines(file.of)
  BY DEF IInv, FileIsWhole
<1>2. /\ result \in Exports /\ file.of = result
      /\ file.lines = SubSeq(CsvLines(result), 1, Len(CsvLines(result)))
  BY <1>1 DEF Exported
<1>3. PICK S, s : s = CsvLines(result) /\ s \in Seq(S)
  BY <1>2, CsvType
<1>4. SubSeq(s, 1, Len(s)) = s
  BY <1>3, SubSeqFull
<1>5. QED
  BY <1>2, <1>3, <1>4

\* A file that \export leaves has every line of the result, unless the shell is
\* killed while it is written.
THEOREM ExportIsComplete == Spec => []FileIsWhole
<1>1. IInv => FileIsWhole
  BY WholeWhenWritten
<1>2. QED
  BY <1>1, InductiveInvariant, PTL

\* A set with one element is the set of it.
LEMMA OneElement ==
  ASSUME NEW S, IsFiniteSet(S), Cardinality(S) = 1
  PROVE  \E x : S = {x}
<1>1. S # {}
  BY FS_EmptySet
<1>2. PICK x : x \in S
  BY <1>1
<1>3. IsFiniteSet(S \ {x}) /\ Cardinality(S \ {x}) = 0
  BY <1>2, FS_RemoveElement
<1>4. S \ {x} = {}
  BY <1>3, FS_EmptySet
<1>5. QED
  BY <1>2, <1>4

\* What a description of a relation says, but for what the queries that failed
\* would have told.
SaysOf(d, name, extended, failed, r) ==
  /\ d.name = name /\ d.extended = extended
  /\ d.schema = IF "schema" \in failed THEN Public ELSE r.schema
  /\ "indexes" \notin failed => d.sections["indexes"] = r.indexes
  /\ "foreign_keys" \notin failed => d.sections["foreign_keys"] = r.foreign_keys
  /\ "checks" \notin failed => d.sections["checks"] = r.checks
  /\ "triggers" \notin failed /\ extended => d.sections["triggers"] = r.triggers

\* What the description of a relation says of it, if no other has its name.
LEMMA DescriptionOf ==
  ASSUME NEW name, NEW extended \in BOOLEAN, NEW failed, NEW d \in DescribeTable(name, extended, failed), d.found,
         NEW r \in Relations, Named(name) = {r}, Regclass(name) = {r}
  PROVE  SaysOf(d, name, extended, failed, r)
<1>1. PICK columns \in ColumnsQuery(name, extended), schema \in FetchSchema(name, failed) :
        d = Description(name, extended, columns, schema, failed)
  BY DEF DescribeTable, NotFound
<1>2. /\ d.name = name /\ d.extended = extended /\ d.schema = schema
      /\ d.sections = [s \in Sections |-> IF s = "triggers" /\ ~extended THEN {} ELSE FetchNamed(s, name, failed)]
  BY <1>1 DEF Description
<1>3. schema = IF "schema" \in failed THEN Public ELSE r.schema
  BY <1>1 DEF FetchSchema, SchemaQuery
<1>4. "indexes" \notin failed => d.sections["indexes"] = r.indexes
  BY <1>2 DEF Sections, FetchNamed, IndexesQuery
<1>5. "foreign_keys" \notin failed => d.sections["foreign_keys"] = r.foreign_keys
  BY <1>2 DEF Sections, FetchNamed, ForeignKeysQuery
<1>6. "checks" \notin failed => d.sections["checks"] = r.checks
  BY <1>2 DEF Sections, FetchNamed, ChecksQuery
<1>7. "triggers" \notin failed /\ extended => d.sections["triggers"] = r.triggers
  BY <1>2 DEF Sections, FetchNamed, TriggersQuery
<1>8. QED
  BY <1>2, <1>3, <1>4, <1>5, <1>6, <1>7 DEF SaysOf

\* A description with a name that one relation has is true of that relation, but
\* for what the queries that failed would have told.
THEOREM DescriptionHolds == Spec => []DescriptionIsTrue
<1>1. ASSUME Described, command = "describe", result.found, Cardinality(Named(result.name)) = 1,
             Named(result.name) = Regclass(result.name)
      PROVE  LET r == CHOOSE rel \in Relations : rel.name = result.name
                 truth == [s \in Sections |-> CASE s = "indexes" -> r.indexes [] s = "foreign_keys" -> r.foreign_keys
                                                 [] s = "checks" -> r.checks [] s = "triggers" -> r.triggers]
             IN  /\ result.schema = IF "schema" \in failing THEN Public ELSE r.schema
                 /\ \A s \in Sections \ failing : s # "triggers" \/ result.extended => result.sections[s] = truth[s]
  <2>1. PICK r : Named(result.name) = {r}
    <3>1. IsFiniteSet(Named(result.name))
      BY CatalogAssumption, FS_Subset DEF Named
    <3>2. QED
      BY <1>1, <3>1, OneElement
  <2>2. r \in Relations /\ r.name = result.name /\ \A rel \in Relations : rel.name = result.name => rel = r
    BY <2>1 DEF Named
  <2>3. (CHOOSE rel \in Relations : rel.name = result.name) = r
    BY <2>2
  <2>4. PICK name \in TypedNames, extended \in BOOLEAN : result \in DescribeTable(name, extended, failing)
    BY <1>1 DEF Described
  <2>5. result.name = name
    BY <1>1, <2>4 DEF DescribeTable, Description, NotFound
  <2>6. /\ result.extended = extended
        /\ result.schema = IF "schema" \in failing THEN Public ELSE r.schema
        /\ "indexes" \notin failing => result.sections["indexes"] = r.indexes
        /\ "foreign_keys" \notin failing => result.sections["foreign_keys"] = r.foreign_keys
        /\ "checks" \notin failing => result.sections["checks"] = r.checks
        /\ "triggers" \notin failing /\ extended => result.sections["triggers"] = r.triggers
    <3>1. Named(name) = {r} /\ Regclass(name) = {r} /\ r \in Relations
      BY <1>1, <2>1, <2>2, <2>5
    <3>2. PICK d : d = result
      OBVIOUS
    <3>3. PICK failed : failed = failing
      OBVIOUS
    <3>4. d \in DescribeTable(name, extended, failed) /\ d.found
      BY <1>1, <2>4, <3>2, <3>3
    <3>5. SaysOf(d, name, extended, failed, r)
      BY <3>1, <3>4, DescriptionOf
    <3>6. SaysOf(result, name, extended, failing, r)
      BY <3>2, <3>3, <3>5
    <3>7. QED
      BY <3>6 DEF SaysOf
  <2>7. QED
    BY <2>3, <2>6 DEF Sections
<1>2. IInv => DescriptionIsTrue
  BY <1>1 DEF IInv, DescriptionIsTrue
<1>3. QED
  BY <1>2, InductiveInvariant, PTL

-----------------------------------------------------------------------------
(* What a reader of CSV makes of the file                                   *)

\* The least of a set of places is in it.
LEMMA LeastPlace ==
  ASSUME NEW T, T \subseteq Nat, T # {}
  PROVE  \E m \in T : \A k \in T : m <= k
<1>1. PICK m \in T : \A k \in T : <<k, m>> \notin OpToRel(<, Nat)
  BY WFMin, NatLessThanWellFounded, Zenon
<1>2. ASSUME NEW k \in T PROVE m <= k
  <2>1. k \in Nat /\ m \in Nat /\ ~(k < m)
    BY <1>1 DEF OpToRel
  <2>2. QED
    BY <2>1
<1>3. QED
  BY <1>2

\* What holds at a place and goes from each place to the next holds up to the last.
LEMMA FromTo ==
  ASSUME NEW m \in Nat, NEW n \in Nat, NEW T, m \in T, \A k \in m .. n - 1 : k \in T => k + 1 \in T
  PROVE  \A k \in m .. n : k \in T
<1> DEFINE missing == {k \in m .. n : k \notin T}
<1>1. SUFFICES ASSUME missing # {} PROVE FALSE
  OBVIOUS
<1>2. PICK e \in missing : \A k \in missing : e <= k
  <2>1. missing \subseteq Nat
    OBVIOUS
  <2>2. QED
    BY <1>1, <2>1, LeastPlace
<1>3. e # m /\ e \in m .. n /\ e - 1 \in m .. n - 1 /\ (e - 1) + 1 = e
  BY <1>2
<1>4. e - 1 \in T
  BY <1>2, <1>3
<1>5. QED
  BY <1>2, <1>3, <1>4

\* A text stands in another one behind a place.
Stands(t, i, w) == i + Len(w) <= Len(t) /\ \A k \in 1 .. Len(w) : t[i+k] = w[k]

\* What stands in a part of a text stands in the text.
LEMMA StandsWithin ==
  ASSUME NEW C, NEW t \in Seq(C), NEW w \in Seq(C), NEW x \in Seq(C), NEW i \in Nat, NEW k \in Nat,
         Stands(t, i, w), Stands(w, k, x)
  PROVE  Stands(t, i + k, x)
<1>1. Len(t) \in Nat /\ Len(w) \in Nat /\ Len(x) \in Nat
  BY LenProperties
<1>2. i + k + Len(x) <= Len(t)
  BY <1>1 DEF Stands
<1>3. ASSUME NEW j \in 1 .. Len(x) PROVE t[i+k+j] = x[j]
  <2>1. k + j \in 1 .. Len(w) /\ i + (k + j) = i + k + j
    BY <1>1 DEF Stands
  <2>2. t[i+(k+j)] = w[k+j] /\ w[k+j] = x[j]
    BY <2>1 DEF Stands
  <2>3. QED
    BY <2>1, <2>2
<1>4. QED
  BY <1>2, <1>3 DEF Stands

\* Two texts stand in their concatenation, one behind the other.
LEMMA Joined ==
  ASSUME NEW C, NEW s \in Seq(C), NEW t \in Seq(C)
  PROVE  s \o t \in Seq(C) /\ Len(s \o t) = Len(s) + Len(t) /\ Stands(s \o t, 0, s) /\ Stands(s \o t, Len(s), t)
<1>0. PICK u : u = s \o t
  OBVIOUS
<1>1. Len(s) \in Nat /\ Len(t) \in Nat
  BY LenProperties
<1>2. /\ u \in Seq(C) /\ Len(u) = Len(s) + Len(t)
      /\ \A i \in 1 .. Len(s) + Len(t) : u[i] = IF i <= Len(s) THEN s[i] ELSE t[i-Len(s)]
  BY <1>0, ConcatProperties
<1>3. Stands(u, 0, s)
  BY <1>1, <1>2 DEF Stands
<1>4. ASSUME NEW k \in 1 .. Len(t) PROVE u[Len(s)+k] = t[k]
  <2>1. Len(s) + k \in 1 .. Len(s) + Len(t) /\ ~(Len(s) + k <= Len(s)) /\ (Len(s) + k) - Len(s) = k
    BY <1>1
  <2>2. QED
    BY <1>2, <2>1
<1>5. Stands(u, Len(s), t)
  BY <1>2, <1>4 DEF Stands
<1>6. QED
  BY <1>0, <1>2, <1>3, <1>5

\* The parts of a flattened text stand in it one behind the other.
Places(e, t, s) ==
  /\ e[0] = 0 /\ e[Len(s)] = Len(t)
  /\ \A i \in 1 .. Len(s) : e[i-1] \in Nat /\ e[i] = e[i-1] + Len(s[i]) /\ Stands(t, e[i-1], s[i])

\* This is so of every sequence of texts, whatever their number.
LEMMA FlattenIs ==
  ASSUME NEW C, NEW s \in Seq(Seq(C))
  PROVE  FlattenSeq(s) \in Seq(C) /\ \E e : Places(e, FlattenSeq(s), s)
<1> DEFINE Runs(f, k) == f = [i \in 1 .. k |-> IF i = 1 THEN s[1] ELSE f[i-1] \o s[i]]
           T == {k \in Nat : \E f : Runs(f, k)}
<1>0. PICK n \in Nat : n = Len(s)
  BY LenProperties
<1>1. \A i \in 1 .. n : s[i] \in Seq(C) /\ Len(s[i]) \in Nat
  BY <1>0, LenProperties
<1>2. CASE n = 0
  <2>1. s = <<>>
    BY <1>0, <1>2, EmptySeq
  <2>2. FlattenSeq(s) = <<>>
    BY <2>1 DEF FlattenSeq
  <2>3. PICK e : e = [i \in {0} |-> 0]
    OBVIOUS
  <2>4. Places(e, <<>>, s)
    BY <2>1, <2>3 DEF Places
  <2>5. <<>> \in Seq(C)
    OBVIOUS
  <2>6. QED
    BY <2>2, <2>4, <2>5
<1>3. CASE n # 0
  <2>1. 1 \in T
    <3>1. Runs([i \in 1 .. 1 |-> s[1]], 1)
      OBVIOUS
    <3>2. QED
      BY <3>1
  <2>2. ASSUME NEW k \in 1 .. n - 1, k \in T PROVE k + 1 \in T
    <3>1. PICK f : Runs(f, k)
      BY <2>2
    <3> DEFINE g == [i \in 1 .. k + 1 |-> IF i = k + 1 THEN f[k] \o s[k+1] ELSE f[i]]
    <3>2. ASSUME NEW i \in 1 .. k + 1
          PROVE  g[i] = IF i = 1 THEN s[1] ELSE g[i-1] \o s[i]
      <4>1. CASE i = 1
        BY <3>1, <4>1
      <4>2. CASE i = k + 1
        <5>1. i - 1 = k /\ k \in 1 .. k + 1 /\ k # k + 1 /\ i # 1
          BY <4>2
        <5>2. g[i] = f[k] \o s[i] /\ g[i-1] = f[k]
          BY <4>2, <5>1
        <5>3. QED
          BY <5>1, <5>2
      <4>3. CASE i # 1 /\ i # k + 1
        <5>1. i \in 1 .. k /\ i - 1 \in 1 .. k + 1 /\ i - 1 # k + 1
          BY <4>3
        <5>2. g[i] = f[i] /\ g[i-1] = f[i-1] /\ f[i] = f[i-1] \o s[i]
          BY <3>1, <4>3, <5>1
        <5>3. QED
          BY <4>3, <5>2
      <4>4. QED
        BY <4>1, <4>2, <4>3
    <3>3. PICK h : h = g
      OBVIOUS
    <3>4. h = [i \in 1 .. k + 1 |-> h[i]] /\ \A i \in 1 .. k + 1 : h[i] = IF i = 1 THEN s[1] ELSE h[i-1] \o s[i]
      BY <3>2, <3>3
    <3> HIDE DEF g
    <3>5. Runs(h, k + 1)
      BY <3>4
    <3>6. k + 1 \in Nat
      OBVIOUS
    <3> HIDE DEF Runs
    <3>7. \E x : Runs(x, k + 1)
      BY <3>5
    <3>8. QED
      BY <3>6, <3>7
  <2>3. n \in T
    <3> HIDE DEF T
    <3>1. 1 \in Nat /\ n \in Nat /\ n \in 1 .. n
      BY <1>3
    <3>2. \A k \in 1 .. n - 1 : k \in T => k + 1 \in T
      BY <2>2
    <3>3. \A k \in 1 .. n : k \in T
      BY <2>1, <3>1, <3>2, FromTo
    <3>4. QED
      BY <3>1, <3>3
  <2>4. PICK f : f = CHOOSE g : Runs(g, n)
    OBVIOUS
  <2>5. Runs(f, n)
    BY <2>3, <2>4
  <2>6. FlattenSeq(s) = f[n]
    BY <1>0, <1>3, <2>4 DEF FlattenSeq
  <2>7. f[1] = s[1] /\ \A i \in 2 .. n : f[i] = f[i-1] \o s[i]
    <3>1. 1 \in 1 .. n /\ \A i \in 2 .. n : i \in 1 .. n /\ i # 1
      BY <1>3
    <3>2. \A i \in 1 .. n : f[i] = IF i = 1 THEN s[1] ELSE f[i-1] \o s[i]
      BY <2>5
    <3>3. QED
      BY <3>1, <3>2
  <2> DEFINE Types(k) == \A i \in 1 .. k : f[i] \in Seq(C) /\ Len(f[i]) \in Nat
             Adds(k) == \A i \in 2 .. k : Len(f[i]) = Len(f[i-1]) + Len(s[i])
             Holds(k) == Stands(f[k], 0, s[1]) /\ \A i \in 2 .. k : Stands(f[k], Len(f[i-1]), s[i])
             U == {k \in Nat : Types(k) /\ Adds(k) /\ Holds(k)}
  <2> HIDE DEF Runs, T
  <2>8. 1 \in U
    <3>1. f[1] \in Seq(C) /\ Len(f[1]) \in Nat
      BY <1>1, <1>3, <2>7
    <3>2. Stands(f[1], 0, s[1])
      BY <1>1, <1>3, <2>7 DEF Stands
    <3>3. \A i \in 2 .. 1 : FALSE
      OBVIOUS
    <3>4. \A i \in 1 .. 1 : i = 1
      OBVIOUS
    <3>5. QED
      BY <2>7, <3>1, <3>2, <3>3, <3>4
  <2>9. ASSUME NEW k \in 1 .. n - 1, k \in U PROVE k + 1 \in U
    <3>1. k + 1 \in 2 .. n /\ (k + 1) - 1 = k /\ k + 1 \in 1 .. n /\ k \in Nat /\ k \in 1 .. k /\ k + 1 \in Nat
      OBVIOUS
    <3>2. Types(k) /\ Adds(k) /\ Holds(k)
      BY <2>9
    <3> HIDE DEF U
    <3>3. PICK a : a = f[k]
      OBVIOUS
    <3>4. PICK b : b = s[k+1]
      OBVIOUS
    <3>5. PICK u : u = f[k+1]
      OBVIOUS
    <3>6. a \in Seq(C) /\ b \in Seq(C) /\ u = a \o b /\ Len(b) \in Nat /\ Len(a) \in Nat
      <4>1. f[k] \in Seq(C) /\ Len(f[k]) \in Nat
        BY <3>1, <3>2
      <4>2. s[k+1] \in Seq(C) /\ Len(s[k+1]) \in Nat
        BY <1>1, <3>1
      <4>3. f[k+1] = f[k] \o s[k+1]
        BY <2>7, <3>1
      <4>4. QED
        BY <3>3, <3>4, <3>5, <4>1, <4>2, <4>3
    <3>7. u \in Seq(C) /\ Len(u) = Len(a) + Len(b) /\ Stands(u, 0, a) /\ Stands(u, Len(a), b)
      <4>1. a \in Seq(C) /\ b \in Seq(C) /\ u = a \o b
        BY <3>6
      <4>2. a \o b \in Seq(C) /\ Len(a \o b) = Len(a) + Len(b) /\ Stands(a \o b, 0, a) /\ Stands(a \o b, Len(a), b)
        BY <4>1, Joined
      <4>3. QED
        BY <4>1, <4>2
    <3>8. ASSUME NEW i \in 2 .. k PROVE Stands(u, Len(f[i-1]), s[i])
      <4>1. i \in 1 .. n /\ i - 1 \in 1 .. k
        OBVIOUS
      <4>2. s[i] \in Seq(C) /\ Len(f[i-1]) \in Nat
        BY <1>1, <3>2, <4>1
      <4>3. PICK m \in Nat : m = Len(f[i-1])
        BY <4>2
      <4>4. PICK x : x = s[i]
        OBVIOUS
      <4>5. Stands(a, m, x) /\ x \in Seq(C)
        BY <3>2, <3>3, <4>2, <4>3, <4>4
      <4>6. Stands(u, 0 + m, x)
        BY <3>6, <3>7, <4>5, StandsWithin
      <4>7. 0 + m = m
        OBVIOUS
      <4>8. QED
        BY <4>3, <4>4, <4>6, <4>7
    <3>9. Stands(u, 0, s[1])
      <4>1. PICK x : x = s[1]
        OBVIOUS
      <4>2. Stands(a, 0, x) /\ x \in Seq(C)
        BY <1>1, <1>3, <3>2, <3>3, <4>1
      <4>3. Stands(u, 0 + 0, x)
        BY <3>6, <3>7, <4>2, StandsWithin
      <4>4. QED
        BY <4>1, <4>3
    <3>10. \A i \in 1 .. k + 1 : i \in 1 .. k \/ i = k + 1
      OBVIOUS
    <3>11. \A i \in 2 .. k + 1 : i \in 2 .. k \/ i = k + 1
      OBVIOUS
    <3>12. Types(k + 1)
      <4>1. f[k+1] \in Seq(C) /\ Len(f[k+1]) \in Nat
        BY <3>5, <3>6, <3>7
      <4>2. QED
        BY <3>2, <3>10, <4>1
    <3>13. Adds(k + 1)
      <4>1. Len(f[k+1]) = Len(f[(k+1)-1]) + Len(s[k+1])
        BY <3>1, <3>3, <3>4, <3>5, <3>7
      <4>2. QED
        BY <3>2, <3>11, <4>1
    <3>14. Holds(k + 1)
      <4>1. Stands(u, Len(f[(k+1)-1]), s[k+1])
        BY <3>1, <3>3, <3>4, <3>7
      <4>2. QED
        BY <3>5, <3>8, <3>9, <3>11, <4>1
    <3> HIDE DEF Types, Adds, Holds
    <3>15. QED
      BY <3>1, <3>12, <3>13, <3>14 DEF U
  <2>10. n \in U
    <3> HIDE DEF U
    <3>1. 1 \in Nat /\ n \in 1 .. n
      BY <1>3
    <3>2. \A k \in 1 .. n - 1 : k \in U => k + 1 \in U
      BY <2>9
    <3>3. \A k \in 1 .. n : k \in U
      BY <2>8, <3>1, <3>2, FromTo
    <3>4. QED
      BY <3>1, <3>3
  <2>11. PICK e : e = [i \in 0 .. n |-> IF i = 0 THEN 0 ELSE Len(f[i])]
    OBVIOUS
  <2>12. e[0] = 0 /\ e[n] = Len(f[n])
    BY <1>3, <2>11
  <2>13. \A i \in 1 .. n : f[i] \in Seq(C) /\ Len(f[i]) \in Nat
    BY <2>10
  <2>14. \A i \in 2 .. n : Len(f[i]) = Len(f[i-1]) + Len(s[i]) /\ Stands(f[n], Len(f[i-1]), s[i])
    BY <2>10
  <2>15. Stands(f[n], 0, s[1]) /\ f[n] \in Seq(C)
    BY <1>3, <2>10, <2>13
  <2>16. ASSUME NEW i \in 1 .. n
         PROVE  e[i-1] \in Nat /\ e[i] = e[i-1] + Len(s[i]) /\ Stands(f[n], e[i-1], s[i])
    <3>1. CASE i = 1
      <4>1. 1 \in 1 .. n /\ Len(s[1]) \in Nat /\ f[1] = s[1] /\ 1 - 1 = 0
        BY <1>1, <1>3, <2>7
      <4>2. e[0] = 0 /\ e[1] = Len(s[1])
        BY <2>11, <4>1
      <4>3. QED
        BY <2>15, <3>1, <4>1, <4>2
    <3>2. CASE i # 1
      <4>1. i \in 2 .. n /\ i - 1 \in 1 .. n
        BY <3>2
      <4>2. e[i-1] = Len(f[i-1]) /\ e[i] = Len(f[i])
        BY <2>11, <4>1
      <4>3. QED
        BY <2>13, <2>14, <4>1, <4>2
    <3>3. QED
      BY <3>1, <3>2
  <2>17. Places(e, f[n], s)
    BY <1>0, <2>12, <2>16 DEF Places
  <2>18. QED
    BY <2>6, <2>15, <2>17
<1>4. QED
  BY <1>2, <1>3

\* What a reader has at a place: the records read, the cells of the one at hand, the
\* cell at hand, and whether that is in quotes.
Reader(records, record, cell, mode) == [records |-> records, record |-> record, cell |-> cell, mode |-> mode]
Ready(records, record) == Reader(records, record, <<>>, "start")
Reads(f, t) == f[0] = Ready(<<>>, <<>>) /\ \A i \in 1 .. Len(t) : f[i] = CsvStep(f[i-1], t[i])

\* The reader is defined by what it has one place before.
LEMMA ReaderRuns ==
  ASSUME NEW t, Len(t) \in Nat
  PROVE  \E f : Reads(f, t) /\ ReadCsv(t) = f[Len(t)].records
<1> DEFINE n == Len(t)
           Runs(f, k) == f = [i \in 0 .. k |-> IF i = 0 THEN Ready(<<>>, <<>>) ELSE CsvStep(f[i-1], t[i])]
           T == {k \in Nat : \E f : Runs(f, k)}
<1>1. 0 \in T
  <2>1. Runs([i \in 0 .. 0 |-> Ready(<<>>, <<>>)], 0)
    OBVIOUS
  <2>2. QED
    BY <2>1
<1>2. ASSUME NEW k \in 0 .. n - 1, k \in T PROVE k + 1 \in T
  <2>1. PICK f : Runs(f, k)
    BY <1>2
  <2> DEFINE g == [i \in 0 .. k + 1 |-> IF i = k + 1 THEN CsvStep(f[k], t[k+1]) ELSE f[i]]
  <2>2. ASSUME NEW i \in 0 .. k + 1
        PROVE  g[i] = IF i = 0 THEN Ready(<<>>, <<>>) ELSE CsvStep(g[i-1], t[i])
    <3>1. CASE i = 0
      BY <2>1, <3>1
    <3>2. CASE i = k + 1
      <4>1. g[i] = CsvStep(f[k], t[i]) /\ g[i-1] = f[k] /\ i # 0
        BY <3>2
      <4>2. QED
        BY <4>1
    <3>3. CASE i # 0 /\ i # k + 1
      <4>1. i \in 0 .. k /\ i - 1 \in 0 .. k + 1 /\ i - 1 # k + 1
        BY <3>3
      <4>2. g[i] = f[i] /\ g[i-1] = f[i-1] /\ f[i] = CsvStep(f[i-1], t[i])
        BY <2>1, <3>3, <4>1
      <4>3. QED
        BY <3>3, <4>2
    <3>4. QED
      BY <3>1, <3>2, <3>3
  <2>3. PICK h : h = g
    OBVIOUS
  <2>4. h = [i \in 0 .. k + 1 |-> h[i]]
        /\ \A i \in 0 .. k + 1 : h[i] = IF i = 0 THEN Ready(<<>>, <<>>) ELSE CsvStep(h[i-1], t[i])
    BY <2>2, <2>3
  <2> HIDE DEF g
  <2>5. Runs(h, k + 1)
    BY <2>4
  <2>6. k + 1 \in Nat
    OBVIOUS
  <2> HIDE DEF Runs
  <2>7. \E e : Runs(e, k + 1)
    BY <2>5
  <2>8. QED
    BY <2>6, <2>7
<1>3. n \in T
  <2> HIDE DEF T
  <2>1. n \in Nat /\ 0 \in Nat /\ n \in 0 .. n
    OBVIOUS
  <2>2. \A k \in 0 .. n - 1 : k \in T => k + 1 \in T
    BY <1>2
  <2>3. \A k \in 0 .. n : k \in T
    BY <1>1, <2>1, <2>2, FromTo
  <2>4. QED
    BY <2>1, <2>3
<1>4. PICK e : e = CHOOSE g : Runs(g, n)
  OBVIOUS
<1>5. Runs(e, n)
  BY <1>3, <1>4
<1>6. ReadCsv(t) = e[n].records
  BY <1>4 DEF ReadCsv, Ready, Reader
<1>7. Reads(e, t)
  BY <1>5 DEF Reads
<1>8. QED
  BY <1>6, <1>7

\* The signs that CSV gives a meaning differ.
LEMMA SignsDiffer ==
  Quote # Comma /\ Quote # NewLine /\ Comma # NewLine /\ Quote \in Special /\ Comma \in Special /\ NewLine \in Special
<1>1. Quote # Comma /\ Quote # NewLine /\ Comma # NewLine
  BY Zenon DEF Quote, Comma, NewLine
<1>2. QED
  BY <1>1 DEF Special

\* What a quote does: it begins a cell in quotes, ...
LEMMA QuoteBegins ==
  ASSUME NEW R, NEW r
  PROVE  CsvStep(Ready(R, r), Quote) = Reader(R, r, <<>>, "quoted")
<1>1. PICK a : a = Ready(R, r)
  OBVIOUS
<1>2. a.mode = "start"
  BY <1>1 DEF Ready, Reader
<1>3. CsvStep(a, Quote) = [a EXCEPT !.mode = "quoted"]
  BY <1>2, SignsDiffer DEF CsvStep
<1>4. QED
  BY <1>1, <1>3 DEF Ready, Reader

\* ... ends it, ...
LEMMA QuoteEnds ==
  ASSUME NEW R, NEW r, NEW v
  PROVE  CsvStep(Reader(R, r, v, "quoted"), Quote) = Reader(R, r, v, "closed")
<1>1. PICK a : a = Reader(R, r, v, "quoted")
  OBVIOUS
<1>2. a.mode = "quoted"
  BY <1>1 DEF Reader
<1>3. CsvStep(a, Quote) = [a EXCEPT !.mode = "closed"]
  BY <1>2, SignsDiffer DEF CsvStep
<1>4. QED
  BY <1>1, <1>3 DEF Reader

\* ... and, right after, is a part of it that goes on.
LEMMA QuoteAgain ==
  ASSUME NEW R, NEW r, NEW v
  PROVE  CsvStep(Reader(R, r, v, "closed"), Quote) = Reader(R, r, Append(v, Quote), "quoted")
<1>1. PICK a : a = Reader(R, r, v, "closed")
  OBVIOUS
<1>2. a.mode = "closed"
  BY <1>1 DEF Reader
<1>3. CsvStep(a, Quote) = [a EXCEPT !.cell = Append(@, Quote), !.mode = "quoted"]
  BY <1>2, SignsDiffer DEF CsvStep
<1>4. QED
  BY <1>1, <1>3 DEF Reader

\* Any other sign in quotes is a part of the cell, ...
LEMMA SignQuoted ==
  ASSUME NEW R, NEW r, NEW v, NEW c, c # Quote
  PROVE  CsvStep(Reader(R, r, v, "quoted"), c) = Reader(R, r, Append(v, c), "quoted")
<1>1. PICK a : a = Reader(R, r, v, "quoted")
  OBVIOUS
<1>2. a.mode = "quoted"
  BY <1>1 DEF Reader
<1>3. CsvStep(a, c) = [a EXCEPT !.cell = Append(@, c), !.mode = "quoted"]
  BY <1>2 DEF CsvStep
<1>4. QED
  BY <1>1, <1>3 DEF Reader

\* ... and so is a plain one without quotes.
LEMMA SignPlain ==
  ASSUME NEW R, NEW r, NEW v, NEW m \in {"start", "plain"}, NEW c, c \notin Special
  PROVE  CsvStep(Reader(R, r, v, m), c) = Reader(R, r, Append(v, c), "plain")
<1>1. PICK a : a = Reader(R, r, v, m)
  OBVIOUS
<1>2. a.mode \in {"start", "plain"} /\ c # Quote /\ c # Comma /\ c # NewLine
  BY <1>1, SignsDiffer DEF Reader
<1>3. CsvStep(a, c) = [a EXCEPT !.cell = Append(@, c), !.mode = "plain"]
  BY <1>2 DEF CsvStep
<1>4. QED
  BY <1>1, <1>3 DEF Reader

\* A cell has been read up to its end; there a comma or the end of the line follows.
Done(a, R, r, v) == \E m \in {"start", "plain", "closed"} : a = Reader(R, r, v, m)

\* The comma behind a cell adds it to the record, ...
LEMMA CommaEnds ==
  ASSUME NEW a, NEW R, NEW r, NEW v, Done(a, R, r, v)
  PROVE  CsvStep(a, Comma) = Ready(R, Append(r, v))
<1>1. PICK m \in {"start", "plain", "closed"} : a = Reader(R, r, v, m)
  BY DEF Done
<1>2. CsvStep(a, Comma) = [a EXCEPT !.record = Append(a.record, a.cell), !.cell = <<>>, !.mode = "start"]
  BY <1>1, SignsDiffer DEF CsvStep, Reader
<1>3. QED
  BY <1>1, <1>2 DEF Ready, Reader

\* ... and the end of the line ends the record, too.
LEMMA NewLineEnds ==
  ASSUME NEW a, NEW R, NEW r, NEW v, Done(a, R, r, v)
  PROVE  CsvStep(a, NewLine) = Ready(Append(R, Append(r, v)), <<>>)
<1>1. PICK m \in {"start", "plain", "closed"} : a = Reader(R, r, v, m)
  BY DEF Done
<1>2. CsvStep(a, NewLine) =
        [a EXCEPT !.records = Append(@, Append(a.record, a.cell)), !.record = <<>>, !.cell = <<>>, !.mode = "start"]
  BY <1>1, SignsDiffer DEF CsvStep, Reader
<1>3. QED
  BY <1>1, <1>2 DEF Ready, Reader

\* The characters of the texts and those that CSV adds.
Signs(C) == C \union Special

\* A value without special signs is read as it is.
LEMMA PlainCell ==
  ASSUME NEW C, NEW t \in Seq(C), NEW f, Reads(f, t), NEW v \in Seq(C), NEW i \in Nat, Stands(t, i, v),
         NEW R, NEW r, f[i] = Ready(R, r), \A k \in 1 .. Len(v) : v[k] \notin Special
  PROVE  Done(f[i+Len(v)], R, r, v)
<1> DEFINE T == {k \in Nat : \E m \in {"start", "plain"} : f[i+k] = Reader(R, r, SubSeq(v, 1, k), m)}
<1>0. PICK n \in Nat : n = Len(v)
  BY LenProperties
<1>1. 0 \in T
  <2>1. SubSeq(v, 1, 0) = <<>> /\ i + 0 = i
    BY SubSeqEmpty
  <2>2. f[i+0] = Reader(R, r, SubSeq(v, 1, 0), "start")
    BY <2>1 DEF Ready
  <2>3. QED
    BY <2>2
<1>2. ASSUME NEW k \in 0 .. n - 1, k \in T PROVE k + 1 \in T
  <2>1. PICK m \in {"start", "plain"} : f[i+k] = Reader(R, r, SubSeq(v, 1, k), m)
    BY <1>2
  <2>2. k + 1 \in 1 .. n /\ i + (k + 1) \in 1 .. Len(t) /\ (i + (k + 1)) - 1 = i + k /\ k \in 0 .. Len(v) - 1
    <3>1. Len(t) \in Nat /\ i + n <= Len(t)
      BY <1>0, LenProperties DEF Stands
    <3>2. QED
      BY <1>0, <3>1
  <2>3. f[i+(k+1)] = CsvStep(f[i+k], t[i+(k+1)])
    BY <2>2 DEF Reads
  <2>4. PICK c : c = v[k+1]
    OBVIOUS
  <2>5. t[i+(k+1)] = c /\ c \notin Special
    BY <1>0, <2>2, <2>4 DEF Stands
  <2>6. PICK p : p = SubSeq(v, 1, k)
    OBVIOUS
  <2>7. CsvStep(Reader(R, r, p, m), c) = Reader(R, r, Append(p, c), "plain")
    BY <2>5, SignPlain
  <2>8. Append(p, c) = SubSeq(v, 1, k + 1)
    BY <2>2, <2>4, <2>6, OneMore
  <2>9. f[i+(k+1)] = Reader(R, r, SubSeq(v, 1, k + 1), "plain")
    BY <2>1, <2>3, <2>5, <2>6, <2>7, <2>8
  <2>10. k + 1 \in Nat
    OBVIOUS
  <2>11. QED
    BY <2>9, <2>10
<1>3. n \in T
  <2> HIDE DEF T
  <2>1. \A k \in 0 .. n - 1 : k \in T => k + 1 \in T
    BY <1>2
  <2>2. 0 \in Nat /\ n \in 0 .. n
    OBVIOUS
  <2>3. \A k \in 0 .. n : k \in T
    BY <1>1, <2>1, <2>2, FromTo
  <2>4. QED
    BY <2>2, <2>3
<1>4. PICK m \in {"start", "plain"} : f[i+n] = Reader(R, r, SubSeq(v, 1, n), m)
  BY <1>3
<1>5. SubSeq(v, 1, n) = v
  BY <1>0, SubSeqFull
<1>6. QED
  BY <1>0, <1>4, <1>5 DEF Done

\* What the reader makes of one sign.
LEMMA StepAt ==
  ASSUME NEW C, NEW t \in Seq(C), NEW f, Reads(f, t), NEW j \in Nat, NEW c, Stands(t, j, <<c>>)
  PROVE  f[j+1] = CsvStep(f[j], c)
<1>1. Len(t) \in Nat
  BY LenProperties
<1>2. j + 1 \in 1 .. Len(t) /\ t[j+1] = c /\ (j + 1) - 1 = j
  BY <1>1 DEF Stands
<1>3. QED
  BY <1>2 DEF Reads

\* What it makes of two.
LEMMA StepsAt ==
  ASSUME NEW C, NEW t \in Seq(C), NEW f, Reads(f, t), NEW j \in Nat, NEW c, NEW d, Stands(t, j, <<c, d>>)
  PROVE  f[j+2] = CsvStep(CsvStep(f[j], c), d)
<1>1. Len(t) \in Nat
  BY LenProperties
<1>2. j + 1 \in 1 .. Len(t) /\ j + 2 \in 1 .. Len(t) /\ t[j+1] = c /\ t[j+2] = d /\ (j + 1) - 1 = j /\ (j + 2) - 1 = j + 1
  BY <1>1 DEF Stands
<1>3. QED
  BY <1>2 DEF Reads

\* A function on the first numbers is a sequence.
LEMMA FunctionIsSeq ==
  ASSUME NEW E, NEW n \in Nat, NEW d \in [1 .. n -> E]
  PROVE  d \in Seq(E)
BY SeqDef, Zenon

\* What is written of each character of a value in quotes.
Doubled(v) == [k \in DOMAIN v |-> IF v[k] = Quote THEN <<Quote, Quote>> ELSE <<v[k]>>]

\* They are texts of one or two signs.
LEMMA DoubledIs ==
  ASSUME NEW C, NEW v \in Seq(C)
  PROVE  /\ Doubled(v) \in Seq(Seq(Signs(C))) /\ Len(Doubled(v)) = Len(v)
         /\ \A k \in 1 .. Len(v) : Doubled(v)[k] = IF v[k] = Quote THEN <<Quote, Quote>> ELSE <<v[k]>>
<1>1. PICK n \in Nat : n = Len(v) /\ DOMAIN v = 1 .. n
  BY LenProperties
<1>2. PICK d : d = Doubled(v)
  OBVIOUS
<1>3. d = [k \in 1 .. n |-> IF v[k] = Quote THEN <<Quote, Quote>> ELSE <<v[k]>>]
  BY <1>1, <1>2 DEF Doubled
<1>4. PICK D : D = Signs(C)
  OBVIOUS
<1>5. Quote \in D /\ \A k \in 1 .. n : v[k] \in D
  BY <1>1, <1>4, SignsDiffer, ElementOfSeq DEF Signs
<1>6. \A k \in 1 .. n : d[k] \in Seq(D)
  <2>1. ASSUME NEW k \in 1 .. n PROVE d[k] \in Seq(D)
    <3>1. CASE v[k] = Quote
      BY <1>3, <1>5, <3>1
    <3>2. CASE v[k] # Quote
      BY <1>3, <1>5, <3>2
    <3>3. QED
      BY <3>1, <3>2
  <2>2. QED
    BY <2>1
<1>7. d \in [1 .. n -> Seq(D)]
  BY <1>3, <1>6
<1>8. d \in Seq(Seq(D))
  <2>1. PICK E : E = Seq(D)
    OBVIOUS
  <2>2. d \in [1 .. n -> E]
    BY <1>7, <2>1
  <2>3. d \in Seq(E)
    BY <2>2, SeqDef, Zenon
  <2>4. QED
    BY <2>1, <2>3
<1>9. Len(d) = n
  BY <1>3, <1>8, LenProperties
<1>10. QED
  BY <1>1, <1>2, <1>3, <1>4, <1>8, <1>9

\* How a value in quotes is put together.
LEMMA QuotedIs ==
  ASSUME NEW C, NEW v \in Seq(C), ~(ToSet(v) \intersect Special = {})
  PROVE  \E body, e : /\ body \in Seq(Signs(C)) /\ Places(e, body, Doubled(v))
                      /\ CsvQuote(v) \in Seq(Signs(C)) /\ Len(CsvQuote(v)) = Len(body) + 2
                      /\ Stands(CsvQuote(v), 0, <<Quote>>) /\ Stands(CsvQuote(v), 1, body)
                      /\ Stands(CsvQuote(v), Len(body) + 1, <<Quote>>)
<1>1. PICK D : D = Signs(C)
  OBVIOUS
<1>2. PICK body : body = FlattenSeq(Doubled(v))
  OBVIOUS
<1>3. body \in Seq(D) /\ \E e : Places(e, body, Doubled(v))
  <2>1. Doubled(v) \in Seq(Seq(D))
    BY <1>1, DoubledIs
  <2>2. QED
    BY <1>2, <2>1, FlattenIs
<1>4. PICK q : q = <<Quote>>
  OBVIOUS
<1>5. q \in Seq(D) /\ Len(q) = 1 /\ Len(body) \in Nat
  <2>1. Quote \in D
    BY <1>1, SignsDiffer DEF Signs
  <2>2. QED
    BY <1>3, <1>4, <2>1, LenProperties
<1>6. PICK u : u = q \o body
  OBVIOUS
<1>7. u \in Seq(D) /\ Len(u) = Len(body) + 1 /\ Stands(u, 0, q) /\ Stands(u, 1, body)
  <2>1. q \o body \in Seq(D) /\ Len(q \o body) = Len(q) + Len(body) /\ Stands(q \o body, 0, q) /\ Stands(q \o body, Len(q), body)
    BY <1>3, <1>5, Joined
  <2>2. QED
    BY <1>5, <1>6, <2>1
<1>8. PICK w : w = u \o q
  OBVIOUS
<1>9. w \in Seq(D) /\ Len(w) = Len(body) + 2 /\ Stands(w, 0, u) /\ Stands(w, Len(body) + 1, q)
  <2>1. u \o q \in Seq(D) /\ Len(u \o q) = Len(u) + Len(q) /\ Stands(u \o q, 0, u) /\ Stands(u \o q, Len(u), q)
    BY <1>5, <1>7, Joined
  <2>2. QED
    BY <1>5, <1>7, <1>8, <2>1
<1>10. Stands(w, 0, q) /\ Stands(w, 1, body)
  <2>1. 0 + 0 = 0 /\ 0 + 1 = 1 /\ 0 \in Nat /\ 1 \in Nat
    OBVIOUS
  <2>2. Stands(w, 0 + 0, q)
    BY <1>5, <1>7, <1>9, <2>1, StandsWithin
  <2>3. Stands(w, 0 + 1, body)
    BY <1>3, <1>7, <1>9, <2>1, StandsWithin
  <2>4. QED
    BY <2>1, <2>2, <2>3
<1>11. CsvQuote(v) = w
  BY <1>2, <1>4, <1>6, <1>8 DEF CsvQuote, Doubled
<1>12. QED
  BY <1>1, <1>3, <1>4, <1>9, <1>10, <1>11

\* A value in quotes is read without them, and with each of its own quotes once.
LEMMA QuotedCell ==
  ASSUME NEW C, NEW t \in Seq(Signs(C)), NEW f, Reads(f, t), NEW v \in Seq(C), NEW i \in Nat, Stands(t, i, CsvQuote(v)),
         NEW R, NEW r, f[i] = Ready(R, r), ~(ToSet(v) \intersect Special = {})
  PROVE  Done(f[i+Len(CsvQuote(v))], R, r, v)
<1>1. PICK w : w = CsvQuote(v)
  OBVIOUS
<1>2. PICK d : d = Doubled(v)
  OBVIOUS
<1>3. PICK D : D = Signs(C)
  OBVIOUS
<1>4. PICK q : q = <<Quote>>
  OBVIOUS
<1>5. PICK body : \E e : /\ body \in Seq(D) /\ Places(e, body, d)
                         /\ w \in Seq(D) /\ Len(w) = Len(body) + 2
                         /\ Stands(w, 0, q) /\ Stands(w, 1, body) /\ Stands(w, Len(body) + 1, q)
  BY <1>1, <1>2, <1>3, <1>4, QuotedIs
<1>6. PICK e : Places(e, body, d)
  BY <1>5
<1>7. /\ body \in Seq(D) /\ w \in Seq(D) /\ Len(w) = Len(body) + 2
      /\ Stands(w, 0, q) /\ Stands(w, 1, body) /\ Stands(w, Len(body) + 1, q)
  BY <1>5
<1>8. PICK n \in Nat : n = Len(v)
  BY LenProperties
<1>9. Len(d) = n /\ \A k \in 1 .. n : d[k] \in Seq(D) /\ d[k] = IF v[k] = Quote THEN <<Quote, Quote>> ELSE <<v[k]>>
  <2>1. d \in Seq(Seq(D)) /\ Len(d) = n /\ \A k \in 1 .. n : d[k] = IF v[k] = Quote THEN <<Quote, Quote>> ELSE <<v[k]>>
    BY <1>2, <1>3, <1>8, DoubledIs
  <2>2. QED
    BY <2>1, ElementOfSeq
<1>10. q \in Seq(D) /\ Len(body) \in Nat /\ t \in Seq(D)
  <2>1. Quote \in D
    BY <1>3, SignsDiffer DEF Signs
  <2>2. QED
    BY <1>3, <1>4, <1>7, <2>1, LenProperties
<1>11. Stands(t, i, q) /\ Stands(t, i + 1, body) /\ Stands(t, i + (Len(body) + 1), q)
  <2>1. Stands(t, i, w) /\ i + 0 = i /\ 0 \in Nat /\ 1 \in Nat /\ Len(body) + 1 \in Nat
    BY <1>1, <1>10
  <2>2. Stands(t, i + 0, q)
    BY <1>7, <1>10, <2>1, StandsWithin
  <2>3. Stands(t, i + 1, body)
    BY <1>7, <1>10, <2>1, StandsWithin
  <2>4. PICK m \in Nat : m = Len(body) + 1
    BY <2>1
  <2>5. Stands(w, m, q)
    BY <1>7, <2>4
  <2>6. Stands(t, i + m, q)
    BY <1>7, <1>10, <2>1, <2>5, StandsWithin
  <2>7. QED
    BY <2>1, <2>2, <2>3, <2>4, <2>6
<1> DEFINE T == {k \in Nat : f[i+1+e[k]] = Reader(R, r, SubSeq(v, 1, k), "quoted")}
<1>12. 0 \in T
  <2>1. SubSeq(v, 1, 0) = <<>> /\ i + 1 + 0 = i + 1 /\ e[0] = 0
    BY <1>6, SubSeqEmpty DEF Places
  <2>2. f[i+1] = CsvStep(f[i], Quote)
    BY <1>4, <1>10, <1>11, StepAt
  <2>3. f[i+1] = Reader(R, r, <<>>, "quoted")
    BY <2>2, QuoteBegins
  <2>4. QED
    BY <2>1, <2>3
<1>13. ASSUME NEW k \in 0 .. n - 1, k \in T PROVE k + 1 \in T
  <2>1. k + 1 \in 1 .. n /\ (k + 1) - 1 = k /\ k + 1 \in Nat /\ k \in 0 .. Len(v) - 1
    BY <1>8
  <2>2. PICK x : x = d[k+1]
    OBVIOUS
  <2>3. e[k] \in Nat /\ e[k+1] = e[k] + Len(x) /\ Stands(body, e[k], x)
    <3>1. k + 1 \in 1 .. Len(d)
      BY <1>9, <2>1
    <3>2. e[(k+1)-1] \in Nat /\ e[k+1] = e[(k+1)-1] + Len(d[k+1]) /\ Stands(body, e[(k+1)-1], d[k+1])
      BY <1>6, <3>1 DEF Places
    <3>3. QED
      BY <2>1, <2>2, <3>2
  <2>4. PICK p \in Nat : p = e[k]
    BY <2>3
  <2>5. PICK c : c = v[k+1]
    OBVIOUS
  <2>6. x \in Seq(D) /\ x = IF c = Quote THEN <<Quote, Quote>> ELSE <<c>>
    BY <1>9, <2>1, <2>2, <2>5
  <2>7. PICK j \in Nat : j = i + 1 + p
    OBVIOUS
  <2>8. Stands(t, j, x)
    <3>1. Stands(body, p, x) /\ i + 1 \in Nat
      BY <2>3, <2>4
    <3>2. Stands(t, (i + 1) + p, x)
      BY <1>7, <1>10, <1>11, <2>6, <3>1, StandsWithin
    <3>3. QED
      BY <2>7, <3>2
  <2>9. PICK s : s = SubSeq(v, 1, k)
    OBVIOUS
  <2>10. f[j] = Reader(R, r, s, "quoted")
    BY <1>13, <2>4, <2>7, <2>9
  <2>11. Append(s, c) = SubSeq(v, 1, k + 1)
    BY <2>1, <2>5, <2>9, OneMore
  <2>12. f[i+1+e[k+1]] = Reader(R, r, Append(s, c), "quoted")
    <3>1. CASE c = Quote
      <4>1. x = <<Quote, Quote>> /\ Len(x) = 2
        BY <2>6, <3>1
      <4>2. f[j+2] = CsvStep(CsvStep(f[j], Quote), Quote)
        BY <1>10, <2>8, <4>1, StepsAt
      <4>3. f[j+2] = Reader(R, r, Append(s, Quote), "quoted")
        BY <2>10, <4>2, QuoteEnds, QuoteAgain
      <4>4. i + 1 + e[k+1] = j + 2
        BY <2>3, <2>4, <2>7, <4>1
      <4>5. QED
        BY <3>1, <4>3, <4>4
    <3>2. CASE c # Quote
      <4>1. x = <<c>> /\ Len(x) = 1
        BY <2>6, <3>2
      <4>2. f[j+1] = CsvStep(f[j], c)
        BY <1>10, <2>8, <4>1, StepAt
      <4>3. f[j+1] = Reader(R, r, Append(s, c), "quoted")
        BY <2>10, <3>2, <4>2, SignQuoted
      <4>4. i + 1 + e[k+1] = j + 1
        BY <2>3, <2>4, <2>7, <4>1
      <4>5. QED
        BY <4>3, <4>4
    <3>3. QED
      BY <3>1, <3>2
  <2>13. QED
    BY <2>1, <2>11, <2>12
<1>14. n \in T
  <2> HIDE DEF T
  <2>1. \A k \in 0 .. n - 1 : k \in T => k + 1 \in T
    BY <1>13
  <2>2. 0 \in Nat /\ n \in 0 .. n
    OBVIOUS
  <2>3. \A k \in 0 .. n : k \in T
    BY <1>12, <2>1, <2>2, FromTo
  <2>4. QED
    BY <2>2, <2>3
<1>15. PICK j \in Nat : j = i + (Len(body) + 1)
  BY <1>10
<1>16. f[j] = Reader(R, r, v, "quoted")
  <2>1. e[n] = Len(body) /\ i + 1 + Len(body) = j
    BY <1>6, <1>9, <1>10, <1>15 DEF Places
  <2>2. SubSeq(v, 1, n) = v
    BY <1>8, SubSeqFull
  <2>3. QED
    BY <1>14, <2>1, <2>2
<1>17. f[j+1] = CsvStep(f[j], Quote)
  BY <1>4, <1>10, <1>11, <1>15, StepAt
<1>18. f[j+1] = Reader(R, r, v, "closed")
  BY <1>16, <1>17, QuoteEnds
<1>19. i + Len(w) = j + 1
  BY <1>7, <1>10, <1>15
<1>20. QED
  BY <1>1, <1>18, <1>19 DEF Done

\* Any value is read as it is.
LEMMA CellIsRead ==
  ASSUME NEW C, NEW t \in Seq(Signs(C)), NEW f, Reads(f, t), NEW v \in Seq(C), NEW i \in Nat, Stands(t, i, CsvQuote(v)),
         NEW R, NEW r, f[i] = Ready(R, r)
  PROVE  Done(f[i+Len(CsvQuote(v))], R, r, v)
<1>1. CASE ToSet(v) \intersect Special = {}
  <2>1. CsvQuote(v) = v
    BY <1>1 DEF CsvQuote
  <2>2. \A k \in 1 .. Len(v) : v[k] \notin Special
    <3>1. DOMAIN v = 1 .. Len(v)
      BY LenProperties
    <3>2. QED
      BY <1>1, <3>1 DEF ToSet
  <2>3. PICK D : D = Signs(C)
    OBVIOUS
  <2>4. t \in Seq(D) /\ v \in Seq(D)
    <3>1. C \subseteq D
      BY <2>3 DEF Signs
    <3>2. QED
      BY <2>3, <3>1, SeqWithin
  <2>5. Stands(t, i, v)
    BY <2>1
  <2>6. Done(f[i+Len(v)], R, r, v)
    BY <2>2, <2>4, <2>5, PlainCell
  <2>7. QED
    BY <2>1, <2>6
<1>2. CASE ~(ToSet(v) \intersect Special = {})
  BY <1>2, QuotedCell
<1>3. QED
  BY <1>1, <1>2

\* What is written of a value is a text.
LEMMA QuoteType ==
  ASSUME NEW C, NEW v \in Seq(C)
  PROVE  CsvQuote(v) \in Seq(Signs(C)) /\ Len(CsvQuote(v)) \in Nat
<1>1. CsvQuote(v) \in Seq(Signs(C))
  <2>1. CASE ToSet(v) \intersect Special = {}
    <3>1. CsvQuote(v) = v
      BY <2>1 DEF CsvQuote
    <3>2. C \subseteq Signs(C)
      BY DEF Signs
    <3>3. QED
      BY <3>1, <3>2, SeqWithin
  <2>2. CASE ~(ToSet(v) \intersect Special = {})
    BY <2>2, QuotedIs
  <2>3. QED
    BY <2>1, <2>2
<1>2. QED
  BY <1>1, LenProperties

\* What is written of each cell: a comma before all but the first.
Parts(cells) == [i \in DOMAIN cells |-> (IF i = 1 THEN <<>> ELSE <<Comma>>) \o CsvQuote(cells[i])]

\* They are texts, in which a comma and the written cell stand.
LEMMA PartsAre ==
  ASSUME NEW C, NEW cells \in Seq(Seq(C))
  PROVE  /\ Parts(cells) \in Seq(Seq(Signs(C))) /\ Len(Parts(cells)) = Len(cells)
         /\ \A k \in 1 .. Len(cells) :
              /\ k = 1 => Parts(cells)[k] = CsvQuote(cells[k])
              /\ k # 1 => /\ Stands(Parts(cells)[k], 0, <<Comma>>) /\ Stands(Parts(cells)[k], 1, CsvQuote(cells[k]))
                          /\ Len(Parts(cells)[k]) = 1 + Len(CsvQuote(cells[k]))
<1>1. PICK n \in Nat : n = Len(cells) /\ DOMAIN cells = 1 .. n
  BY LenProperties
<1>2. PICK d : d = Parts(cells)
  OBVIOUS
<1>3. d = [k \in 1 .. n |-> (IF k = 1 THEN <<>> ELSE <<Comma>>) \o CsvQuote(cells[k])]
  BY <1>1, <1>2 DEF Parts
<1>4. PICK D : D = Signs(C)
  OBVIOUS
<1>5. ASSUME NEW k \in 1 .. n
      PROVE  /\ d[k] \in Seq(D)
             /\ k = 1 => d[k] = CsvQuote(cells[k])
             /\ k # 1 => Stands(d[k], 0, <<Comma>>) /\ Stands(d[k], 1, CsvQuote(cells[k])) /\ Len(d[k]) = 1 + Len(CsvQuote(cells[k]))
  <2>1. PICK w : w = CsvQuote(cells[k])
    OBVIOUS
  <2>2. w \in Seq(D) /\ Len(w) \in Nat
    <3>1. cells[k] \in Seq(C)
      BY <1>1
    <3>2. QED
      BY <1>4, <2>1, <3>1, QuoteType
  <2>3. CASE k = 1
    <3>1. d[k] = <<>> \o w
      BY <1>3, <2>1, <2>3
    <3>2. <<>> \o w = w
      BY <2>2, ConcatEmptySeq
    <3>3. QED
      BY <2>1, <2>2, <2>3, <3>1, <3>2
  <2>4. CASE k # 1
    <3>1. PICK c : c = <<Comma>>
      OBVIOUS
    <3>2. c \in Seq(D) /\ Len(c) = 1
      <4>1. Comma \in D
        BY <1>4, SignsDiffer DEF Signs
      <4>2. QED
        BY <3>1, <4>1
    <3>3. d[k] = c \o w
      BY <1>3, <2>1, <2>4, <3>1
    <3>4. c \o w \in Seq(D) /\ Len(c \o w) = Len(c) + Len(w) /\ Stands(c \o w, 0, c) /\ Stands(c \o w, Len(c), w)
      BY <2>2, <3>2, Joined
    <3>5. QED
      BY <2>1, <2>4, <3>1, <3>2, <3>3, <3>4
  <2>5. QED
    BY <2>3, <2>4
<1>6. d \in Seq(Seq(D)) /\ Len(d) = n
  <2>1. PICK E : E = Seq(D)
    OBVIOUS
  <2>2. d \in [1 .. n -> E] /\ DOMAIN d = 1 .. n
    <3>1. \A k \in 1 .. n : d[k] \in E
      BY <1>5, <2>1
    <3>2. PICK g : g = [k \in 1 .. n |-> d[k]]
      OBVIOUS
    <3>3. d = g
      BY <1>3, <3>2
    <3>4. g \in [1 .. n -> E] /\ DOMAIN g = 1 .. n
      BY <3>1, <3>2
    <3>5. QED
      BY <3>3, <3>4, Zenon
  <2>3. d \in Seq(E)
    <3>1. d \in [1 .. n -> E]
      BY <2>2
    <3>2. QED
      BY <3>1, FunctionIsSeq
  <2>4. Len(d) = n
    BY <2>2, <2>3, LenProperties
  <2>5. QED
    BY <2>1, <2>3, <2>4
<1>7. QED
  BY <1>1, <1>2, <1>4, <1>5, <1>6

\* A line holds what is written of the cells, and its end.
LEMMA RecordIs ==
  ASSUME NEW C, NEW cells \in Seq(Seq(C))
  PROVE  \E body, e : /\ body \in Seq(Signs(C)) /\ Places(e, body, Parts(cells))
                      /\ CsvRecord(cells) \in Seq(Signs(C)) /\ Len(CsvRecord(cells)) = Len(body) + 1
                      /\ Stands(CsvRecord(cells), 0, body) /\ Stands(CsvRecord(cells), Len(body), <<NewLine>>)
<1>1. PICK D : D = Signs(C)
  OBVIOUS
<1>2. PICK body : body = FlattenSeq(Parts(cells))
  OBVIOUS
<1>3. body \in Seq(D) /\ \E e : Places(e, body, Parts(cells))
  <2>1. Parts(cells) \in Seq(Seq(D))
    BY <1>1, PartsAre
  <2>2. QED
    BY <1>2, <2>1, FlattenIs
<1>4. PICK q : q = <<NewLine>>
  OBVIOUS
<1>5. q \in Seq(D) /\ Len(q) = 1
  <2>1. NewLine \in D
    BY <1>1, SignsDiffer DEF Signs
  <2>2. QED
    BY <1>4, <2>1
<1>6. PICK w : w = body \o q
  OBVIOUS
<1>7. w \in Seq(D) /\ Len(w) = Len(body) + 1 /\ Stands(w, 0, body) /\ Stands(w, Len(body), q)
  <2>1. body \o q \in Seq(D) /\ Len(body \o q) = Len(body) + Len(q) /\ Stands(body \o q, 0, body) /\ Stands(body \o q, Len(body), q)
    BY <1>3, <1>5, Joined
  <2>2. QED
    BY <1>5, <1>6, <2>1
<1>8. CsvRecord(cells) = w
  BY <1>2, <1>4, <1>6 DEF CsvRecord, Parts
<1>9. QED
  BY <1>1, <1>3, <1>4, <1>7, <1>8

\* A line is read as the record that it is of.
LEMMA RecordIsRead ==
  ASSUME NEW C, NEW cells \in Seq(Seq(C)), cells # <<>>,
         NEW t \in Seq(Signs(C)), NEW f, Reads(f, t), NEW i \in Nat, Stands(t, i, CsvRecord(cells)),
         NEW R, f[i] = Ready(R, <<>>)
  PROVE  f[i+Len(CsvRecord(cells))] = Ready(Append(R, cells), <<>>)
<1>1. PICK w : w = CsvRecord(cells)
  OBVIOUS
<1>2. PICK d : d = Parts(cells)
  OBVIOUS
<1>3. PICK D : D = Signs(C)
  OBVIOUS
<1>4. PICK q : q = <<NewLine>>
  OBVIOUS
<1>5. PICK body : \E e : /\ body \in Seq(D) /\ Places(e, body, d)
                         /\ w \in Seq(D) /\ Len(w) = Len(body) + 1
                         /\ Stands(w, 0, body) /\ Stands(w, Len(body), q)
  BY <1>1, <1>2, <1>3, <1>4, RecordIs
<1>6. PICK e : Places(e, body, d)
  BY <1>5
<1>7. /\ body \in Seq(D) /\ w \in Seq(D) /\ Len(w) = Len(body) + 1
      /\ Stands(w, 0, body) /\ Stands(w, Len(body), q)
  BY <1>5
<1>8. PICK n \in Nat : n = Len(cells) /\ n # 0 /\ \A k \in 1 .. n : cells[k] \in Seq(C)
  <2>1. PICK S : S = Seq(C)
    OBVIOUS
  <2>2. Len(cells) \in Nat /\ Len(cells) # 0 /\ \A k \in 1 .. Len(cells) : cells[k] \in S
    BY <2>1, LenProperties, ElementOfSeq, EmptySeq
  <2>3. QED
    BY <2>1, <2>2
<1>9. /\ Len(d) = n
      /\ \A k \in 1 .. n :
           /\ d[k] \in Seq(D)
           /\ k = 1 => d[k] = CsvQuote(cells[k])
           /\ k # 1 => Stands(d[k], 0, <<Comma>>) /\ Stands(d[k], 1, CsvQuote(cells[k])) /\ Len(d[k]) = 1 + Len(CsvQuote(cells[k]))
  <2>1. /\ d \in Seq(Seq(D)) /\ Len(d) = n
        /\ \A k \in 1 .. n :
              /\ k = 1 => d[k] = CsvQuote(cells[k])
              /\ k # 1 => Stands(d[k], 0, <<Comma>>) /\ Stands(d[k], 1, CsvQuote(cells[k])) /\ Len(d[k]) = 1 + Len(CsvQuote(cells[k]))
    BY <1>2, <1>3, <1>8, PartsAre
  <2>2. \A k \in 1 .. n : d[k] \in Seq(D)
    BY <2>1, ElementOfSeq
  <2>3. QED
    BY <2>1, <2>2
<1>10. t \in Seq(D) /\ q \in Seq(D) /\ Len(body) \in Nat
  <2>1. NewLine \in D
    BY <1>3, SignsDiffer DEF Signs
  <2>2. QED
    BY <1>3, <1>4, <1>7, <2>1, LenProperties
<1>11. Stands(t, i, body) /\ Stands(t, i + Len(body), q)
  <2>1. Stands(t, i, w) /\ i + 0 = i /\ 0 \in Nat
    BY <1>1
  <2>2. Stands(t, i + 0, body)
    BY <1>7, <1>10, <2>1, StandsWithin
  <2>3. Stands(t, i + Len(body), q)
    BY <1>7, <1>10, <2>1, StandsWithin
  <2>4. QED
    BY <2>1, <2>2, <2>3
<1> DEFINE T == {k \in Nat : Done(f[i+e[k]], R, SubSeq(cells, 1, k - 1), cells[k])}
<1>12. 1 \in T
  <2>1. 1 \in 1 .. n /\ 1 - 1 = 0 /\ 1 \in Nat
    BY <1>8
  <2>2. PICK v : v = cells[1]
    OBVIOUS
  <2>3. v \in Seq(C) /\ d[1] = CsvQuote(v) /\ CsvQuote(v) \in Seq(D)
    BY <1>8, <1>9, <2>1, <2>2
  <2>4. e[1] = Len(CsvQuote(v)) /\ Stands(body, 0, CsvQuote(v)) /\ Len(CsvQuote(v)) \in Nat
    <3>1. e[0] = 0 /\ e[1] = e[1-1] + Len(d[1]) /\ Stands(body, e[1-1], d[1])
      BY <1>6, <1>9, <2>1 DEF Places
    <3>2. Len(CsvQuote(v)) \in Nat
      BY <2>3, QuoteType
    <3>3. QED
      BY <2>1, <2>3, <3>1, <3>2
  <2>5. Stands(t, i, CsvQuote(v))
    <3>1. Stands(t, i + 0, CsvQuote(v)) /\ i + 0 = i
      BY <1>7, <1>10, <1>11, <2>3, <2>4, StandsWithin
    <3>2. QED
      BY <3>1
  <2>6. Done(f[i+Len(CsvQuote(v))], R, <<>>, v)
    BY <2>3, <2>5, CellIsRead
  <2>7. SubSeq(cells, 1, 0) = <<>>
    BY SubSeqEmpty
  <2>8. QED
    BY <2>1, <2>2, <2>4, <2>6, <2>7
<1>13. ASSUME NEW k \in 1 .. n - 1, k \in T PROVE k + 1 \in T
  <2>1. k + 1 \in 1 .. n /\ k + 1 # 1 /\ (k + 1) - 1 = k /\ k + 1 \in Nat /\ k \in 1 .. n /\ k - 1 \in 0 .. Len(cells) - 1 /\ (k - 1) + 1 = k
    BY <1>8
  <2>2. PICK x : x = d[k+1]
    OBVIOUS
  <2>3. PICK v : v = cells[k+1]
    OBVIOUS
  <2>4. PICK u : u = CsvQuote(v)
    OBVIOUS
  <2>5. v \in Seq(C) /\ u \in Seq(D) /\ Len(u) \in Nat /\ x \in Seq(D) /\ Stands(x, 0, <<Comma>>) /\ Stands(x, 1, u) /\ Len(x) = 1 + Len(u)
    <3>1. v \in Seq(C)
      BY <1>8, <2>1, <2>3
    <3>2. u \in Seq(D) /\ Len(u) \in Nat
      BY <1>3, <2>4, <3>1, QuoteType
    <3>3. QED
      BY <1>9, <2>1, <2>2, <2>3, <2>4, <3>1, <3>2
  <2>6. e[k] \in Nat /\ e[k+1] = e[k] + Len(x) /\ Stands(body, e[k], x)
    <3>1. e[(k+1)-1] \in Nat /\ e[k+1] = e[(k+1)-1] + Len(d[k+1]) /\ Stands(body, e[(k+1)-1], d[k+1])
      BY <1>6, <1>9, <2>1 DEF Places
    <3>2. QED
      BY <2>1, <2>2, <3>1
  <2>7. PICK p \in Nat : p = e[k]
    BY <2>6
  <2>8. PICK j \in Nat : j = i + p
    OBVIOUS
  <2>9. Stands(t, j, <<Comma>>) /\ Stands(t, j + 1, u)
    <3>1. Stands(t, j, x)
      BY <1>7, <1>10, <1>11, <2>5, <2>6, <2>7, <2>8, StandsWithin
    <3>2. PICK c : c = <<Comma>>
      OBVIOUS
    <3>3. c \in Seq(D)
      <4>1. Comma \in D
        BY <1>3, SignsDiffer DEF Signs
      <4>2. QED
        BY <3>2, <4>1
    <3>4. Stands(x, 0, c) /\ 0 \in Nat /\ 1 \in Nat /\ j + 0 = j
      BY <2>5, <3>2
    <3>5. Stands(t, j + 0, c)
      BY <1>10, <2>5, <3>1, <3>3, <3>4, StandsWithin
    <3>6. Stands(t, j + 1, u)
      BY <1>10, <2>5, <3>1, <3>4, StandsWithin
    <3>7. QED
      BY <3>2, <3>4, <3>5, <3>6
  <2>10. PICK s : s = SubSeq(cells, 1, k - 1)
    OBVIOUS
  <2>11. PICK r : r = SubSeq(cells, 1, k)
    OBVIOUS
  <2>12. Append(s, cells[k]) = r
    <3>1. PICK S : S = Seq(C)
      OBVIOUS
    <3>2. PICK h : h = k - 1
      OBVIOUS
    <3>3. cells \in Seq(S) /\ h \in 0 .. Len(cells) - 1 /\ h + 1 = k
      BY <2>1, <3>1, <3>2
    <3>4. Append(SubSeq(cells, 1, h), cells[h+1]) = SubSeq(cells, 1, h + 1)
      BY <3>3, OneMore
    <3>5. QED
      BY <2>10, <2>11, <3>2, <3>3, <3>4
  <2>13. f[j+1] = Ready(R, r)
    <3>1. Done(f[j], R, s, cells[k])
      BY <1>13, <2>7, <2>8, <2>10
    <3>2. CsvStep(f[j], Comma) = Ready(R, Append(s, cells[k]))
      BY <3>1, CommaEnds
    <3>3. f[j+1] = CsvStep(f[j], Comma)
      BY <1>10, <2>9, StepAt
    <3>4. QED
      BY <2>12, <3>2, <3>3
  <2>14. PICK o \in Nat : o = j + 1
    OBVIOUS
  <2>15. Done(f[o+Len(u)], R, r, v)
    <3>1. Stands(t, o, CsvQuote(v)) /\ f[o] = Ready(R, r)
      BY <2>4, <2>9, <2>13, <2>14
    <3>2. Done(f[o+Len(CsvQuote(v))], R, r, v)
      BY <2>5, <3>1, CellIsRead
    <3>3. QED
      BY <2>4, <3>2
  <2>16. o + Len(u) = i + e[k+1]
    <3>1. PICK m \in Nat : m = Len(u)
      BY <2>5
    <3>2. e[k+1] = p + (1 + m)
      BY <2>5, <2>6, <2>7, <3>1
    <3>3. o + m = i + (p + (1 + m))
      BY <2>8, <2>14
    <3>4. QED
      BY <3>1, <3>2, <3>3
  <2>17. QED
    BY <2>1, <2>3, <2>11, <2>15, <2>16
<1>14. n \in T
  <2> HIDE DEF T
  <2>1. \A k \in 1 .. n - 1 : k \in T => k + 1 \in T
    BY <1>13
  <2>2. 1 \in Nat /\ n \in 1 .. n
    BY <1>8
  <2>3. \A k \in 1 .. n : k \in T
    BY <1>12, <2>1, <2>2, FromTo
  <2>4. QED
    BY <2>2, <2>3
<1>15. PICK j \in Nat : j = i + Len(body)
  BY <1>10
<1>16. Done(f[j], R, SubSeq(cells, 1, n - 1), cells[n])
  <2>1. e[n] = Len(body)
    BY <1>6, <1>9 DEF Places
  <2>2. QED
    BY <1>14, <1>15, <2>1
<1>17. Append(SubSeq(cells, 1, n - 1), cells[n]) = cells
  <2>1. PICK S : S = Seq(C)
    OBVIOUS
  <2>2. PICK h : h = n - 1
    OBVIOUS
  <2>3. cells \in Seq(S) /\ h \in 0 .. Len(cells) - 1 /\ h + 1 = n
    BY <1>8, <2>1, <2>2
  <2>4. Append(SubSeq(cells, 1, h), cells[h+1]) = SubSeq(cells, 1, h + 1)
    BY <2>3, OneMore
  <2>5. SubSeq(cells, 1, Len(cells)) = cells
    BY <2>3, SubSeqFull
  <2>6. QED
    BY <1>8, <2>2, <2>3, <2>4, <2>5
<1>18. f[j+1] = Ready(Append(R, cells), <<>>)
  <2>1. PICK s : s = SubSeq(cells, 1, n - 1)
    OBVIOUS
  <2>2. Done(f[j], R, s, cells[n]) /\ Append(s, cells[n]) = cells
    BY <1>16, <1>17, <2>1
  <2>3. CsvStep(f[j], NewLine) = Ready(Append(R, Append(s, cells[n])), <<>>)
    <3>1. PICK a : a = f[j]
      OBVIOUS
    <3>2. PICK v : v = cells[n]
      OBVIOUS
    <3>3. Done(a, R, s, v)
      BY <2>2, <3>1, <3>2
    <3>4. QED
      BY <3>1, <3>2, <3>3, NewLineEnds
  <2>4. f[j+1] = CsvStep(f[j], NewLine)
    BY <1>4, <1>10, <1>11, <1>15, StepAt
  <2>5. QED
    BY <2>2, <2>3, <2>4
<1>19. i + Len(w) = j + 1
  BY <1>7, <1>10, <1>15
<1>20. QED
  BY <1>1, <1>18, <1>19

\* A written result is read as its header and rows, if none is without cells: an
\* empty line is that of a record with one empty cell.
LEMMA LinesAreRead ==
  ASSUME NEW r \in Exports, \A k \in 1 .. Len(RecordsOf(r)) : RecordsOf(r)[k] # <<>>
  PROVE  ReadCsv(FlattenSeq(CsvLines(r))) = RecordsOf(r)
<1>1. PICK s : s = RecordsOf(r)
  OBVIOUS
<1>2. PICK d : d = CsvLines(r)
  OBVIOUS
<1>3. PICK C : s \in Seq(Seq(Seq(C)))
  BY <1>1, TableIs
<1>4. PICK D : D = Signs(C)
  OBVIOUS
<1>5. PICK n \in Nat : n = Len(s) /\ Len(d) = n /\ \A k \in 1 .. n : s[k] \in Seq(Seq(C)) /\ s[k] # <<>> /\ d[k] = CsvRecord(s[k])
  <2>1. PICK S : S = Seq(Seq(C))
    OBVIOUS
  <2>2. Len(s) \in Nat /\ \A k \in 1 .. Len(s) : s[k] \in S
    BY <1>3, <2>1, LenProperties, ElementOfSeq
  <2>3. Len(d) = Len(s) /\ \A k \in 1 .. Len(s) : d[k] = CsvRecord(s[k])
    BY <1>1, <1>2, CsvType
  <2>4. \A k \in 1 .. Len(s) : s[k] # <<>>
    BY <1>1
  <2>5. QED
    BY <2>1, <2>2, <2>3, <2>4
<1>6. d \in Seq(Seq(D))
  <2>1. PICK E : E = Seq(D)
    OBVIOUS
  <2>2. \A k \in 1 .. n : d[k] \in E
    <3>1. ASSUME NEW k \in 1 .. n PROVE d[k] \in E
      <4>1. PICK cells : cells = s[k]
        OBVIOUS
      <4>2. cells \in Seq(Seq(C)) /\ d[k] = CsvRecord(cells)
        BY <1>5, <4>1
      <4>3. CsvRecord(cells) \in Seq(D)
        BY <1>4, <4>2, RecordIs
      <4>4. QED
        BY <2>1, <4>2, <4>3
    <3>2. QED
      BY <3>1
  <2>3. PICK S : d \in Seq(S)
    BY <1>2, CsvType
  <2>4. d \in Seq(E)
    <3>1. DOMAIN d = 1 .. n /\ d \in [DOMAIN d -> S]
      BY <1>5, <2>3, LenProperties
    <3>2. d \in [1 .. n -> E]
      BY <2>2, <3>1
    <3>3. QED
      BY <3>2, FunctionIsSeq
  <2>5. QED
    BY <2>1, <2>4
<1>7. PICK t : t = FlattenSeq(d)
  OBVIOUS
<1>8. t \in Seq(D) /\ \E e : Places(e, t, d)
  BY <1>6, <1>7, FlattenIs
<1>9. PICK e : Places(e, t, d)
  BY <1>8
<1>10. Len(t) \in Nat
  BY <1>8, LenProperties
<1>11. PICK f : Reads(f, t) /\ ReadCsv(t) = f[Len(t)].records
  BY <1>10, ReaderRuns
<1> DEFINE T == {k \in Nat : f[e[k]] = Ready(SubSeq(s, 1, k), <<>>)}
<1>12. 0 \in T
  <2>1. e[0] = 0 /\ SubSeq(s, 1, 0) = <<>> /\ f[0] = Ready(<<>>, <<>>)
    BY <1>9, <1>11, SubSeqEmpty DEF Places, Reads
  <2>2. QED
    BY <2>1
<1>13. ASSUME NEW k \in 0 .. n - 1, k \in T PROVE k + 1 \in T
  <2>1. k + 1 \in 1 .. n /\ (k + 1) - 1 = k /\ k + 1 \in Nat /\ k \in 0 .. Len(s) - 1
    BY <1>5
  <2>2. PICK cells : cells = s[k+1]
    OBVIOUS
  <2>3. PICK x : x = CsvRecord(cells)
    OBVIOUS
  <2>4. cells \in Seq(Seq(C)) /\ cells # <<>> /\ d[k+1] = x
    BY <1>5, <2>1, <2>2, <2>3
  <2>5. e[k] \in Nat /\ e[k+1] = e[k] + Len(x) /\ Stands(t, e[k], x)
    <3>1. e[(k+1)-1] \in Nat /\ e[k+1] = e[(k+1)-1] + Len(d[k+1]) /\ Stands(t, e[(k+1)-1], d[k+1])
      BY <1>5, <1>9, <2>1 DEF Places
    <3>2. QED
      BY <2>1, <2>4, <3>1
  <2>6. PICK i \in Nat : i = e[k]
    BY <2>5
  <2>7. PICK R : R = SubSeq(s, 1, k)
    OBVIOUS
  <2>8. f[i] = Ready(R, <<>>) /\ Stands(t, i, CsvRecord(cells)) /\ t \in Seq(Signs(C)) /\ Reads(f, t)
    BY <1>4, <1>8, <1>11, <1>13, <2>3, <2>5, <2>6, <2>7
  <2>9. f[i+Len(CsvRecord(cells))] = Ready(Append(R, cells), <<>>)
    BY <2>4, <2>8, RecordIsRead
  <2>10. Append(R, cells) = SubSeq(s, 1, k + 1)
    <3>1. PICK S : S = Seq(Seq(C))
      OBVIOUS
    <3>2. s \in Seq(S) /\ k \in 0 .. Len(s) - 1
      BY <1>3, <2>1, <3>1
    <3>3. Append(SubSeq(s, 1, k), s[k+1]) = SubSeq(s, 1, k + 1)
      BY <3>2, OneMore
    <3>4. QED
      BY <2>2, <2>7, <3>3
  <2>11. e[k+1] = i + Len(CsvRecord(cells))
    BY <2>3, <2>5, <2>6
  <2>12. QED
    BY <2>1, <2>9, <2>10, <2>11
<1>14. n \in T
  <2> HIDE DEF T
  <2>1. \A k \in 0 .. n - 1 : k \in T => k + 1 \in T
    BY <1>13
  <2>2. 0 \in Nat /\ n \in 0 .. n
    OBVIOUS
  <2>3. \A k \in 0 .. n : k \in T
    BY <1>12, <2>1, <2>2, FromTo
  <2>4. QED
    BY <2>2, <2>3
<1>15. f[Len(t)] = Ready(s, <<>>)
  <2>1. e[n] = Len(t)
    BY <1>5, <1>9 DEF Places
  <2>2. SubSeq(s, 1, n) = s
    <3>1. PICK S : s \in Seq(S)
      BY <1>3
    <3>2. QED
      BY <1>5, <3>1, SubSeqFull
  <2>3. QED
    BY <1>14, <2>1, <2>2
<1>16. f[Len(t)].records = s
  BY <1>15 DEF Ready, Reader
<1>17. QED
  BY <1>1, <1>2, <1>7, <1>11, <1>16

\* An exported file that the shell was not killed while writing can be read back:
\* whatever the cells hold, the records read are the header and the rows of the result.
THEOREM ExportReadsBack == Spec => []ExportIsWhole
<1>1. IInv => ExportIsWhole
  <2> SUFFICES ASSUME IInv, phase \notin {"write", "killed"}, file.by = "export",
                      <<>> \notin ToSet(RecordsOf(file.of))
               PROVE  ReadCsv(FlattenSeq(file.lines)) = RecordsOf(file.of)
    BY DEF ExportIsWhole, RecordsOf
  <2>1. file.lines = CsvLines(file.of)
    BY WholeWhenWritten DEF FileIsWhole
  <2>2. file.of \in Exports
    BY DEF IInv, Exported
  <2>3. PICK r \in Exports : r = file.of
    BY <2>2
  <2>4. \A k \in 1 .. Len(RecordsOf(r)) : RecordsOf(r)[k] # <<>>
    <3>1. PICK C : RecordsOf(r) \in Seq(Seq(Seq(C)))
      BY TableIs
    <3>2. PICK s : s = RecordsOf(r)
      OBVIOUS
    <3>3. PICK S : s \in Seq(S)
      BY <3>1, <3>2
    <3>4. DOMAIN s = 1 .. Len(s)
      BY <3>3, LenProperties
    <3>5. <<>> \notin ToSet(s)
      BY <2>3, <3>2
    <3>6. QED
      BY <3>2, <3>4, <3>5 DEF ToSet
  <2>5. ReadCsv(FlattenSeq(CsvLines(r))) = RecordsOf(r)
    BY <2>4, LinesAreRead
  <2>6. QED
    BY <2>1, <2>3, <2>5
<1>2. QED
  BY <1>1, InductiveInvariant, PTL

-----------------------------------------------------------------------------
(* Expanded display                                                         *)

\* A function that is given at 0 and by one place before is defined at all places.
LEMMA RunsExist ==
  ASSUME NEW D, NEW a \in D, NEW n \in Nat, NEW G \in [1 .. n -> [D -> D]]
  PROVE  \E f \in [0 .. n -> D] : f[0] = a /\ \A i \in 1 .. n : f[i] = G[i][f[i-1]]
<1> DEFINE Runs(f, k) == f \in [0 .. k -> D] /\ \A i \in 0 .. k : f[i] = IF i = 0 THEN a ELSE G[i][f[i-1]]
           T == {k \in Nat : \E f : Runs(f, k)}
<1>1. 0 \in T
  <2>1. Runs([i \in 0 .. 0 |-> a], 0)
    OBVIOUS
  <2>2. QED
    BY <2>1
<1>2. ASSUME NEW k \in 0 .. n - 1, k \in T PROVE k + 1 \in T
  <2>1. PICK f : Runs(f, k)
    BY <1>2
  <2>2. PICK x : x = G[k+1][f[k]]
    OBVIOUS
  <2>3. x \in D
    <3>1. k + 1 \in 1 .. n /\ f[k] \in D
      BY <2>1
    <3>2. QED
      BY <2>2, <3>1
  <2> DEFINE g == [i \in 0 .. k + 1 |-> IF i = k + 1 THEN x ELSE f[i]]
  <2>4. g \in [0 .. k + 1 -> D]
    BY <2>1, <2>3
  <2>5. ASSUME NEW i \in 0 .. k + 1 PROVE g[i] = IF i = 0 THEN a ELSE G[i][g[i-1]]
    <3>1. CASE i = 0
      BY <2>1, <3>1
    <3>2. CASE i = k + 1
      <4>1. g[i] = x /\ g[i-1] = f[k] /\ i # 0
        BY <3>2
      <4>2. QED
        BY <2>2, <3>2, <4>1
    <3>3. CASE i # 0 /\ i # k + 1
      <4>1. i \in 0 .. k /\ i - 1 \in 0 .. k + 1 /\ i - 1 # k + 1
        BY <3>3
      <4>2. g[i] = f[i] /\ g[i-1] = f[i-1] /\ f[i] = G[i][f[i-1]]
        BY <2>1, <3>3, <4>1
      <4>3. QED
        BY <3>3, <4>2
    <3>4. QED
      BY <3>1, <3>2, <3>3
  <2>6. PICK h : h = g
    OBVIOUS
  <2>7. Runs(h, k + 1)
    BY <2>4, <2>5, <2>6
  <2> HIDE DEF g, Runs
  <2>8. QED
    BY <2>7
<1>3. n \in T
  <2> HIDE DEF T
  <2>1. 0 \in Nat /\ n \in 0 .. n
    OBVIOUS
  <2>2. \A k \in 0 .. n - 1 : k \in T => k + 1 \in T
    BY <1>2
  <2>3. \A k \in 0 .. n : k \in T
    BY <1>1, <2>1, <2>2, FromTo
  <2>4. QED
    BY <2>1, <2>3
<1>4. PICK f : Runs(f, n)
  BY <1>3
<1>5. f[0] = a /\ \A i \in 1 .. n : f[i] = G[i][f[i-1]]
  BY <1>4
<1>6. QED
  BY <1>4, <1>5

\* A text has at least as many bytes as characters.
LEMMA ByteLenIs ==
  ASSUME NEW C, NEW s \in Seq(C)
  PROVE  ByteLen(s) \in Nat /\ Len(s) <= ByteLen(s)
<1>0. PICK n \in Nat : n = Len(s)
  BY LenProperties
<1> DEFINE G == [i \in 1 .. n |-> [x \in Nat |-> x + Bytes(s[i])]]
           Runs(f) == f = [i \in 0 .. n |-> IF i = 0 THEN 0 ELSE f[i-1] + Bytes(s[i])]
<1>1. \A i \in 1 .. n : Bytes(s[i]) \in 1 .. 3
  BY DEF Bytes
<1>2. \E f : Runs(f)
  <2>1. G \in [1 .. n -> [Nat -> Nat]]
    BY <1>1
  <2>2. PICK g : g = G
    OBVIOUS
  <2>3. PICK f \in [0 .. n -> Nat] : f[0] = 0 /\ \A i \in 1 .. n : f[i] = g[i][f[i-1]]
    <3>1. PICK D, a : D = Nat /\ a = 0 /\ a \in D
      OBVIOUS
    <3>2. a \in D /\ g \in [1 .. n -> [D -> D]]
      BY <2>1, <2>2, <3>1
    <3> HIDE DEF G
    <3>3. \E f \in [0 .. n -> D] : f[0] = a /\ \A i \in 1 .. n : f[i] = g[i][f[i-1]]
      BY <3>2, RunsExist
    <3>4. QED
      BY <3>1, <3>3
  <2>4. ASSUME NEW i \in 1 .. n PROVE f[i] = f[i-1] + Bytes(s[i])
    <3>1. f[i-1] \in Nat
      OBVIOUS
    <3>2. QED
      BY <2>2, <2>3, <3>1
  <2>5. f = [i \in 0 .. n |-> f[i]] /\ \A i \in 0 .. n : f[i] = IF i = 0 THEN 0 ELSE f[i-1] + Bytes(s[i])
    BY <2>3, <2>4
  <2>6. Runs(f)
    BY <2>5
  <2>7. QED
    BY <2>6
<1>3. PICK f : f = CHOOSE g : Runs(g)
  OBVIOUS
<1>4. Runs(f)
  BY <1>2, <1>3
<1>5. ByteLen(s) = f[n]
  BY <1>0, <1>3 DEF ByteLen, Total
<1> DEFINE T == {k \in Nat : f[k] \in Nat /\ k <= f[k]}
<1>6. 0 \in T
  BY <1>4
<1>7. ASSUME NEW k \in 0 .. n - 1, k \in T PROVE k + 1 \in T
  <2>1. k + 1 \in 1 .. n /\ (k + 1) - 1 = k
    OBVIOUS
  <2>2. f[k+1] = f[k] + Bytes(s[k+1])
    BY <1>4, <2>1
  <2>3. PICK b \in 1 .. 3 : b = Bytes(s[k+1])
    BY <1>1, <2>1
  <2>4. QED
    BY <1>7, <2>2, <2>3
<1>8. n \in T
  <2> HIDE DEF T
  <2>1. 0 \in Nat /\ n \in 0 .. n
    OBVIOUS
  <2>2. \A k \in 0 .. n - 1 : k \in T => k + 1 \in T
    BY <1>7
  <2>3. \A k \in 0 .. n : k \in T
    BY <1>6, <2>1, <2>2, FromTo
  <2>4. QED
    BY <2>1, <2>3
<1>9. QED
  BY <1>0, <1>5, <1>8

\* The label is as wide as the longest name.
LEMMA LabelIs ==
  ASSUME NEW r, NEW C, r.columns \in Seq(Seq(C))
  PROVE  LabelWidth(r) \in Nat /\ \A i \in DOMAIN r.columns : ByteLen(r.columns[i]) <= LabelWidth(r)
<1>0. PICK s : s = r.columns
  OBVIOUS
<1>1. PICK n \in Nat : DOMAIN s = 1 .. n /\ \A i \in 1 .. n : s[i] \in Seq(C)
  <2>1. PICK S : S = Seq(C)
    OBVIOUS
  <2>2. s \in Seq(S)
    BY <1>0, <2>1
  <2>3. Len(s) \in Nat /\ DOMAIN s = 1 .. Len(s) /\ \A i \in 1 .. Len(s) : s[i] \in S
    BY <2>2, LenProperties
  <2>4. QED
    BY <2>1, <2>3
<1>2. PICK b : b = [i \in 1 .. n |-> ByteLen(s[i])]
  OBVIOUS
<1>3. b \in [1 .. n -> Nat]
  BY <1>1, <1>2, ByteLenIs
<1>4. PICK W : W = {0} \union {ByteLen(x) : x \in ToSet(s)}
  OBVIOUS
<1>5. W \subseteq Nat /\ 0 \in W /\ (\A i \in 1 .. n : b[i] \in W) /\ \A x \in W : x = 0 \/ \E i \in 1 .. n : x = b[i]
  <2>1. ToSet(s) = {s[i] : i \in 1 .. n}
    BY <1>1 DEF ToSet
  <2>2. W = {0} \union {b[i] : i \in 1 .. n}
    BY <1>2, <1>4, <2>1
  <2>3. QED
    BY <1>3, <2>2
<1> DEFINE T == {k \in Nat : \E m \in W : \A i \in 1 .. k : b[i] <= m}
<1>6. 0 \in T
  BY <1>5
<1>7. ASSUME NEW k \in 0 .. n - 1, k \in T PROVE k + 1 \in T
  <2>1. PICK m \in W : \A i \in 1 .. k : b[i] <= m
    BY <1>7
  <2>2. k + 1 \in 1 .. n /\ \A i \in 1 .. k + 1 : i \in 1 .. k \/ i = k + 1
    OBVIOUS
  <2>3. PICK x : x = b[k+1]
    OBVIOUS
  <2>4. x \in W /\ x \in Nat /\ m \in Nat
    BY <1>5, <2>2, <2>3
  <2>5. CASE x <= m
    BY <2>1, <2>2, <2>3, <2>5
  <2>6. CASE m <= x
    <3>1. \A i \in 1 .. k : b[i] \in Nat
      BY <1>3
    <3>2. \A i \in 1 .. k : b[i] <= x
      BY <2>1, <2>4, <2>6, <3>1
    <3>3. x <= x
      BY <2>4
    <3>4. QED
      BY <2>2, <2>3, <2>4, <3>2, <3>3
  <2>7. QED
    BY <2>4, <2>5, <2>6
<1>8. n \in T
  <2> HIDE DEF T
  <2>1. 0 \in Nat /\ n \in 0 .. n
    OBVIOUS
  <2>2. \A k \in 0 .. n - 1 : k \in T => k + 1 \in T
    BY <1>7
  <2>3. \A k \in 0 .. n : k \in T
    BY <1>6, <2>1, <2>2, FromTo
  <2>4. QED
    BY <2>1, <2>3
<1>9. PICK m \in W : \A i \in 1 .. n : b[i] <= m
  BY <1>8
<1>10. \E y \in W : \A x \in W : y >= x
  <2>1. \A x \in W : m >= x
    BY <1>5, <1>9
  <2>2. QED
    BY <2>1
<1>11. PICK w : w = LabelWidth(r)
  OBVIOUS
<1>12. w \in W /\ \A x \in W : w >= x
  <2>1. w = Max(W)
    BY <1>0, <1>4, <1>11 DEF LabelWidth, Most
  <2>2. QED
    BY <1>10, <2>1 DEF Max
<1>13. \A i \in 1 .. n : ByteLen(s[i]) <= w
  <2>1. \A i \in 1 .. n : b[i] = ByteLen(s[i]) /\ b[i] \in W /\ b[i] \in Nat
    BY <1>2, <1>3, <1>5
  <2>2. QED
    BY <1>5, <1>12, <2>1
<1>14. QED
  BY <1>0, <1>1, <1>5, <1>11, <1>12, <1>13

\* Only one text has given parts one behind the other.
LEMMA FlattenOnce ==
  ASSUME NEW C, NEW s \in Seq(Seq(C)), NEW t \in Seq(C), NEW u \in Seq(C), NEW e, NEW g, Places(e, t, s), Places(g, u, s)
  PROVE  t = u
<1>1. PICK n \in Nat : n = Len(s)
  BY LenProperties
<1>2. /\ e[0] = 0 /\ g[0] = 0 /\ e[n] = Len(t) /\ g[n] = Len(u)
      /\ \A i \in 1 .. n : /\ e[i-1] \in Nat /\ e[i] = e[i-1] + Len(s[i]) /\ Stands(t, e[i-1], s[i])
                           /\ g[i-1] \in Nat /\ g[i] = g[i-1] + Len(s[i]) /\ Stands(u, g[i-1], s[i])
  BY <1>1 DEF Places
<1>3. \A i \in 1 .. n : Len(s[i]) \in Nat
  BY <1>1, LenProperties
<1> DEFINE T == {k \in Nat : e[k] = g[k] /\ e[k] \in Nat /\ \A p \in 1 .. e[k] : t[p] = u[p]}
<1>4. 0 \in T
  BY <1>2
<1>5. ASSUME NEW k \in 0 .. n - 1, k \in T PROVE k + 1 \in T
  <2>1. k + 1 \in 1 .. n /\ (k + 1) - 1 = k /\ k + 1 \in Nat
    OBVIOUS
  <2>2. PICK x : x = s[k+1]
    OBVIOUS
  <2>3. PICK m \in Nat : m = Len(x)
    BY <1>3, <2>1, <2>2
  <2>4. PICK a \in Nat : a = e[k] /\ a = g[k] /\ \A p \in 1 .. a : t[p] = u[p]
    BY <1>5
  <2>5. e[k+1] = a + m /\ g[k+1] = a + m /\ Stands(t, a, x) /\ Stands(u, a, x)
    BY <1>2, <2>1, <2>2, <2>3, <2>4
  <2>6. ASSUME NEW p \in 1 .. a + m PROVE t[p] = u[p]
    <3>1. CASE p \in 1 .. a
      BY <2>4, <3>1
    <3>2. CASE p \notin 1 .. a
      <4>1. p - a \in 1 .. m /\ a + (p - a) = p
        BY <3>2
      <4>2. t[a+(p-a)] = x[p-a] /\ u[a+(p-a)] = x[p-a]
        BY <2>3, <2>5, <4>1 DEF Stands
      <4>3. QED
        BY <4>1, <4>2
    <3>3. QED
      BY <3>1, <3>2
  <2>7. QED
    BY <2>1, <2>5, <2>6
<1>6. n \in T
  <2> HIDE DEF T
  <2>1. 0 \in Nat /\ n \in 0 .. n
    OBVIOUS
  <2>2. \A k \in 0 .. n - 1 : k \in T => k + 1 \in T
    BY <1>5
  <2>3. \A k \in 0 .. n : k \in T
    BY <1>4, <2>1, <2>2, FromTo
  <2>4. QED
    BY <2>1, <2>3
<1>7. Len(t) = Len(u) /\ \A p \in 1 .. Len(t) : t[p] = u[p]
  BY <1>2, <1>6
<1>8. QED
  BY <1>7, SeqEqual

\* One part more makes a text that much longer.
LEMMA OnePartMore ==
  ASSUME NEW C, NEW s \in Seq(Seq(C)), NEW t \in Seq(C), NEW e, Places(e, t, s), NEW x \in Seq(C)
  PROVE  \E g : Places(g, t \o x, Append(s, x))
<1>1. PICK n \in Nat : n = Len(s)
  BY LenProperties
<1>2. /\ e[0] = 0 /\ e[n] = Len(t)
      /\ \A i \in 1 .. n : e[i-1] \in Nat /\ e[i] = e[i-1] + Len(s[i]) /\ Stands(t, e[i-1], s[i])
  BY <1>1 DEF Places
<1>3. PICK u : u = t \o x
  OBVIOUS
<1>4. u \in Seq(C) /\ Len(u) = Len(t) + Len(x) /\ Stands(u, 0, t) /\ Stands(u, Len(t), x)
  BY <1>3, Joined
<1>5. PICK q : q = Append(s, x)
  OBVIOUS
<1>6. Len(q) = n + 1 /\ q[n+1] = x /\ \A i \in 1 .. n : q[i] = s[i]
  <2>1. PICK E : E = Seq(C)
    OBVIOUS
  <2>2. s \in Seq(E) /\ x \in E
    BY <2>1
  <2>3. Len(Append(s, x)) = Len(s) + 1 /\ \A i \in 1 .. Len(s) + 1 : Append(s, x)[i] = IF i <= Len(s) THEN s[i] ELSE x
    BY <2>2, AppendProperties
  <2>4. QED
    BY <1>1, <1>5, <2>3
<1>7. PICK g : g = [i \in 0 .. n + 1 |-> IF i = n + 1 THEN Len(u) ELSE e[i]]
  OBVIOUS
<1>8. Len(t) \in Nat /\ Len(x) \in Nat /\ Len(u) \in Nat
  BY <1>4, LenProperties
<1>9. ASSUME NEW i \in 1 .. n + 1
      PROVE  g[i-1] \in Nat /\ g[i] = g[i-1] + Len(q[i]) /\ Stands(u, g[i-1], q[i])
  <2>1. CASE i = n + 1
    <3>1. g[i] = Len(u) /\ g[i-1] = Len(t) /\ q[i] = x
      BY <1>2, <1>6, <1>7, <2>1
    <3>2. QED
      BY <1>4, <1>8, <3>1
  <2>2. CASE i # n + 1
    <3>1. i \in 1 .. n /\ g[i] = e[i] /\ g[i-1] = e[i-1] /\ q[i] = s[i]
      BY <1>6, <1>7, <2>2
    <3>2. PICK y : y = s[i]
      OBVIOUS
    <3>3. PICK m \in Nat : m = e[i-1]
      BY <1>2, <3>1
    <3>4. y \in Seq(C) /\ Stands(t, m, y)
      <4>1. s[i] \in Seq(C)
        BY <1>1, <3>1, ElementOfSeq
      <4>2. QED
        BY <1>2, <3>1, <3>2, <3>3, <4>1
    <3>5. Stands(u, 0 + m, y)
      BY <1>4, <3>4, StandsWithin
    <3>6. 0 + m = m
      OBVIOUS
    <3>7. QED
      BY <1>2, <3>1, <3>2, <3>3, <3>5, <3>6
  <2>3. QED
    BY <2>1, <2>2
<1>10. g[0] = 0 /\ g[n+1] = Len(u)
  BY <1>2, <1>7
<1>11. Places(g, u, q)
  BY <1>6, <1>9, <1>10 DEF Places
<1>12. QED
  BY <1>3, <1>5, <1>11

\* One character more in the last part makes a text that much longer.
LEMMA LastPartLonger ==
  ASSUME NEW C, NEW s \in Seq(Seq(C)), s # <<>>, NEW t \in Seq(C), NEW e, Places(e, t, s), NEW c \in C
  PROVE  LET q == [s EXCEPT ![Len(s)] = Append(@, c)]
         IN  q \in Seq(Seq(C)) /\ q # <<>> /\ \E g : Places(g, Append(t, c), q)
<1>1. PICK n \in Nat : n = Len(s) /\ n # 0
  BY LenProperties, EmptySeq
<1>2. /\ e[0] = 0 /\ e[n] = Len(t)
      /\ \A i \in 1 .. n : e[i-1] \in Nat /\ e[i] = e[i-1] + Len(s[i]) /\ Stands(t, e[i-1], s[i])
  BY <1>1 DEF Places
<1>3. PICK x : x = s[n]
  OBVIOUS
<1>4. DOMAIN s = 1 .. n /\ \A i \in 1 .. n : s[i] \in Seq(C)
  BY <1>1, LenProperties
<1>5. PICK m \in Nat : x \in Seq(C) /\ m = Len(x)
  BY <1>1, <1>3, <1>4, LenProperties
<1>6. PICK y : y = Append(x, c)
  OBVIOUS
<1>7. y \in Seq(C) /\ Len(y) = m + 1 /\ \A k \in 1 .. m + 1 : y[k] = IF k <= m THEN x[k] ELSE c
  BY <1>5, <1>6, AppendProperties
<1>8. PICK l \in Nat : l = Len(t)
  BY LenProperties
<1>9. PICK u : u = Append(t, c)
  OBVIOUS
<1>10. u \in Seq(C) /\ Len(u) = l + 1 /\ \A k \in 1 .. l + 1 : u[k] = IF k <= l THEN t[k] ELSE c
  BY <1>8, <1>9, AppendProperties
<1>11. Stands(u, 0, t)
  BY <1>8, <1>10 DEF Stands
<1>12. PICK q : q = [s EXCEPT ![Len(s)] = Append(@, c)]
  OBVIOUS
<1>13. q = [i \in 1 .. n |-> IF i = n THEN y ELSE s[i]]
  BY <1>1, <1>3, <1>4, <1>6, <1>12
<1>14. q \in Seq(Seq(C)) /\ Len(q) = n /\ q # <<>>
  <2>1. PICK E : E = Seq(C)
    OBVIOUS
  <2>2. q \in [1 .. n -> E]
    BY <1>4, <1>7, <1>13, <2>1
  <2>3. q \in Seq(E)
    BY <2>2, FunctionIsSeq
  <2>4. Len(q) = n
    BY <2>2, <2>3, LenProperties
  <2>5. q # <<>>
    BY <1>1, <2>4
  <2>6. QED
    BY <2>1, <2>3, <2>4, <2>5
<1>15. PICK g : g = [i \in 0 .. n |-> IF i = n THEN l + 1 ELSE e[i]]
  OBVIOUS
<1>16. ASSUME NEW i \in 1 .. n
       PROVE  g[i-1] \in Nat /\ g[i] = g[i-1] + Len(q[i]) /\ Stands(u, g[i-1], q[i])
  <2>1. PICK p \in Nat : p = e[i-1]
    BY <1>2
  <2>2. g[i-1] = p
    BY <1>15, <2>1
  <2>3. CASE i = n
    <3>1. q[i] = y /\ g[i] = l + 1
      BY <1>13, <1>15, <2>3
    <3>2. l = p + m /\ Stands(t, p, x)
      BY <1>2, <1>3, <1>5, <1>8, <2>1, <2>3
    <3>3. ASSUME NEW k \in 1 .. m + 1 PROVE u[p+k] = y[k]
      <4>1. CASE k <= m
        <5>1. k \in 1 .. m /\ p + k \in 1 .. l + 1 /\ p + k <= l
          BY <3>2, <4>1
        <5>2. u[p+k] = t[p+k] /\ y[k] = x[k] /\ t[p+k] = x[k]
          BY <1>5, <1>7, <1>10, <3>2, <4>1, <5>1 DEF Stands
        <5>3. QED
          BY <5>2
      <4>2. CASE ~(k <= m)
        <5>1. p + k \in 1 .. l + 1 /\ ~(p + k <= l)
          BY <3>2, <4>2
        <5>2. u[p+k] = c /\ y[k] = c
          BY <1>7, <1>10, <4>2, <5>1
        <5>3. QED
          BY <5>2
      <4>3. QED
        BY <4>1, <4>2
    <3>4. p + (m + 1) = l + 1
      BY <3>2
    <3>5. Stands(u, p, y)
      BY <1>7, <1>10, <3>3, <3>4 DEF Stands
    <3>6. QED
      BY <1>7, <2>2, <3>1, <3>4, <3>5
  <2>4. CASE i # n
    <3>1. PICK z : z = s[i]
      OBVIOUS
    <3>2. q[i] = z /\ g[i] = e[i] /\ z \in Seq(C) /\ Stands(t, p, z) /\ e[i] = p + Len(z)
      BY <1>2, <1>4, <1>13, <1>15, <2>1, <2>4, <3>1
    <3>3. Stands(u, 0 + p, z)
      BY <1>10, <1>11, <3>2, StandsWithin
    <3>4. 0 + p = p
      OBVIOUS
    <3>5. QED
      BY <2>2, <3>2, <3>3, <3>4
  <2>5. QED
    BY <2>3, <2>4
<1>17. g[0] = 0 /\ g[n] = Len(u)
  BY <1>1, <1>2, <1>10, <1>15
<1>18. Places(g, u, q)
  BY <1>14, <1>16, <1>17 DEF Places
<1>19. QED
  BY <1>9, <1>12, <1>14, <1>18

\* Folding in a character adds it to the text, in a new part or in the last one.
LEMMA FoldedIs ==
  ASSUME NEW C, NEW s \in Seq(Seq(C)), s # <<>>, NEW t \in Seq(C), NEW e, Places(e, t, s), NEW c \in C, NEW w
  PROVE  Folded(s, c, w) \in Seq(Seq(C)) /\ Folded(s, c, w) # <<>> /\ \E g : Places(g, Append(t, c), Folded(s, c, w))
<1>1. Folded(s, c, w) \in {Append(s, <<c>>), [s EXCEPT ![Len(s)] = Append(@, c)]}
  BY DEF Folded
<1>2. CASE Folded(s, c, w) = Append(s, <<c>>)
  <2>1. PICK x : x = <<c>>
    OBVIOUS
  <2>2. x \in Seq(C)
    BY <2>1
  <2>3. \E g : Places(g, t \o x, Append(s, x))
    BY <2>2, OnePartMore
  <2>4. t \o x = Append(t, c)
    BY <2>1, AppendIsConcat
  <2>5. Append(s, x) \in Seq(Seq(C)) /\ Append(s, x) # <<>>
    <3>1. PICK E : E = Seq(C)
      OBVIOUS
    <3>2. s \in Seq(E) /\ x \in E
      BY <2>2, <3>1
    <3>3. Append(s, x) \in Seq(E) /\ Append(s, x) # <<>>
      BY <3>2, AppendProperties
    <3>4. QED
      BY <3>1, <3>3
  <2>6. QED
    BY <1>2, <2>1, <2>3, <2>4, <2>5
<1>3. CASE Folded(s, c, w) = [s EXCEPT ![Len(s)] = Append(@, c)]
  <2>1. PICK q : q = [s EXCEPT ![Len(s)] = Append(@, c)]
    OBVIOUS
  <2>2. q \in Seq(Seq(C)) /\ q # <<>> /\ \E g : Places(g, Append(t, c), q)
    BY <2>1, LastPartLonger, Zenon
  <2>3. QED
    BY <1>3, <2>1, <2>2
<1>4. QED
  BY <1>1, <1>2, <1>3

\* Folding keeps every character of a value, in order.
LEMMA WrapIs ==
  ASSUME NEW C, NEW v \in Seq(C), NEW w
  PROVE  LET segs == WrapValue(v, w) IN segs \in Seq(Seq(C)) /\ segs # <<>> /\ FlattenSeq(segs) = v
<1>0. PICK n \in Nat : n = Len(v)
  BY LenProperties
<1>1. PICK E : E = {s \in Seq(Seq(C)) : s # <<>> /\ \E t \in Seq(C) : \E e : Places(e, t, s)}
  OBVIOUS
<1>2. PICK one : one = << <<>> >>
  OBVIOUS
<1>3. one \in Seq(Seq(C)) /\ one # <<>> /\ \E e : Places(e, <<>>, one)
  <2>1. PICK x : x = <<>>
    OBVIOUS
  <2>2. x \in Seq(C) /\ Len(x) = 0 /\ one = <<x>>
    BY <1>2, <2>1
  <2>3. PICK e : e = [i \in 0 .. 1 |-> 0]
    OBVIOUS
  <2>4. one \in Seq(Seq(C)) /\ Len(one) = 1 /\ one[1] = x /\ one # <<>>
    BY <2>2
  <2>5. Stands(x, 0, x)
    BY <2>2 DEF Stands
  <2>6. Places(e, x, one)
    BY <2>2, <2>3, <2>4, <2>5 DEF Places
  <2>7. QED
    BY <2>1, <2>4, <2>6
<1>4. one \in E
  <2>1. PICK x : x = <<>>
    OBVIOUS
  <2>2. x \in Seq(C)
    BY <2>1
  <2>3. \E e : Places(e, x, one)
    BY <1>3, <2>1, Zenon
  <2>4. QED
    BY <1>1, <1>3, <2>2, <2>3
<1>5. \A i \in 1 .. n : v[i] \in C
  BY <1>0, ElementOfSeq
<1>6. ASSUME NEW s \in E, NEW c \in C PROVE Folded(s, c, w) \in E
  <2>1. PICK t, e : t \in Seq(C) /\ s \in Seq(Seq(C)) /\ s # <<>> /\ Places(e, t, s)
    BY <1>1, <1>6
  <2>2. PICK q : q = Folded(s, c, w)
    OBVIOUS
  <2>3. q \in Seq(Seq(C)) /\ q # <<>> /\ \E g : Places(g, Append(t, c), q)
    BY <2>1, <2>2, FoldedIs
  <2>4. Append(t, c) \in Seq(C)
    BY <2>1, AppendProperties
  <2>5. QED
    BY <1>1, <2>2, <2>3, <2>4
<1> DEFINE Runs(f) == f = [i \in 0 .. n |-> IF i = 0 THEN one ELSE Folded(f[i-1], v[i], w)]
<1>7. \E f : Runs(f)
  <2>1. PICK G : G = [i \in 1 .. n |-> [s \in E |-> Folded(s, v[i], w)]]
    OBVIOUS
  <2>2. G \in [1 .. n -> [E -> E]]
    BY <1>5, <1>6, <2>1
  <2>3. PICK f \in [0 .. n -> E] : f[0] = one /\ \A i \in 1 .. n : f[i] = G[i][f[i-1]]
    BY <1>4, <2>2, RunsExist
  <2>4. ASSUME NEW i \in 1 .. n PROVE f[i] = Folded(f[i-1], v[i], w)
    <3>1. f[i-1] \in E
      OBVIOUS
    <3>2. QED
      BY <2>1, <2>3, <3>1
  <2>5. f = [i \in 0 .. n |-> f[i]] /\ \A i \in 0 .. n : f[i] = IF i = 0 THEN one ELSE Folded(f[i-1], v[i], w)
    BY <2>3, <2>4
  <2>6. Runs(f)
    BY <2>5
  <2>7. QED
    BY <2>6
<1>8. PICK f : f = CHOOSE g : Runs(g)
  OBVIOUS
<1>9. f[0] = one /\ \A i \in 1 .. n : f[i] = Folded(f[i-1], v[i], w)
  <2>1. Runs(f)
    BY <1>7, <1>8
  <2>2. QED
    BY <2>1
<1>10. WrapValue(v, w) = f[n]
  BY <1>0, <1>2, <1>8 DEF WrapValue
<1> HIDE DEF Runs
<1> DEFINE Kept(s, t) == s \in Seq(Seq(C)) /\ s # <<>> /\ \E e : Places(e, t, s)
           T == {k \in Nat : Kept(f[k], SubSeq(v, 1, k))}
<1>11. 0 \in T
  <2>1. PICK x : x = <<>>
    OBVIOUS
  <2>2. SubSeq(v, 1, 0) = x /\ f[0] = one
    BY <1>9, <2>1, SubSeqEmpty
  <2>3. Kept(one, x)
    BY <1>3, <2>1
  <2> HIDE DEF Kept
  <2>4. QED
    BY <2>2, <2>3
<1>12. ASSUME NEW k \in 0 .. n - 1, k \in T PROVE k + 1 \in T
  <2>1. k + 1 \in 1 .. n /\ (k + 1) - 1 = k /\ k + 1 \in Nat /\ k \in 0 .. Len(v) - 1 /\ k \in 0 .. Len(v)
    BY <1>0
  <2>2. PICK s : s = f[k]
    OBVIOUS
  <2>3. PICK t : t = SubSeq(v, 1, k)
    OBVIOUS
  <2>4. PICK c : c = v[k+1]
    OBVIOUS
  <2>5. c \in C /\ t \in Seq(C) /\ Kept(s, t) /\ f[k+1] = Folded(s, c, w)
    <3>1. c \in C
      BY <1>5, <2>1, <2>4
    <3>2. t \in Seq(C)
      <4>1. \A i \in 1 .. k : v[i] \in C
        BY <1>5, <2>1
      <4>2. QED
        BY <2>1, <2>3, <4>1, SubSeqProperties
    <3>3. Kept(s, t)
      BY <1>12, <2>2, <2>3
    <3>4. f[k+1] = Folded(s, c, w)
      BY <1>9, <2>1, <2>2, <2>4
    <3>5. QED
      BY <3>1, <3>2, <3>3, <3>4
  <2>6. PICK q : q = Folded(s, c, w)
    OBVIOUS
  <2>7. Kept(q, Append(t, c))
    BY <2>5, <2>6, FoldedIs
  <2>8. Append(t, c) = SubSeq(v, 1, k + 1)
    BY <2>1, <2>3, <2>4, OneMore
  <2> HIDE DEF Kept
  <2>9. QED
    BY <2>1, <2>5, <2>6, <2>7, <2>8
<1>13. n \in T
  <2> HIDE DEF T
  <2>1. 0 \in Nat /\ n \in 0 .. n
    OBVIOUS
  <2>2. \A k \in 0 .. n - 1 : k \in T => k + 1 \in T
    BY <1>12
  <2>3. \A k \in 0 .. n : k \in T
    BY <1>11, <2>1, <2>2, FromTo
  <2>4. QED
    BY <2>1, <2>3
<1>14. PICK segs : segs = WrapValue(v, w)
  OBVIOUS
<1>15. Kept(segs, v)
  <2>1. SubSeq(v, 1, n) = v
    BY <1>0, SubSeqFull
  <2>2. QED
    BY <1>10, <1>13, <1>14, <2>1
<1>16. FlattenSeq(segs) = v
  <2>1. PICK e : Places(e, v, segs)
    BY <1>15
  <2>2. segs \in Seq(Seq(C))
    BY <1>15
  <2>3. PICK t, g : t \in Seq(C) /\ t = FlattenSeq(segs) /\ Places(g, t, segs)
    BY <2>2, FlattenIs
  <2>4. QED
    BY <2>1, <2>2, <2>3, FlattenOnce
<1>17. QED
  BY <1>14, <1>15, <1>16

\* What comes after a beginning is all but it.
LEMMA AfterBeginning ==
  ASSUME NEW C, NEW p \in Seq(C), NEW y \in Seq(C)
  PROVE  SubSeq(p \o y, Len(p) + 1, Len(p \o y)) = y
<1>1. PICK m \in Nat, n \in Nat : m = Len(p) /\ n = Len(y)
  BY LenProperties
<1>2. PICK u : u = p \o y
  OBVIOUS
<1>3. u \in Seq(C) /\ Len(u) = m + n /\ Stands(u, m, y)
  BY <1>1, <1>2, Joined
<1>4. PICK s : s = SubSeq(u, m + 1, m + n)
  OBVIOUS
<1>5. \A i \in 1 .. m + n : u[i] \in C
  BY <1>3, ElementOfSeq
<1>6. s \in Seq(C) /\ Len(s) = n /\ \A i \in 1 .. n : s[i] = u[m+i]
  <2>1. m + 1 \in Int /\ m + n \in Int /\ \A i \in m + 1 .. m + n : u[i] \in C
    BY <1>5
  <2>2. PICK a \in Int, b \in Int : a = m + 1 /\ b = m + n
    OBVIOUS
  <2>3. /\ s \in Seq(C)
        /\ Len(s) = IF a <= b THEN b - a + 1 ELSE 0
        /\ \A i \in 1 .. b - a + 1 : s[i] = u[a+i-1]
    BY <1>4, <2>1, <2>2, SubSeqProperties
  <2>4. b - a + 1 = n /\ (a <= b <=> n > 0) /\ \A i \in 1 .. n : a + i - 1 = m + i
    BY <2>2
  <2>5. Len(s) = n
    BY <2>3, <2>4
  <2>6. QED
    BY <2>3, <2>4, <2>5
<1>7. s = y
  <2>1. \A i \in 1 .. n : s[i] = y[i]
    BY <1>1, <1>3, <1>6 DEF Stands
  <2>2. QED
    BY <1>1, <1>6, <2>1, SeqEqual
<1>8. QED
  BY <1>1, <1>2, <1>3, <1>4, <1>7

\* A filling has the length asked for.
LEMMA FillIs ==
  ASSUME NEW C, NEW c \in C, NEW n \in Nat
  PROVE  Fill(c, n) \in Seq(C) /\ Len(Fill(c, n)) = n
<1>1. PICK d : d = Fill(c, n)
  OBVIOUS
<1>2. d \in [1 .. n -> C]
  BY <1>1 DEF Fill
<1>3. d \in Seq(C)
  BY <1>2, FunctionIsSeq
<1>4. QED
  BY <1>1, <1>2, <1>3, LenProperties

\* The characters drawn around values, and those of a missing one.
Drawn(C) == " " \in C /\ "|" \in C /\ "N" \in C /\ "U" \in C /\ "L" \in C
Bar == <<" ", "|", " ">>

\* They are characters, and what is drawn of them are texts.
LEMMA DrawnIs ==
  ASSUME NEW C, Drawn(C)
  PROVE  Bar \in Seq(C) /\ Len(Bar) = 3 /\ Null \in Seq(C) /\ \A n \in Nat : Blanks(n) \in Seq(C) /\ Len(Blanks(n)) = n
<1>1. PICK a, b : a = " " /\ b = "|" /\ a \in C /\ b \in C
  BY DEF Drawn
<1>2. Bar = <<a, b, a>>
  BY <1>1 DEF Bar
<1>3. Bar \in Seq(C) /\ Len(Bar) = 3
  <2>1. a \in C /\ b \in C
    BY <1>1
  <2>2. QED
    BY <1>2, <2>1
<1>4. ASSUME NEW n \in Nat PROVE Blanks(n) \in Seq(C) /\ Len(Blanks(n)) = n
  <2>1. Blanks(n) = Fill(a, n)
    BY <1>1 DEF Blanks
  <2>2. a \in C
    BY <1>1
  <2>3. QED
    BY <2>1, <2>2, FillIs
<1>5. Null \in Seq(C)
  <2>1. PICK x, y, z : x = "N" /\ y = "U" /\ z = "L" /\ x \in C /\ y \in C /\ z \in C
    BY DEF Drawn
  <2>2. Null = <<x, y, z, z>>
    BY <2>1 DEF Null
  <2>3. x \in C /\ y \in C /\ z \in C
    BY <2>1
  <2>4. QED
    BY <2>2, <2>3
<1>6. QED
  BY <1>3, <1>4, <1>5

\* Before the value of a field stands the name, padded, or as many blanks.
Beginning(r, i, k) ==
  IF k = 1 THEN PadChars(r.columns[i], LabelWidth(r)) \o Bar ELSE Blanks(LabelWidth(r) + 3)

\* It has the same length in every line, whatever the name.
LEMMA BeginningIs ==
  ASSUME NEW C, Drawn(C), NEW r, r.columns \in Seq(Seq(C)), NEW i \in DOMAIN r.columns, NEW k
  PROVE  Beginning(r, i, k) \in Seq(C) /\ Len(Beginning(r, i, k)) = LabelWidth(r) + 3
<1>1. PICK w \in Nat : w = LabelWidth(r) /\ ByteLen(r.columns[i]) <= w
  BY LabelIs
<1>2. PICK name : name = r.columns[i]
  OBVIOUS
<1>3. name \in Seq(C)
  <2>1. PICK E, s : E = Seq(C) /\ s = r.columns
    OBVIOUS
  <2>2. s \in Seq(E) /\ i \in DOMAIN s
    BY <2>1
  <2>3. s[i] \in E
    BY <2>2, LenProperties, ElementOfSeq
  <2>4. QED
    BY <1>2, <2>1, <2>3
<1>4. PICK m \in Nat : m = Len(name) /\ m <= w
  <2>1. ByteLen(name) \in Nat /\ Len(name) <= ByteLen(name) /\ Len(name) \in Nat
    BY <1>3, ByteLenIs, LenProperties
  <2>2. QED
    BY <1>1, <1>2, <2>1
<1>5. CASE k = 1
  <2>1. PICK blank, bar : blank = Blanks(w - m) /\ bar = Bar
    OBVIOUS
  <2>2. blank \in Seq(C) /\ Len(blank) = w - m
    <3>1. PICK n \in Nat : n = w - m
      BY <1>1, <1>4
    <3>2. QED
      BY <2>1, <3>1, DrawnIs
  <2>3. bar \in Seq(C) /\ Len(bar) = 3
    BY <2>1, DrawnIs
  <2>4. name \o blank \in Seq(C) /\ Len(name \o blank) = w
    <3>1. name \o blank \in Seq(C) /\ Len(name \o blank) = m + (w - m)
      BY <1>3, <1>4, <2>2, ConcatProperties
    <3>2. QED
      BY <3>1
  <2>5. PICK left : left = name \o blank
    OBVIOUS
  <2>6. left \o bar \in Seq(C) /\ Len(left \o bar) = w + 3
    <3>1. left \in Seq(C) /\ bar \in Seq(C) /\ Len(left) = w /\ Len(bar) = 3
      BY <2>3, <2>4, <2>5
    <3>2. left \o bar \in Seq(C) /\ Len(left \o bar) = Len(left) + Len(bar)
      BY <3>1, ConcatProperties
    <3>3. QED
      BY <3>1, <3>2
  <2>7. Beginning(r, i, k) = left \o bar
    BY <1>1, <1>2, <1>4, <1>5, <2>1, <2>5 DEF Beginning, PadChars
  <2>8. QED
    BY <1>1, <2>6, <2>7
<1>6. CASE k # 1
  <2>1. PICK n \in Nat : n = w + 3
    OBVIOUS
  <2>2. Beginning(r, i, k) = Blanks(n)
    BY <1>1, <1>6, <2>1 DEF Beginning
  <2>3. QED
    BY <1>1, <2>1, <2>2, DrawnIs
<1>7. QED
  BY <1>5, <1>6

\* What stands behind the beginnings of a field is its value.
LEMMA FieldIsWhole ==
  ASSUME NEW C, Drawn(C), NEW r, r.columns \in Seq(Seq(C)), NEW i \in DOMAIN r.columns,
         NEW row, ValueAt(row, i) \in Seq(C), ~Lone(ValueAt(row, i), Room(r))
  PROVE  Unfolded(r, row, i) = ValueAt(row, i)
<1>1. PICK v, w, segs : v = ValueAt(row, i) /\ w = Room(r) /\ segs = WrapValue(v, w)
  OBVIOUS
<1>2. segs \in Seq(Seq(C)) /\ FlattenSeq(segs) = v
  <2>1. v \in Seq(C)
    BY <1>1
  <2>2. QED
    BY <1>1, <2>1, WrapIs
<1>3. PICK n \in Nat : DOMAIN segs = 1 .. n /\ segs = [k \in 1 .. n |-> segs[k]] /\ \A k \in 1 .. n : segs[k] \in Seq(C)
  <2>1. PICK E : E = Seq(C)
    OBVIOUS
  <2>2. segs \in Seq(E)
    BY <1>2, <2>1
  <2>3. Len(segs) \in Nat /\ DOMAIN segs = 1 .. Len(segs) /\ segs \in [1 .. Len(segs) -> E]
    BY <2>2, LenProperties
  <2>4. QED
    BY <2>1, <2>3
<1>4. \A k \in 1 .. n : Normalize(segs[k]) = segs[k]
  BY <1>1, <1>3 DEF Lone, Normalize
<1>5. PICK field : field = Field(r, row, i)
  OBVIOUS
<1>6. field = [k \in 1 .. n |-> Beginning(r, i, k) \o segs[k]]
  BY <1>1, <1>3, <1>4, <1>5 DEF Field, Beginning, Bar
<1>7. PICK l \in Nat : l = LabelWidth(r)
  BY LabelIs
<1>8. ASSUME NEW k \in 1 .. n PROVE SubSeq(field[k], l + 4, Len(field[k])) = segs[k]
  <2>1. PICK p, y : p = Beginning(r, i, k) /\ y = segs[k]
    OBVIOUS
  <2>2. p \in Seq(C) /\ Len(p) = l + 3 /\ y \in Seq(C)
    BY <1>3, <1>7, <2>1, BeginningIs
  <2>3. field[k] = p \o y /\ Len(p) + 1 = l + 4
    BY <1>6, <2>1, <2>2
  <2>4. SubSeq(p \o y, Len(p) + 1, Len(p \o y)) = y
    BY <2>2, AfterBeginning
  <2>5. QED
    BY <2>1, <2>3, <2>4
<1>9. [k \in DOMAIN field |-> SubSeq(field[k], l + 4, Len(field[k]))] = segs
  <2>1. DOMAIN field = 1 .. n
    BY <1>6
  <2>2. QED
    BY <1>3, <1>8, <2>1
<1>10. Unfolded(r, row, i) = FlattenSeq(segs)
  BY <1>5, <1>7, <1>9 DEF Unfolded
<1>11. QED
  BY <1>1, <1>2, <1>10

\* Expanded display shows every value whole, whatever the names, the values and the
\* width of the terminal, unless a segment of it reads t or f.
THEOREM ExpandedHolds == Spec => []ExpandedIsWhole
<1>1. IInv => ExpandedIsWhole
  <2> SUFFICES ASSUME result \in Results, NEW row \in ToSet(result.rows), NEW i \in DOMAIN result.columns,
                      ~Lone(ValueAt(row, i), Room(result))
               PROVE  Unfolded(result, row, i) = ValueAt(row, i)
    BY DEF IInv, Replied, ExpandedIsWhole
  <2>1. PICK r : r = result
    OBVIOUS
  <2>2. PICK C : r.columns \in Seq(Seq(C)) /\ r.rows \in Seq(Seq(Seq(C)))
    BY <2>1, TableIs
  <2>3. PICK D : D = C \union {"N", "U", "L", " ", "|"}
    OBVIOUS
  <2>4. C \subseteq D /\ Drawn(D)
    BY <2>3 DEF Drawn
  <2>5. \A v \in Seq(C) : v \in Seq(D)
    BY <2>4, SeqWithin
  <2>6. r.columns \in Seq(Seq(D))
    <3>1. PICK A, B : A = Seq(C) /\ B = Seq(D)
      OBVIOUS
    <3>2. A \subseteq B /\ r.columns \in Seq(A)
      BY <2>2, <2>5, <3>1
    <3>3. r.columns \in Seq(B)
      BY <3>2, SeqWithin
    <3>4. QED
      BY <3>1, <3>3
  <2>7. ValueAt(row, i) \in Seq(D)
    <3>1. PICK A : A = Seq(C)
      OBVIOUS
    <3>2. row \in Seq(A)
      <4>1. PICK B, s : B = Seq(A) /\ s = r.rows
        OBVIOUS
      <4>2. s \in Seq(B) /\ row \in ToSet(s)
        BY <2>1, <2>2, <3>1, <4>1
      <4>3. PICK j \in DOMAIN s : row = s[j]
        BY <4>2 DEF ToSet
      <4>4. s[j] \in B
        BY <4>2, LenProperties, ElementOfSeq
      <4>5. QED
        BY <4>1, <4>3, <4>4
    <3>3. CASE i \in DOMAIN row
      <4>1. row[i] \in A
        BY <3>2, <3>3, LenProperties, ElementOfSeq
      <4>2. ValueAt(row, i) = row[i]
        BY <3>3 DEF ValueAt
      <4>3. QED
        BY <2>5, <3>1, <4>1, <4>2
    <3>4. CASE i \notin DOMAIN row
      BY <2>4, <3>4, DrawnIs DEF ValueAt
    <3>5. QED
      BY <3>3, <3>4
  <2>8. ~Lone(ValueAt(row, i), Room(r)) /\ i \in DOMAIN r.columns
    BY <2>1
  <2>9. Unfolded(r, row, i) = ValueAt(row, i)
    BY <2>4, <2>6, <2>7, <2>8, FieldIsWhole
  <2>10. QED
    BY <2>1, <2>9
<1>2. QED
  BY <1>1, InductiveInvariant, PTL

-----------------------------------------------------------------------------
(***************************************************************************)
(* Completion: taking a suggestion keeps what was typed.  Everything that  *)
(* is offered is a word, and suits the token at the cursor: it begins with *)
(* it, or, after a qualifier, with what is behind the dot.  An open menu   *)
(* suits the line it stands over, which every step keeps.                  *)
(***************************************************************************)

\* The characters, and the texts that are one word.
Letters == ToSet(Alphabet)
Word == {w \in Text : \A i \in 1 .. Len(w) : w[i] # Blank}

\* The elements of a sequence that some of its places give, in order.
LEMMA PickedOut ==
  ASSUME NEW S, NEW n \in Nat, NEW parts, parts = [i \in 1 .. n |-> parts[i]],
         \A i \in 1 .. n : parts[i] = <<>> \/ \E x \in S : parts[i] = <<x>>
  PROVE  FlattenSeq(parts) \in Seq(S)
<1>1. ASSUME NEW i \in 1 .. n PROVE parts[i] \in Seq(S)
  <2>1. <<>> \in Seq(S) /\ \A x \in S : <<x>> \in Seq(S)
    OBVIOUS
  <2>2. QED
    BY <2>1, Zenon
<1>2. parts \in [1 .. n -> Seq(S)]
  BY <1>1
<1>3. parts \in Seq(Seq(S))
  BY <1>2, FunctionIsSeq
<1>4. QED
  BY <1>3, FlattenIs

\* A text is cut at places of it, and at its ends.
LEMMA CutsAre ==
  ASSUME NEW S, NEW s \in Seq(S), NEW n \in Nat, n = Len(s), NEW c
  PROVE  Cuts(s, c) \in Seq(0 .. n + 1) /\ Len(Cuts(s, c)) - 1 \in Nat
<1>1. PICK d : d = Indices(s)
  OBVIOUS
<1>2. DOMAIN d = 1 .. n /\ \A i \in 1 .. n : d[i] = i
  BY <1>1, LenProperties DEF Indices
<1>3. PICK parts : parts = [i \in DOMAIN d |-> IF s[d[i]] = c THEN <<d[i]>> ELSE <<>>]
  OBVIOUS
<1>4. Where(d, LAMBDA i : s[i] = c) = FlattenSeq(parts)
  BY <1>3 DEF Where, Flat, Each
<1>5. PICK found : found = FlattenSeq(parts)
  OBVIOUS
<1>6. found \in Seq(0 .. n + 1)
  BY <1>2, <1>3, <1>5, PickedOut
<1>7. PICK cuts : cuts = <<0>> \o found \o <<n + 1>>
  OBVIOUS
<1>8. Cuts(s, c) = cuts
  BY <1>1, <1>4, <1>5, <1>7 DEF Cuts
<1>9. <<0>> \in Seq(0 .. n + 1) /\ <<n + 1>> \in Seq(0 .. n + 1)
  OBVIOUS
<1>10. cuts \in Seq(0 .. n + 1)
  BY <1>6, <1>7, <1>9, ConcatProperties
<1>11. Len(found) \in Nat /\ Len(<<0>> \o found) = 1 + Len(found)
  BY <1>6
<1>12. Len(cuts) = 1 + Len(found) + 1
  BY <1>6, <1>7, <1>11
<1>13. QED
  BY <1>8, <1>10, <1>11, <1>12

\* The parts of a text are texts.
LEMMA SplitIs ==
  ASSUME NEW S, NEW s \in Seq(S), NEW c
  PROVE  SplitOn(s, c) \in Seq(Seq(S))
<1>1. PICK n \in Nat : n = Len(s)
  BY LenProperties
<1>2. PICK cuts : cuts = Cuts(s, c)
  OBVIOUS
<1>3. cuts \in Seq(0 .. n + 1) /\ Len(cuts) - 1 \in Nat
  BY <1>1, <1>2, CutsAre
<1>4. SplitOn(s, c) = [k \in 1 .. Len(cuts) - 1 |-> SubSeq(s, cuts[k] + 1, cuts[k+1] - 1)]
  BY <1>2 DEF SplitOn
<1>5. PICK m \in Nat : m = Len(cuts)
  BY <1>3, LenProperties
<1>6. m - 1 \in Nat
  BY <1>3, <1>5
<1>7. ASSUME NEW k \in 1 .. m - 1 PROVE SubSeq(s, cuts[k] + 1, cuts[k+1] - 1) \in Seq(S)
  <2>1. k \in 1 .. m /\ k + 1 \in 1 .. m
    BY <1>5
  <2>2. PICK a \in 0 .. n + 1, b \in 0 .. n + 1 : a = cuts[k] /\ b = cuts[k+1]
    BY <1>3, <1>5, <2>1, ElementOfSeq
  <2>3. \A i \in a + 1 .. b - 1 : s[i] \in S
    <3>1. \A i \in a + 1 .. b - 1 : i \in 1 .. n
      OBVIOUS
    <3>2. QED
      BY <1>1, <3>1, ElementOfSeq
  <2>4. a + 1 \in Int /\ b - 1 \in Int
    OBVIOUS
  <2>5. SubSeq(s, a + 1, b - 1) \in Seq(S)
    BY <2>3, <2>4, SubSeqProperties
  <2>6. QED
    BY <2>2, <2>5
<1>8. [k \in 1 .. m - 1 |-> SubSeq(s, cuts[k] + 1, cuts[k+1] - 1)] \in [1 .. m - 1 -> Seq(S)]
  BY <1>7
<1>9. QED
  BY <1>4, <1>5, <1>6, <1>8, FunctionIsSeq

\* From the start of a word up to its end there is no blank.
LEMMA WordFromIs ==
  ASSUME NEW s \in Text, NEW n \in Nat, n = Len(s), NEW i \in 1 .. n, s[i] # Blank
  PROVE  WordFrom(s, i) \in Word
<1>1. i \in Nat
  OBVIOUS
<1>2. PICK ends : ends = {j \in i .. n : j = n \/ s[j+1] = Blank}
  OBVIOUS
<1>3. n \in ends /\ ends \subseteq Nat
  BY <1>1, <1>2
<1>4. \E m \in ends : \A k \in ends : m <= k
  BY <1>3, LeastPlace
<1>5. PICK e : e = Min(ends)
  OBVIOUS
<1>6. e \in ends /\ \A k \in ends : e <= k
  BY <1>4, <1>5 DEF Min
<1>7. WordFrom(s, i) = SubSeq(s, i, e)
  BY <1>1, <1>2, <1>5 DEF WordFrom
<1>8. e \in i .. n
  BY <1>2, <1>6
<1>9. \A k \in i .. e : s[k] \in Letters /\ s[k] # Blank
  <2>1. ASSUME NEW k \in i .. e PROVE s[k] \in Letters /\ s[k] # Blank
    <3>1. k \in 1 .. n
      BY <1>1, <1>8
    <3>2. s[k] \in Letters
      BY <1>1, <3>1, ElementOfSeq DEF Text, Letters
    <3>3. CASE k = i
      BY <3>2, <3>3
    <3>4. CASE k # i
      <4>1. k - 1 \in i .. n /\ ~(e <= k - 1) /\ (k - 1) + 1 = k
        BY <1>1, <1>8, <3>4
      <4>2. k - 1 \notin ends
        BY <1>6, <4>1
      <4>3. QED
        BY <1>2, <3>2, <4>1, <4>2
    <3>5. QED
      BY <3>3, <3>4
  <2>2. QED
    BY <2>1
<1>10. PICK w : w = SubSeq(s, i, e)
  OBVIOUS
<1>11. i \in Int /\ e \in Int
  BY <1>1, <1>8
<1>12. w \in Seq(Letters) /\ Len(w) = e - i + 1 /\ \A k \in 1 .. e - i + 1 : w[k] = s[i+k-1]
  <2>1. i <= e
    BY <1>8
  <2>2. \A k \in i .. e : s[k] \in Letters
    BY <1>9
  <2>3. QED
    BY <1>10, <1>11, <2>1, <2>2, SubSeqProperties
<1>13. \A k \in 1 .. Len(w) : w[k] # Blank
  <2>1. ASSUME NEW k \in 1 .. e - i + 1 PROVE i + k - 1 \in i .. e
    BY <1>11
  <2>2. QED
    BY <1>9, <1>12, <2>1
<1>14. QED
  BY <1>7, <1>10, <1>12, <1>13 DEF Word, Text, Letters

\* The words of a text are words.
LEMMA WordsAre ==
  ASSUME NEW s \in Text
  PROVE  Words(s) \in Seq(Word)
<1>1. PICK n \in Nat : n = Len(s)
  BY LenProperties DEF Text, Letters
<1>2. PICK d : d = Indices(s)
  OBVIOUS
<1>3. DOMAIN d = 1 .. n /\ \A i \in 1 .. n : d[i] = i
  BY <1>1, <1>2, LenProperties DEF Indices, Text, Letters
<1>4. PICK parts : parts = [i \in DOMAIN d |->
                              IF s[d[i]] # Blank /\ (d[i] = 1 \/ s[d[i]-1] = Blank) THEN <<d[i]>> ELSE <<>>]
  OBVIOUS
<1>5. PICK starts : starts = Where(d, LAMBDA i : s[i] # Blank /\ (i = 1 \/ s[i-1] = Blank))
  OBVIOUS
<1>6. starts = FlattenSeq(parts)
  BY <1>4, <1>5 DEF Where, Flat, Each
<1> DEFINE Begun == {i \in 1 .. n : s[i] # Blank}
<1>7. FlattenSeq(parts) \in Seq(Begun)
  <2>1. \A i \in 1 .. n : parts[i] = <<>> \/ \E x \in Begun : parts[i] = <<x>>
    BY <1>3, <1>4
  <2>2. parts = [i \in 1 .. n |-> parts[i]]
    BY <1>3, <1>4
  <2>3. QED
    BY <2>1, <2>2, PickedOut
<1>8. Words(s) = [k \in DOMAIN starts |-> WordFrom(s, starts[k])]
  BY <1>2, <1>5 DEF Words, Each
<1>9. Len(starts) \in Nat /\ DOMAIN starts = 1 .. Len(starts) /\ \A k \in 1 .. Len(starts) : starts[k] \in Begun
  BY <1>6, <1>7, LenProperties, ElementOfSeq
<1>10. \A k \in 1 .. Len(starts) : WordFrom(s, starts[k]) \in Word
  BY <1>1, <1>9, WordFromIs
<1>11. [k \in 1 .. Len(starts) |-> WordFrom(s, starts[k])] \in [1 .. Len(starts) -> Word]
  BY <1>10
<1>12. QED
  BY <1>8, <1>9, <1>11, FunctionIsSeq

\* The greatest of the first numbers in a set is in it.
LEMMA GreatestPlace ==
  ASSUME NEW n \in Nat, NEW T, T \subseteq 0 .. n, T # {}
  PROVE  \E m \in T : \A k \in T : k <= m
<1> DEFINE U == {n - k : k \in T}
<1>1. U \subseteq Nat /\ U # {}
  <2>1. \A k \in T : n - k \in Nat
    OBVIOUS
  <2>2. QED
    BY <2>1
<1>2. PICK u \in U : \A k \in U : u <= k
  BY <1>1, LeastPlace
<1>3. PICK m \in T : u = n - m
  BY <1>2
<1>4. ASSUME NEW k \in T PROVE k <= m
  <2>1. n - k \in U /\ k \in Nat /\ m \in Nat
    BY <1>3
  <2>2. u <= n - k
    BY <1>2, <2>1
  <2>3. QED
    BY <1>3, <2>1, <2>2
<1>5. QED
  BY <1>4

\* The last place of a character in a text, 0 if it has none.
LastAt(s, c, k) == (k = 0 \/ s[k] = c) /\ \A i \in 1 .. Len(s) : s[i] = c => i <= k

\* There is such a place.
LEMMA LastExists ==
  ASSUME NEW n \in Nat, NEW s, n = Len(s), NEW c
  PROVE  \E k \in 0 .. n : LastAt(s, c, k)
<1> DEFINE T == {i \in 1 .. n : s[i] = c}
<1>1. CASE T = {}
  <2>1. LastAt(s, c, 0)
    BY <1>1 DEF LastAt
  <2>2. QED
    BY <2>1
<1>2. CASE T # {}
  <2>1. T \subseteq 0 .. n
    OBVIOUS
  <2>2. PICK m \in T : \A k \in T : k <= m
    BY <1>2, <2>1, GreatestPlace
  <2>3. LastAt(s, c, m) /\ m \in 0 .. n
    BY <2>2 DEF LastAt
  <2>4. QED
    BY <2>3
<1>3. QED
  BY <1>1, <1>2

\* What is behind a character is behind the last place of it.
LEMMA BehindIs ==
  ASSUME NEW n \in Nat, NEW s, n = Len(s), NEW c, NEW k \in 0 .. n, LastAt(s, c, k)
  PROVE  Behind(s, c) = SubSeq(s, k + 1, n)
<1>1. PICK T : T = {i \in 1 .. n : s[i] = c}
  OBVIOUS
<1>2. SelectLastInSeq(s, LAMBDA x : x = c) = IF T # {} THEN Max(T) ELSE 0
  BY <1>1 DEF SelectLastInSeq
<1>3. CASE k = 0
  <2>1. T = {}
    BY <1>1, <1>3 DEF LastAt
  <2>2. QED
    BY <1>2, <1>3, <2>1 DEF Behind
<1>4. CASE k # 0
  <2>1. k \in T /\ T \subseteq Nat /\ \A i \in T : k >= i
    BY <1>1, <1>4 DEF LastAt
  <2>2. Max(T) \in T /\ \A i \in T : Max(T) >= i
    BY <2>1 DEF Max
  <2>3. Max(T) = k
    <3>1. PICK m : m = Max(T)
      OBVIOUS
    <3>2. m \in Nat /\ k \in Nat /\ m >= k /\ k >= m
      BY <2>1, <2>2, <3>1
    <3>3. QED
      BY <3>1, <3>2
  <2>4. QED
    BY <1>2, <2>1, <2>3 DEF Behind
<1>5. QED
  BY <1>3, <1>4

\* It is a text, without that character, which ends the one that it is of.
LEMMA BehindText ==
  ASSUME NEW n \in Nat, NEW C, NEW s \in Seq(C), n = Len(s), NEW c, NEW k \in 0 .. n, LastAt(s, c, k)
  PROVE  /\ Behind(s, c) \in Seq(C) /\ Len(Behind(s, c)) = n - k
         /\ \A i \in 1 .. n - k : Behind(s, c)[i] = s[k+i] /\ s[k+i] # c
<1>1. PICK w : w = SubSeq(s, k + 1, n)
  OBVIOUS
<1>2. Behind(s, c) = w
  BY <1>1, BehindIs
<1>3. \A i \in k + 1 .. n : s[i] \in C
  <2>1. \A i \in k + 1 .. n : i \in 1 .. n
    OBVIOUS
  <2>2. QED
    BY <2>1, ElementOfSeq
<1>4. k + 1 \in Int /\ n \in Int /\ n - (k + 1) + 1 = n - k
  OBVIOUS
<1>5. /\ w \in Seq(C) /\ Len(w) = IF k + 1 <= n THEN n - (k + 1) + 1 ELSE 0
      /\ \A i \in 1 .. n - (k + 1) + 1 : w[i] = s[k+1+i-1]
  BY <1>1, <1>3, <1>4, SubSeqProperties
<1>6. Len(w) = n - k
  BY <1>4, <1>5
<1>7. ASSUME NEW i \in 1 .. n - k PROVE w[i] = s[k+i] /\ s[k+i] # c
  <2>1. k + 1 + i - 1 = k + i /\ k + i \in 1 .. n /\ ~(k + i <= k)
    OBVIOUS
  <2>2. QED
    BY <1>4, <1>5, <2>1 DEF LastAt
<1>8. QED
  BY <1>2, <1>5, <1>6, <1>7

\* The part of a word behind a character is a word.
LEMMA BehindWord ==
  ASSUME NEW w \in Word, NEW c
  PROVE  Behind(w, c) \in Word
<1>1. PICK n \in Nat : n = Len(w)
  BY LenProperties DEF Word, Text, Letters
<1>2. PICK k \in 0 .. n : LastAt(w, c, k)
  BY <1>1, LastExists
<1>3. PICK b : b = Behind(w, c)
  OBVIOUS
<1>4. w \in Seq(Letters) /\ \A i \in 1 .. n : w[i] # Blank
  BY <1>1 DEF Word, Text, Letters
<1>5. b \in Seq(Letters) /\ Len(b) = n - k /\ \A i \in 1 .. n - k : b[i] = w[k+i]
  BY <1>1, <1>2, <1>3, <1>4, BehindText
<1>6. \A i \in 1 .. n - k : k + i \in 1 .. n
  OBVIOUS
<1>7. QED
  BY <1>3, <1>4, <1>5, <1>6 DEF Word, Text, Letters

Clause == [key : Letters, items : Seq(Seq(Word))]

\* The items of a text, words between commas.
LEMMA ItemsAre ==
  ASSUME NEW s \in Text
  PROVE  Each(SplitOn(s, ","), Words) \in Seq(Seq(Word))
<1>1. PICK parts : parts = SplitOn(s, ",")
  OBVIOUS
<1>2. parts \in Seq(Text)
  BY <1>1, SplitIs DEF Text, Letters
<1>3. PICK n \in Nat : n = Len(parts)
  BY <1>2, LenProperties
<1>4. DOMAIN parts = 1 .. n /\ \A i \in 1 .. n : parts[i] \in Text
  BY <1>2, <1>3, LenProperties, ElementOfSeq
<1>5. Each(parts, Words) = [i \in DOMAIN parts |-> Words(parts[i])]
  BY DEF Each
<1>6. [i \in 1 .. n |-> Words(parts[i])] \in [1 .. n -> Seq(Word)]
  BY <1>4, WordsAre
<1>7. QED
  BY <1>1, <1>4, <1>5, <1>6, FunctionIsSeq

\* The clauses of a text are made of its words.
LEMMA ClausesAre ==
  ASSUME NEW s \in Text
  PROVE  Clauses(s) \in Seq(Clause)
<1>1. PICK n \in Nat : n = Len(s)
  BY LenProperties DEF Text, Letters
<1>2. PICK d : d = Indices(s)
  OBVIOUS
<1>3. DOMAIN d = 1 .. n /\ \A i \in 1 .. n : d[i] = i
  BY <1>1, <1>2, LenProperties DEF Indices, Text, Letters
<1>4. PICK parts : parts = [i \in DOMAIN d |->
         IF /\ s[d[i]] \in Keywords
            /\ d[i] = 1 \/ s[d[i]-1] = Blank
            /\ d[i] = Len(s) \/ s[d[i]+1] = Blank
         THEN <<d[i]>> ELSE <<>>]
  OBVIOUS
<1>5. PICK starts : starts = Where(d, LAMBDA i : /\ s[i] \in Keywords
                                                 /\ i = 1 \/ s[i-1] = Blank
                                                 /\ i = Len(s) \/ s[i+1] = Blank)
  OBVIOUS
<1>6. starts = FlattenSeq(parts)
  BY <1>4, <1>5 DEF Where, Flat, Each
<1>7. starts \in Seq(1 .. n)
  <2>1. \A i \in 1 .. n : parts[i] = <<>> \/ \E x \in 1 .. n : parts[i] = <<x>>
    BY <1>3, <1>4
  <2>2. parts = [i \in 1 .. n |-> parts[i]]
    BY <1>3, <1>4
  <2>3. QED
    BY <1>6, <2>1, <2>2, PickedOut
<1>8. PICK m \in Nat : m = Len(starts)
  BY <1>7, LenProperties
<1>9. DOMAIN starts = 1 .. m /\ \A k \in 1 .. m : starts[k] \in 1 .. n
  BY <1>7, <1>8, LenProperties, ElementOfSeq
<1>10. PICK e : e = [k \in 1 .. m |-> IF k = m THEN n ELSE starts[k+1] - 1]
  OBVIOUS
<1>11. Clauses(s) = [k \in DOMAIN starts |->
                       [key |-> s[starts[k]],
                        items |-> Each(SplitOn(SubSeq(s, starts[k] + 1,
                                    IF k = Len(starts) THEN Len(s) ELSE starts[k+1] - 1), ","), Words)]]
  BY <1>2, <1>5 DEF Clauses
<1>12. ASSUME NEW k \in 1 .. m
       PROVE  [key |-> s[starts[k]],
               items |-> Each(SplitOn(SubSeq(s, starts[k] + 1,
                           IF k = Len(starts) THEN Len(s) ELSE starts[k+1] - 1), ","), Words)] \in Clause
  <2>1. PICK b \in 0 .. n : b = IF k = Len(starts) THEN Len(s) ELSE starts[k+1] - 1
    <3>1. CASE k = m
      BY <1>1, <1>8, <3>1
    <3>2. CASE k # m
      <4>1. k + 1 \in 1 .. m
        BY <3>2
      <4>2. starts[k+1] \in 1 .. n
        BY <1>9, <4>1
      <4>3. starts[k+1] - 1 \in 0 .. n
        BY <4>2
      <4>4. QED
        BY <1>8, <3>2, <4>3
    <3>3. QED
      BY <3>1, <3>2
  <2>2. PICK a \in 1 .. n : a = starts[k]
    BY <1>9
  <2>3. SubSeq(s, a + 1, b) \in Text
    <3>1. \A i \in a + 1 .. b : i \in 1 .. n
      OBVIOUS
    <3>2. \A i \in a + 1 .. b : s[i] \in Letters
      BY <1>1, <3>1, ElementOfSeq DEF Text, Letters
    <3>3. a + 1 \in Int /\ b \in Int
      OBVIOUS
    <3>4. QED
      BY <3>2, <3>3, SubSeqProperties DEF Text, Letters
  <2>4. Each(SplitOn(SubSeq(s, a + 1, b), ","), Words) \in Seq(Seq(Word))
    BY <2>3, ItemsAre
  <2>5. s[a] \in Letters
    BY <1>1, ElementOfSeq DEF Text, Letters
  <2>6. QED
    BY <2>1, <2>2, <2>4, <2>5 DEF Clause
<1>13. Clauses(s) \in [1 .. m -> Clause]
  BY <1>9, <1>11, <1>12
<1>14. QED
  BY <1>13, FunctionIsSeq

\* With its dangling dots fixed a text is still one.
LEMMA FixedIs ==
  ASSUME NEW s \in Text
  PROVE  FixDanglingDots(s) \in Text
<1>1. PICK n \in Nat : n = Len(s)
  BY LenProperties DEF Text, Letters
<1>2. PICK d : d = Indices(s)
  OBVIOUS
<1>3. DOMAIN d = 1 .. n /\ \A i \in 1 .. n : d[i] = i
  BY <1>1, <1>2, LenProperties DEF Indices, Text, Letters
<1>4. PICK parts : parts = [i \in DOMAIN d |->
         IF s[d[i]] = "." /\ (d[i] = Len(s) \/ s[d[i]+1] = Blank) THEN <<".", "x">> ELSE <<s[d[i]]>>]
  OBVIOUS
<1>5. FixDanglingDots(s) = FlattenSeq(parts)
  BY <1>2, <1>4 DEF FixDanglingDots, Flat, Each
<1>6. \A i \in 1 .. n : s[i] \in Letters
  BY <1>1, ElementOfSeq DEF Text, Letters
<1>7. parts \in [1 .. n -> Seq(Letters)]
  <2>1. <<".", "x">> \in Seq(Letters)
    <3>1. "." \in Letters /\ "x" \in Letters
      BY CompletionAssumption DEF Letters
    <3>2. QED
      BY <3>1
  <2>2. ASSUME NEW i \in 1 .. n PROVE parts[i] \in Seq(Letters)
    <3>1. <<s[i]>> \in Seq(Letters)
      BY <1>6
    <3>2. d[i] = i
      BY <1>3
    <3>3. parts[i] = <<".", "x">> \/ parts[i] = <<s[i]>>
      BY <1>3, <1>4, <3>2
    <3>4. QED
      BY <2>1, <3>1, <3>3
  <2>3. QED
    BY <1>3, <1>4, <2>2
<1>8. parts \in Seq(Seq(Letters))
  BY <1>7, FunctionIsSeq
<1>9. QED
  BY <1>5, <1>8, FlattenIs DEF Text, Letters

\* What passes a test of the items of a clause.
LEMMA ItemsLeft ==
  ASSUME NEW items \in Seq(Seq(Word))
  PROVE  Where(items, LAMBDA item : item # <<>>) \in Seq(Seq(Word))
<1>1. PICK n \in Nat : n = Len(items)
  BY LenProperties
<1>2. DOMAIN items = 1 .. n /\ \A i \in 1 .. n : items[i] \in Seq(Word)
  BY <1>1, LenProperties, ElementOfSeq
<1>3. PICK parts : parts = [i \in DOMAIN items |-> IF items[i] # <<>> THEN <<items[i]>> ELSE <<>>]
  OBVIOUS
<1>4. Where(items, LAMBDA item : item # <<>>) = FlattenSeq(parts)
  BY <1>3 DEF Where, Flat, Each
<1>5. \A i \in 1 .. n : parts[i] = <<>> \/ \E x \in Seq(Word) : parts[i] = <<x>>
  BY <1>2, <1>3
<1>6. QED
  BY <1>2, <1>3, <1>4, <1>5, PickedOut

\* The tables of a text, with what they are called, are words.
LEMMA TableItemsAre ==
  ASSUME NEW s \in Text
  PROVE  TableItems(s) \in Seq(Seq(Word))
<1>1. PICK all : all = Clauses(s)
  OBVIOUS
<1>2. all \in Seq(Clause)
  BY <1>1, ClausesAre
<1>3. PICK n \in Nat : n = Len(all)
  BY <1>2, LenProperties
<1>4. DOMAIN all = 1 .. n /\ \A i \in 1 .. n : all[i] \in Clause
  BY <1>2, <1>3, LenProperties, ElementOfSeq
<1>5. PICK parts : parts = [i \in DOMAIN all |-> IF all[i].key \in {"FROM", "JOIN"} THEN <<all[i]>> ELSE <<>>]
  OBVIOUS
<1>6. PICK some : some = Where(all, LAMBDA c : c.key \in {"FROM", "JOIN"})
  OBVIOUS
<1>7. some = FlattenSeq(parts)
  BY <1>5, <1>6 DEF Where, Flat, Each
<1>8. \A i \in 1 .. n : parts[i] = <<>> \/ \E x \in Clause : parts[i] = <<x>>
  BY <1>4, <1>5
<1>9. some \in Seq(Clause)
  BY <1>4, <1>5, <1>7, <1>8, PickedOut
<1>10. PICK m \in Nat : m = Len(some)
  BY <1>9, LenProperties
<1>11. DOMAIN some = 1 .. m /\ \A i \in 1 .. m : some[i] \in Clause
  BY <1>9, <1>10, LenProperties, ElementOfSeq
<1>12. PICK left : left = [i \in DOMAIN some |-> Where(some[i].items, LAMBDA item : item # <<>>)]
  OBVIOUS
<1>13. TableItems(s) = FlattenSeq(left)
  BY <1>1, <1>6, <1>12 DEF TableItems, Flat, Each
<1>14. \A i \in 1 .. m : some[i].items \in Seq(Seq(Word))
  BY <1>11 DEF Clause
<1>15. \A i \in 1 .. m : left[i] \in Seq(Seq(Word))
  BY <1>11, <1>12, <1>14, ItemsLeft
<1>16. left \in [1 .. m -> Seq(Seq(Word))]
  BY <1>11, <1>12, <1>15
<1>17. left \in Seq(Seq(Seq(Word)))
  BY <1>16, FunctionIsSeq
<1>18. QED
  BY <1>13, <1>17, FlattenIs

\* What a text calls its tables: words, which stand for words.
AliasMap(map) == IsFiniteSet(DOMAIN map) /\ DOMAIN map \subseteq Word /\ \A a \in DOMAIN map : map[a] \in Word

\* The alias map of a text is one.
LEMMA MapIs ==
  ASSUME NEW s \in Text
  PROVE  AliasMap(BuildAliasMap(s))
<1>1. PICK fixed : fixed = FixDanglingDots(s)
  OBVIOUS
<1>2. fixed \in Text
  BY <1>1, FixedIs
<1>3. PICK all : all = TableItems(fixed)
  OBVIOUS
<1>4. all \in Seq(Seq(Word))
  BY <1>2, <1>3, TableItemsAre
<1>5. PICK n \in Nat : n = Len(all)
  BY <1>4, LenProperties
<1>6. DOMAIN all = 1 .. n /\ \A i \in 1 .. n : all[i] \in Seq(Word)
  BY <1>4, <1>5, LenProperties, ElementOfSeq
<1>7. PICK parts : parts = [i \in DOMAIN all |-> IF Len(all[i]) = 2 THEN <<all[i]>> ELSE <<>>]
  OBVIOUS
<1>8. PICK aliased : aliased = Where(all, LAMBDA item : Len(item) = 2)
  OBVIOUS
<1>9. aliased = FlattenSeq(parts)
  BY <1>7, <1>8 DEF Where, Flat, Each
<1> DEFINE Pairs == {item \in Seq(Word) : Len(item) = 2}
<1>10. \A i \in 1 .. n : parts[i] = <<>> \/ \E x \in Pairs : parts[i] = <<x>>
  BY <1>6, <1>7
<1>11. aliased \in Seq(Pairs)
  BY <1>6, <1>7, <1>9, <1>10, PickedOut
<1>12. PICK m \in Nat : m = Len(aliased)
  BY <1>11, LenProperties
<1>13. DOMAIN aliased = 1 .. m /\ \A i \in 1 .. m : aliased[i] \in Pairs
  BY <1>11, <1>12, LenProperties, ElementOfSeq
<1>14. \A i \in 1 .. m : aliased[i][1] \in Word /\ aliased[i][2] \in Word
  <2>1. ASSUME NEW i \in 1 .. m PROVE aliased[i][1] \in Word /\ aliased[i][2] \in Word
    <3>1. PICK p : p = aliased[i]
      OBVIOUS
    <3>2. p \in Seq(Word) /\ Len(p) = 2
      BY <1>13, <3>1
    <3>3. 1 \in 1 .. Len(p) /\ 2 \in 1 .. Len(p)
      BY <3>2
    <3>4. QED
      BY <3>1, <3>2, <3>3, ElementOfSeq
  <2>2. QED
    BY <2>1
<1> DEFINE last(a) == SelectLastInSeq(aliased, LAMBDA item : item[2] = a)
<1>15. BuildAliasMap(s) = IF ~Parses(fixed) THEN <<>>
         ELSE [a \in {item[2] : item \in ToSet(aliased)} |-> LastPart(aliased[last(a)][1])]
  BY <1>1, <1>3, <1>8 DEF BuildAliasMap
<1>16. CASE ~Parses(fixed)
  <2>1. BuildAliasMap(s) = <<>>
    BY <1>15, <1>16
  <2>2. DOMAIN BuildAliasMap(s) = {}
    BY <2>1
  <2>3. QED
    BY <2>2, FS_EmptySet DEF AliasMap
<1>17. CASE Parses(fixed)
  <2>1. PICK called : called = {item[2] : item \in ToSet(aliased)}
    OBVIOUS
  <2>2. \A a \in called : \E i \in 1 .. m : a = aliased[i][2]
    BY <1>13, <2>1 DEF ToSet
  <2>3. ASSUME NEW a \in called PROVE last(a) \in 1 .. m
    <3>1. PICK T : T = {i \in 1 .. m : aliased[i][2] = a}
      OBVIOUS
    <3>2. T # {}
      BY <2>2, <3>1
    <3>3. T \subseteq 0 .. m
      BY <3>1
    <3>4. \E k \in T : \A i \in T : k >= i
      <4>1. PICK k \in T : \A i \in T : i <= k
        BY <3>2, <3>3, GreatestPlace
      <4>2. QED
        BY <3>3, <4>1
    <3>5. Max(T) \in T
      BY <3>4 DEF Max
    <3>6. last(a) = Max(T)
      BY <1>12, <3>1, <3>2 DEF SelectLastInSeq
    <3>7. QED
      BY <3>1, <3>5, <3>6
  <2>4. ASSUME NEW a \in called PROVE LastPart(aliased[last(a)][1]) \in Word
    BY <1>14, <2>3, BehindWord DEF LastPart
  <2>5. BuildAliasMap(s) = [a \in called |-> LastPart(aliased[last(a)][1])]
    BY <1>15, <1>17, <2>1
  <2> HIDE DEF last
  <2>6. DOMAIN BuildAliasMap(s) = called /\ \A a \in called : BuildAliasMap(s)[a] \in Word
    BY <2>4, <2>5
  <2>7. called \subseteq Word
    BY <1>14, <2>2
  <2>8. IsFiniteSet(called)
    <3>1. PICK f : f = [i \in 1 .. m |-> aliased[i][2]]
      OBVIOUS
    <3>2. PICK T : T = {f[i] : i \in 1 .. m}
      OBVIOUS
    <3>3. f \in Surjection(1 .. m, T)
      BY <3>1, <3>2 DEF Surjection
    <3>4. IsFiniteSet(1 .. m)
      BY FS_Interval
    <3>5. IsFiniteSet(T)
      BY <3>3, <3>4, FS_Surjection
    <3>6. called \subseteq T
      BY <2>2, <3>1, <3>2
    <3>7. QED
      BY <3>5, <3>6, FS_Subset
  <2>9. QED
    BY <2>6, <2>7, <2>8 DEF AliasMap
<1>18. QED
  BY <1>16, <1>17

\* The aliases in any order are a sequence of words.
LEMMA OrderIs ==
  ASSUME NEW s \in Text, NEW order \in Orders(s)
  PROVE  order \in Seq(DOMAIN BuildAliasMap(s))
<1>1. PICK D : D = DOMAIN BuildAliasMap(s)
  OBVIOUS
<1>2. IsFiniteSet(D)
  BY <1>1, MapIs DEF AliasMap
<1>3. Cardinality(D) \in Nat
  BY <1>2, FS_CardinalityType
<1>4. order \in [1 .. Cardinality(D) -> D]
  BY <1>1 DEF Orders, SetToSeqs
<1>5. QED
  BY <1>1, <1>3, <1>4, FunctionIsSeq

\* The words of a text after some keywords.
LEMMA AfterIs ==
  ASSUME NEW s \in Text, NEW keys
  PROVE  After(s, keys) \in Seq([at : Nat, name : Word])
<1>1. PICK words : words = Words(s)
  OBVIOUS
<1>2. words \in Seq(Word)
  BY <1>1, WordsAre
<1>3. PICK n \in Nat : n = Len(words)
  BY <1>2, LenProperties
<1>4. \A i \in 1 .. n : words[i] \in Word
  BY <1>2, <1>3, ElementOfSeq
<1>5. PICK d : d = Indices(words)
  OBVIOUS
<1>6. DOMAIN d = 1 .. n /\ \A i \in 1 .. n : d[i] = i
  BY <1>2, <1>3, <1>5, LenProperties DEF Indices
<1>7. PICK parts : parts = [i \in DOMAIN d |-> IF d[i] < Len(words) /\ words[d[i]] \in keys THEN <<d[i]>> ELSE <<>>]
  OBVIOUS
<1>8. PICK found : found = Where(d, LAMBDA i : i < Len(words) /\ words[i] \in keys)
  OBVIOUS
<1>9. found = FlattenSeq(parts)
  BY <1>7, <1>8 DEF Where, Flat, Each
<1> DEFINE Inner == {i \in 1 .. n : i < n}
<1>10. \A i \in 1 .. n : parts[i] = <<>> \/ \E x \in Inner : parts[i] = <<x>>
  BY <1>3, <1>6, <1>7
<1>11. found \in Seq(Inner)
  BY <1>6, <1>7, <1>9, <1>10, PickedOut
<1>12. PICK m \in Nat : m = Len(found)
  BY <1>11, LenProperties
<1>13. DOMAIN found = 1 .. m /\ \A k \in 1 .. m : found[k] \in Inner
  BY <1>11, <1>12, LenProperties, ElementOfSeq
<1>14. After(s, keys) = [k \in DOMAIN found |-> [at |-> found[k], name |-> LastPart(words[found[k]+1])]]
  BY <1>1, <1>5, <1>8 DEF After, Each
<1>15. ASSUME NEW k \in 1 .. m PROVE [at |-> found[k], name |-> LastPart(words[found[k]+1])] \in [at : Nat, name : Word]
  <2>1. PICK i \in 1 .. n : i = found[k] /\ i < n
    BY <1>13
  <2>2. i + 1 \in 1 .. n
    BY <2>1
  <2>3. LastPart(words[i+1]) \in Word
    BY <1>4, <2>2, BehindWord DEF LastPart
  <2>4. QED
    BY <2>1, <2>3
<1>16. After(s, keys) \in [1 .. m -> [at : Nat, name : Word]]
  BY <1>13, <1>14, <1>15
<1>17. QED
  BY <1>16, FunctionIsSeq

\* Names that need no quotes: a table's has neither blanks nor dots, a column's no blanks.
PlainNames ==
  \A t \in DOMAIN Schema :
    /\ t \in Word /\ \A i \in 1 .. Len(t) : t[i] # "."
    /\ Schema[t] \in Seq(Word)

Kinds == {"Table", "Column", "Keyword"}
Candidate == [value : Word, kind : Kinds]

\* Words of one kind are candidates.
LEMMA AsIs ==
  ASSUME NEW W, W \subseteq Word, NEW values \in Seq(W), NEW kind \in Kinds
  PROVE  As(kind, values) \in Seq({c \in Candidate : c.value \in W /\ c.kind = kind})
<1>1. PICK n \in Nat : n = Len(values)
  BY LenProperties
<1>2. DOMAIN values = 1 .. n /\ \A i \in 1 .. n : values[i] \in W
  BY <1>1, LenProperties, ElementOfSeq
<1> DEFINE C == {c \in Candidate : c.value \in W /\ c.kind = kind}
<1>3. \A i \in 1 .. n : [value |-> values[i], kind |-> kind] \in C
  BY <1>2 DEF Candidate
<1>4. As(kind, values) = [i \in 1 .. n |-> [value |-> values[i], kind |-> kind]]
  BY <1>2 DEF As
<1> HIDE DEF C
<1>5. As(kind, values) \in [1 .. n -> C]
  BY <1>3, <1>4
<1>6. As(kind, values) \in Seq(C)
  BY <1>5, FunctionIsSeq
<1>7. QED
  BY <1>6 DEF C

\* The values that begin with a prefix.
LEMMA StartingIs ==
  ASSUME NEW S, NEW values \in Seq(S), NEW prefix
  PROVE  StartingWith(values, prefix) \in Seq({v \in S : IsPrefix(prefix, v)})
<1>1. PICK n \in Nat : n = Len(values)
  BY LenProperties
<1>2. DOMAIN values = 1 .. n /\ \A i \in 1 .. n : values[i] \in S
  BY <1>1, LenProperties, ElementOfSeq
<1>3. PICK parts : parts = [i \in DOMAIN values |-> IF IsPrefix(prefix, values[i]) THEN <<values[i]>> ELSE <<>>]
  OBVIOUS
<1>4. StartingWith(values, prefix) = FlattenSeq(parts)
  BY <1>3 DEF StartingWith, Where, Flat, Each
<1> DEFINE T == {v \in S : IsPrefix(prefix, v)}
<1>5. \A i \in 1 .. n : parts[i] = <<>> \/ \E x \in T : parts[i] = <<x>>
  BY <1>2, <1>3
<1> HIDE DEF T
<1>6. FlattenSeq(parts) \in Seq(T)
  BY <1>2, <1>3, <1>5, PickedOut
<1>7. QED
  BY <1>4, <1>6 DEF T

\* The tables offered are tables that begin with a prefix.
LEMMA TablesOffered ==
  ASSUME PlainNames, NEW prefix
  PROVE  TableCompletions(prefix)
           \in Seq({c \in Candidate : c.value \in {t \in DOMAIN Schema : IsPrefix(prefix, t)} /\ c.kind = "Table"})
<1>1. PICK W : W = {t \in DOMAIN Schema : IsPrefix(prefix, t)}
  OBVIOUS
<1>2. StartingWith(Sorted, prefix) \in Seq(W)
  BY <1>1, CompletionAssumption, StartingIs
<1>3. W \subseteq Word
  BY <1>1 DEF PlainNames
<1>4. As("Table", StartingWith(Sorted, prefix)) \in Seq({c \in Candidate : c.value \in W /\ c.kind = "Table"})
  <2>1. "Table" \in Kinds
    BY DEF Kinds
  <2>2. QED
    BY <1>2, <1>3, <2>1, AsIs
<1>5. QED
  BY <1>1, <1>4 DEF TableCompletions

\* Candidates of some sort are candidates.
LEMMA TablesAre ==
  ASSUME PlainNames, NEW prefix
  PROVE  TableCompletions(prefix) \in Seq(Candidate)
<1>1. PICK W : W = {c \in Candidate : c.value \in {t \in DOMAIN Schema : IsPrefix(prefix, t)} /\ c.kind = "Table"}
  OBVIOUS
<1>2. TableCompletions(prefix) \in Seq(W)
  BY <1>1, TablesOffered
<1>3. W \subseteq Candidate
  BY <1>1
<1>4. QED
  BY <1>2, <1>3, SeqMonotonic

\* Words as columns.
LEMMA ColumnsAs ==
  ASSUME NEW values \in Seq(Word)
  PROVE  As("Column", values) \in Seq(Candidate)
<1>1. PICK W : W = {c \in Candidate : c.value \in Word /\ c.kind = "Column"}
  OBVIOUS
<1>2. "Column" \in Kinds /\ Word \subseteq Word
  BY DEF Kinds
<1>3. As("Column", values) \in Seq(W)
  BY <1>1, <1>2, AsIs
<1>4. W \subseteq Candidate
  BY <1>1
<1>5. QED
  BY <1>3, <1>4, SeqMonotonic

\* A keyword is a word.
LEMMA KeywordsAre == KeywordCompletions \in Seq(Candidate)
<1>1. Alphabet \in Seq(Letters)
  BY CompletionAssumption DEF Letters
<1>2. PICK n \in Nat : n = Len(Alphabet)
  BY <1>1, LenProperties
<1>3. DOMAIN Alphabet = 1 .. n
  BY <1>1, <1>2, LenProperties
<1>4. PICK parts : parts = [i \in DOMAIN Alphabet |-> IF Alphabet[i] \in Keywords THEN <<Alphabet[i]>> ELSE <<>>]
  OBVIOUS
<1>5. PICK found : found = Where(Alphabet, LAMBDA k : k \in Keywords)
  OBVIOUS
<1>6. found = FlattenSeq(parts)
  BY <1>4, <1>5 DEF Where, Flat, Each
<1>7. \A i \in 1 .. n : parts[i] = <<>> \/ \E x \in Keywords : parts[i] = <<x>>
  BY <1>3, <1>4
<1>8. found \in Seq(Keywords)
  BY <1>3, <1>4, <1>6, <1>7, PickedOut
<1>9. PICK m \in Nat : m = Len(found)
  BY <1>8, LenProperties
<1>10. DOMAIN found = 1 .. m /\ \A i \in 1 .. m : found[i] \in Keywords
  BY <1>8, <1>9, LenProperties, ElementOfSeq
<1>11. PICK values : values = [i \in DOMAIN found |-> <<found[i]>>]
  OBVIOUS
<1>12. ASSUME NEW k \in Keywords PROVE <<k>> \in Word
  <2>1. k \in Letters /\ k # Blank
    BY CompletionAssumption DEF Letters
  <2>2. PICK w : w = <<k>>
    OBVIOUS
  <2>3. w \in Seq(Letters) /\ Len(w) = 1 /\ w[1] = k
    BY <2>1, <2>2
  <2>4. \A i \in 1 .. Len(w) : w[i] # Blank
    BY <2>1, <2>3
  <2>5. QED
    BY <2>2, <2>3, <2>4 DEF Word, Text, Letters
<1>13. \A i \in 1 .. m : values[i] \in Word
  BY <1>10, <1>11, <1>12
<1>14. values \in [1 .. m -> Word]
  BY <1>10, <1>11, <1>13
<1>15. values \in Seq(Word)
  BY <1>14, FunctionIsSeq
<1>16. KeywordCompletions = As("Keyword", values)
  BY <1>5, <1>11 DEF KeywordCompletions, Each
<1>17. PICK W : W = {c \in Candidate : c.value \in Word /\ c.kind = "Keyword"}
  OBVIOUS
<1>18. "Keyword" \in Kinds /\ Word \subseteq Word
  BY DEF Kinds
<1>19. KeywordCompletions \in Seq(W)
  BY <1>15, <1>16, <1>17, <1>18, AsIs
<1>20. W \subseteq Candidate
  BY <1>17
<1>21. QED
  BY <1>19, <1>20, SeqMonotonic

\* The columns of a table are words, and so is a table that has any.
LEMMA ColumnsForIs ==
  ASSUME PlainNames, NEW t
  PROVE  ColumnsFor(t) \in Seq(Word) /\ (ColumnsFor(t) # <<>> => t \in Word)
<1>1. <<>> \in Seq(Word)
  OBVIOUS
<1>2. QED
  BY <1>1 DEF ColumnsFor, PlainNames

\* The columns of tables.
LEMMA ColumnsOfAll ==
  ASSUME PlainNames, NEW S, NEW tables \in Seq(S)
  PROVE  Flat(tables, ColumnsFor) \in Seq(Word)
<1>1. PICK n \in Nat : n = Len(tables)
  BY LenProperties
<1>2. DOMAIN tables = 1 .. n
  BY <1>1, LenProperties
<1>3. PICK parts : parts = [i \in DOMAIN tables |-> ColumnsFor(tables[i])]
  OBVIOUS
<1>4. Flat(tables, ColumnsFor) = FlattenSeq(parts)
  BY <1>3 DEF Flat, Each
<1>5. \A i \in 1 .. n : parts[i] \in Seq(Word)
  BY <1>2, <1>3, ColumnsForIs
<1>6. parts \in [1 .. n -> Seq(Word)]
  BY <1>2, <1>3, <1>5
<1>7. parts \in Seq(Seq(Word))
  BY <1>6, FunctionIsSeq
<1>8. QED
  BY <1>4, <1>7, FlattenIs

\* Two words that follow each other are one.
LEMMA WordsJoin ==
  ASSUME NEW v \in Word, NEW w \in Word
  PROVE  v \o w \in Word
<1>1. PICK m \in Nat, n \in Nat : m = Len(v) /\ n = Len(w)
  BY LenProperties DEF Word, Text
<1>2. v \in Seq(Letters) /\ w \in Seq(Letters)
  BY DEF Word, Text, Letters
<1>3. PICK u : u = v \o w
  OBVIOUS
<1>4. /\ u \in Seq(Letters) /\ Len(u) = m + n
      /\ \A i \in 1 .. m + n : u[i] = IF i <= m THEN v[i] ELSE w[i-m]
  BY <1>1, <1>2, <1>3, ConcatProperties
<1>5. ASSUME NEW i \in 1 .. m + n PROVE u[i] # Blank
  <2>1. (\A k \in 1 .. m : v[k] # Blank) /\ \A k \in 1 .. n : w[k] # Blank
    BY <1>1 DEF Word
  <2>2. i \in 1 .. m \/ i - m \in 1 .. n
    OBVIOUS
  <2>3. CASE i <= m
    BY <1>4, <2>1, <2>3
  <2>4. CASE ~(i <= m)
    <3>1. i - m \in 1 .. n /\ u[i] = w[i-m]
      BY <1>4, <2>4
    <3>2. QED
      BY <2>1, <3>1
  <2>5. QED
    BY <2>3, <2>4
<1>6. QED
  BY <1>3, <1>4, <1>5 DEF Word, Text, Letters

\* A qualified name is a word.
LEMMA QualifiedIs ==
  ASSUME NEW q \in Word, NEW col \in Word
  PROVE  q \o <<".">> \o col \in Word
<1>1. PICK dot : dot = <<".">>
  OBVIOUS
<1>2. dot \in Word
  <2>1. "." \in Letters
    BY CompletionAssumption DEF Letters
  <2>2. "." # Blank
    BY Zenon DEF Blank
  <2>3. dot \in Seq(Letters) /\ Len(dot) = 1 /\ dot[1] = "."
    BY <1>1, <2>1
  <2>4. \A i \in 1 .. Len(dot) : dot[i] # Blank
    BY <2>2, <2>3
  <2>5. QED
    BY <2>3, <2>4 DEF Word, Text, Letters
<1>3. QED
  BY <1>1, <1>2, WordsJoin

\* What does not come before is of the same sort.
LEMMA DistinctIs ==
  ASSUME NEW S, NEW s \in Seq(S)
  PROVE  Distinct(s) \in Seq(S)
<1>1. PICK n \in Nat : n = Len(s)
  BY LenProperties
<1>2. PICK d : d = Indices(s)
  OBVIOUS
<1>3. DOMAIN d = 1 .. n /\ \A i \in 1 .. n : d[i] = i
  BY <1>1, <1>2, LenProperties DEF Indices
<1>4. PICK parts : parts = [i \in DOMAIN d |-> IF \A j \in 1 .. d[i] - 1 : s[j] # s[d[i]] THEN <<d[i]>> ELSE <<>>]
  OBVIOUS
<1>5. PICK found : found = Where(d, LAMBDA i : \A j \in 1 .. i - 1 : s[j] # s[i])
  OBVIOUS
<1>6. found = FlattenSeq(parts)
  BY <1>4, <1>5, Zenon DEF Where, Flat, Each
<1>7. \A i \in 1 .. n : parts[i] = <<>> \/ \E x \in 1 .. n : parts[i] = <<x>>
  BY <1>3, <1>4, Zenon
<1>8. parts = [i \in 1 .. n |-> parts[i]]
  BY <1>3, <1>4, Zenon
<1>9. found \in Seq(1 .. n)
  BY <1>6, <1>7, <1>8, PickedOut
<1>10. PICK m \in Nat : m = Len(found)
  BY <1>9, LenProperties
<1>11. DOMAIN found = 1 .. m /\ \A k \in 1 .. m : found[k] \in 1 .. n
  BY <1>9, <1>10, LenProperties, ElementOfSeq
<1>12. Distinct(s) = [k \in DOMAIN found |-> s[found[k]]]
  BY <1>2, <1>5, Zenon DEF Distinct, Each
<1>13. \A k \in 1 .. m : s[found[k]] \in S
  BY <1>1, <1>11, ElementOfSeq
<1>14. Distinct(s) \in [1 .. m -> S]
  BY <1>11, <1>12, <1>13
<1>15. QED
  BY <1>14, FunctionIsSeq

\* The same of what is not what comes just before it.
LEMMA DedupIs ==
  ASSUME NEW S, NEW s \in Seq(S)
  PROVE  Dedup(s) \in Seq(S)
<1>1. PICK n \in Nat : n = Len(s)
  BY LenProperties
<1>2. PICK d : d = Indices(s)
  OBVIOUS
<1>3. DOMAIN d = 1 .. n /\ \A i \in 1 .. n : d[i] = i
  BY <1>1, <1>2, LenProperties DEF Indices
<1>4. PICK parts : parts = [i \in DOMAIN d |-> IF d[i] = 1 \/ s[d[i]] # s[d[i]-1] THEN <<d[i]>> ELSE <<>>]
  OBVIOUS
<1>5. PICK found : found = Where(d, LAMBDA i : i = 1 \/ s[i] # s[i-1])
  OBVIOUS
<1>6. found = FlattenSeq(parts)
  BY <1>4, <1>5 DEF Where, Flat, Each
<1>7. \A i \in 1 .. n : parts[i] = <<>> \/ \E x \in 1 .. n : parts[i] = <<x>>
  BY <1>3, <1>4
<1>8. parts = [i \in 1 .. n |-> parts[i]]
  BY <1>3, <1>4
<1>9. found \in Seq(1 .. n)
  BY <1>6, <1>7, <1>8, PickedOut
<1>10. PICK m \in Nat : m = Len(found)
  BY <1>9, LenProperties
<1>11. DOMAIN found = 1 .. m /\ \A k \in 1 .. m : found[k] \in 1 .. n
  BY <1>9, <1>10, LenProperties, ElementOfSeq
<1>12. Dedup(s) = [k \in DOMAIN found |-> s[found[k]]]
  BY <1>2, <1>5 DEF Dedup, Each
<1>13. \A k \in 1 .. m : s[found[k]] \in S
  BY <1>1, <1>11, ElementOfSeq
<1>14. Dedup(s) \in [1 .. m -> S]
  BY <1>11, <1>12, <1>13
<1>15. QED
  BY <1>14, FunctionIsSeq

\* The tables that a text names are words, and so are those it has aliases of.
LEMMA RefsAre ==
  ASSUME NEW s \in Text, NEW map, AliasMap(map), NEW order \in Seq(DOMAIN map)
  PROVE  TableRefs(s, map, order) \in Seq(Word)
<1>1. PICK after : after = After(s, {<<"FROM">>, <<"JOIN">>, <<"UPDATE">>})
  OBVIOUS
<1>2. after \in Seq([at : Nat, name : Word])
  BY <1>1, AfterIs
<1>3. PICK n \in Nat : n = Len(after)
  BY <1>2, LenProperties
<1>4. DOMAIN after = 1 .. n /\ \A i \in 1 .. n : after[i] \in [at : Nat, name : Word]
  BY <1>2, <1>3, LenProperties, ElementOfSeq
<1>5. PICK named : named = TablesNamed(s, {<<"FROM">>, <<"JOIN">>, <<"UPDATE">>})
  OBVIOUS
<1>6. named = [i \in DOMAIN after |-> after[i].name]
  BY <1>1, <1>5 DEF TablesNamed, Each
<1>7. \A i \in 1 .. n : after[i].name \in Word
  BY <1>4
<1>8. named \in [1 .. n -> Word]
  BY <1>4, <1>6, <1>7
<1>9. named \in Seq(Word)
  BY <1>8, FunctionIsSeq
<1>10. PICK m \in Nat : m = Len(order)
  BY LenProperties
<1>11. DOMAIN order = 1 .. m /\ \A i \in 1 .. m : order[i] \in DOMAIN map
  BY <1>10, LenProperties, ElementOfSeq
<1>12. PICK tables : tables = [i \in DOMAIN order |-> map[order[i]]]
  OBVIOUS
<1>13. DOMAIN tables = 1 .. m /\ \A i \in 1 .. m : tables[i] \in Word
  BY <1>11, <1>12 DEF AliasMap
<1>14. PICK parts : parts = [i \in DOMAIN tables |-> IF ~Contains(named, tables[i]) THEN <<tables[i]>> ELSE <<>>]
  OBVIOUS
<1>15. PICK others : others = Where(tables, LAMBDA t : ~Contains(named, t))
  OBVIOUS
<1>16. others = FlattenSeq(parts)
  BY <1>14, <1>15 DEF Where, Flat, Each
<1>17. \A i \in 1 .. m : parts[i] = <<>> \/ \E x \in Word : parts[i] = <<x>>
  BY <1>13, <1>14
<1>18. parts = [i \in 1 .. m |-> parts[i]]
  BY <1>13, <1>14
<1>19. others \in Seq(Word)
  BY <1>16, <1>17, <1>18, PickedOut
<1>20. Distinct(others) \in Seq(Word)
  BY <1>19, DistinctIs
<1>21. TableRefs(s, map, order) = named \o Distinct(others)
  BY <1>5, <1>12, <1>15 DEF TableRefs, WithAliased, Each
<1>22. QED
  BY <1>9, <1>20, <1>21, ConcatProperties

\* A column, by its name, the table's and each alias of it.
NameForms(t, col, map, order) ==
  <<col, t \o <<".">> \o col>> \o Each(Where(order, LAMBDA a : map[a] = t), LAMBDA a : a \o <<".">> \o col)

\* These are words.
LEMMA FormsAre ==
  ASSUME NEW map, AliasMap(map), NEW order \in Seq(DOMAIN map), NEW t \in Word, NEW col \in Word
  PROVE  NameForms(t, col, map, order) \in Seq(Word)
<1>1. PICK n \in Nat : n = Len(order)
  BY LenProperties
<1>2. DOMAIN order = 1 .. n /\ \A i \in 1 .. n : order[i] \in Word
  BY <1>1, LenProperties, ElementOfSeq DEF AliasMap
<1>3. PICK parts : parts = [i \in DOMAIN order |-> IF map[order[i]] = t THEN <<order[i]>> ELSE <<>>]
  OBVIOUS
<1>4. PICK found : found = Where(order, LAMBDA a : map[a] = t)
  OBVIOUS
<1>5. found = FlattenSeq(parts)
  BY <1>3, <1>4 DEF Where, Flat, Each
<1>6. \A i \in 1 .. n : parts[i] = <<>> \/ \E x \in Word : parts[i] = <<x>>
  BY <1>2, <1>3
<1>7. parts = [i \in 1 .. n |-> parts[i]]
  BY <1>2, <1>3
<1>8. found \in Seq(Word)
  BY <1>5, <1>6, <1>7, PickedOut
<1>9. PICK m \in Nat : m = Len(found)
  BY <1>8, LenProperties
<1>10. DOMAIN found = 1 .. m /\ \A k \in 1 .. m : found[k] \in Word
  BY <1>8, <1>9, LenProperties, ElementOfSeq
<1>11. PICK names : names = [k \in DOMAIN found |-> found[k] \o <<".">> \o col]
  OBVIOUS
<1>12. \A k \in 1 .. m : names[k] \in Word
  BY <1>10, <1>11, QualifiedIs
<1>13. names \in [1 .. m -> Word]
  BY <1>10, <1>11, <1>12
<1>14. names \in Seq(Word)
  BY <1>13, FunctionIsSeq
<1>15. PICK q : q = t \o <<".">> \o col
  OBVIOUS
<1>16. q \in Word
  BY <1>15, QualifiedIs
<1>17. <<col, q>> \in Seq(Word)
  BY <1>16
<1>18. NameForms(t, col, map, order) = <<col, q>> \o names
  BY <1>4, <1>11, <1>15 DEF NameForms, Each
<1>19. QED
  BY <1>14, <1>17, <1>18, ConcatProperties

\* All the names of the columns of a table.
NamesIn(t, map, order) == Flat(ColumnsFor(t), LAMBDA col : NameForms(t, col, map, order))

\* They are words, for a table.
LEMMA NamesInAre ==
  ASSUME PlainNames, NEW map, AliasMap(map), NEW order \in Seq(DOMAIN map), NEW t
  PROVE  NamesIn(t, map, order) \in Seq(Word)
<1>1. PICK cols : cols = ColumnsFor(t)
  OBVIOUS
<1>2. cols \in Seq(Word) /\ (cols # <<>> => t \in Word)
  BY <1>1, ColumnsForIs
<1>3. PICK n \in Nat : n = Len(cols)
  BY <1>2, LenProperties
<1>4. DOMAIN cols = 1 .. n /\ \A i \in 1 .. n : cols[i] \in Word
  BY <1>2, <1>3, LenProperties, ElementOfSeq
<1>5. PICK parts : parts = [i \in DOMAIN cols |-> NameForms(t, cols[i], map, order)]
  OBVIOUS
<1>6. NamesIn(t, map, order) = FlattenSeq(parts)
  BY <1>1, <1>5 DEF NamesIn, Flat, Each
<1>7. ASSUME NEW i \in 1 .. n PROVE parts[i] \in Seq(Word)
  <2>1. cols # <<>>
    BY <1>3
  <2>2. QED
    BY <1>2, <1>4, <1>5, <2>1, FormsAre
<1>8. parts \in [1 .. n -> Seq(Word)]
  BY <1>4, <1>5, <1>7
<1>9. parts \in Seq(Seq(Word))
  BY <1>8, FunctionIsSeq
<1>10. QED
  BY <1>6, <1>9, FlattenIs

\* The columns of tables, by every name they have.
LEMMA QualifiedOffered ==
  ASSUME PlainNames, NEW map, AliasMap(map), NEW order \in Seq(DOMAIN map), NEW S, NEW tables \in Seq(S)
  PROVE  QualifiedColumnCompletions(tables, map, order) \in Seq(Candidate)
<1>1. PICK n \in Nat : n = Len(tables)
  BY LenProperties
<1>2. DOMAIN tables = 1 .. n
  BY <1>1, LenProperties
<1>3. PICK parts : parts = [i \in DOMAIN tables |-> NamesIn(tables[i], map, order)]
  OBVIOUS
<1>4. QualifiedColumnCompletions(tables, map, order) = As("Column", FlattenSeq(parts))
  BY <1>3 DEF QualifiedColumnCompletions, NamesIn, NameForms, Flat, Each
<1>5. \A i \in 1 .. n : parts[i] \in Seq(Word)
  BY <1>2, <1>3, NamesInAre
<1>6. parts \in [1 .. n -> Seq(Word)]
  BY <1>2, <1>3, <1>5
<1>7. parts \in Seq(Seq(Word))
  BY <1>6, FunctionIsSeq
<1>8. FlattenSeq(parts) \in Seq(Word)
  BY <1>7, FlattenIs
<1>9. QED
  BY <1>4, <1>8, ColumnsAs

\* What is offered after ON: words, whatever the join.
LEMMA OnOffered ==
  ASSUME PlainNames, NEW ctx, NEW S, ctx.left \in Seq(S)
  PROVE  OnCompletions(ctx) \in Seq(Candidate)
<1>1. PICK right : right = ColumnsFor(ctx.right)
  OBVIOUS
<1>2. PICK left : left = Flat(ctx.left, ColumnsFor)
  OBVIOUS
<1>3. right \in Seq(Word) /\ left \in Seq(Word)
  BY <1>1, <1>2, ColumnsForIs, ColumnsOfAll
<1>4. PICK n \in Nat : n = Len(right)
  BY <1>3, LenProperties
<1>5. DOMAIN right = 1 .. n /\ \A i \in 1 .. n : right[i] \in Word
  BY <1>3, <1>4, LenProperties, ElementOfSeq
<1>6. PICK shared, own : /\ shared = Where(right, LAMBDA c : Contains(left, c))
                         /\ own = Where(right, LAMBDA c : ~Contains(left, c))
  OBVIOUS
<1>7. shared \in Seq(Word)
  <2>1. PICK parts : parts = [i \in DOMAIN right |-> IF Contains(left, right[i]) THEN <<right[i]>> ELSE <<>>]
    OBVIOUS
  <2>2. shared = FlattenSeq(parts)
    BY <1>6, <2>1 DEF Where, Flat, Each
  <2>3. \A i \in 1 .. n : parts[i] = <<>> \/ \E x \in Word : parts[i] = <<x>>
    BY <1>5, <2>1
  <2>4. parts = [i \in 1 .. n |-> parts[i]]
    BY <1>5, <2>1
  <2>5. QED
    BY <2>2, <2>3, <2>4, PickedOut
<1>8. own \in Seq(Word)
  <2>1. PICK parts : parts = [i \in DOMAIN right |-> IF ~Contains(left, right[i]) THEN <<right[i]>> ELSE <<>>]
    OBVIOUS
  <2>2. own = FlattenSeq(parts)
    BY <1>6, <2>1 DEF Where, Flat, Each
  <2>3. \A i \in 1 .. n : parts[i] = <<>> \/ \E x \in Word : parts[i] = <<x>>
    BY <1>5, <2>1
  <2>4. parts = [i \in 1 .. n |-> parts[i]]
    BY <1>5, <2>1
  <2>5. QED
    BY <2>2, <2>3, <2>4, PickedOut
<1>9. shared \o own \o left \in Seq(Word)
  <2>1. shared \o own \in Seq(Word)
    BY <1>7, <1>8, ConcatProperties
  <2>2. QED
    BY <1>3, <2>1, ConcatProperties
<1>10. OnCompletions(ctx) = As("Column", shared \o own \o left)
  BY <1>1, <1>2, <1>6 DEF OnCompletions
<1>11. QED
  BY <1>9, <1>10, ColumnsAs

\* The tables beside a join are a sequence.
LEMMA JoinIs ==
  ASSUME NEW s \in Text, NEW map, JoinContext(s, map) # <<>>
  PROVE  \E S : JoinContext(s, map)[1].left \in Seq(S)
<1>1. PICK words : words = Words(s)
  OBVIOUS
<1>2. PICK last : last = SelectLastInSeq(words, LAMBDA w : w = <<"JOIN">>)
  OBVIOUS
<1>3. PICK right : right = ResolveAlias(map, LastPart(words[last+1]))
  OBVIOUS
<1>4. PICK after : after = After(s, {<<"FROM">>, <<"JOIN">>, <<"UPDATE">>})
  OBVIOUS
<1> DEFINE A == [at : Nat, name : Word]
<1>5. after \in Seq(A)
  BY <1>4, AfterIs
<1>6. PICK n \in Nat : n = Len(after)
  BY <1>5, LenProperties
<1>7. DOMAIN after = 1 .. n /\ \A i \in 1 .. n : after[i] \in A
  BY <1>5, <1>6, LenProperties, ElementOfSeq
<1>8. PICK others : others = Where(after, LAMBDA w : w.at # last)
  OBVIOUS
<1>9. others \in Seq(A)
  <2>1. PICK parts : parts = [i \in DOMAIN after |-> IF after[i].at # last THEN <<after[i]>> ELSE <<>>]
    OBVIOUS
  <2>2. others = FlattenSeq(parts)
    BY <1>8, <2>1 DEF Where, Flat, Each
  <2> HIDE DEF A
  <2>3. \A i \in 1 .. n : parts[i] = <<>> \/ \E x \in A : parts[i] = <<x>>
    BY <1>7, <2>1
  <2>4. parts = [i \in 1 .. n |-> parts[i]]
    BY <1>7, <2>1
  <2>5. QED
    BY <2>2, <2>3, <2>4, PickedOut
<1>10. PICK m \in Nat : m = Len(others)
  BY <1>9, LenProperties
<1>11. DOMAIN others = 1 .. m
  BY <1>9, <1>10, LenProperties
<1>12. PICK tables : tables = [i \in DOMAIN others |-> ResolveAlias(map, others[i].name)]
  OBVIOUS
<1>13. PICK S : S = {tables[i] : i \in 1 .. m}
  OBVIOUS
<1>14. PICK left : left = Where(tables, LAMBDA t : t # right)
  OBVIOUS
<1>15. left \in Seq(S)
  <2>1. PICK parts : parts = [i \in DOMAIN tables |-> IF tables[i] # right THEN <<tables[i]>> ELSE <<>>]
    OBVIOUS
  <2>2. left = FlattenSeq(parts)
    BY <1>14, <2>1 DEF Where, Flat, Each
  <2>3. DOMAIN tables = 1 .. m
    BY <1>11, <1>12
  <2>4. \A i \in 1 .. m : parts[i] = <<>> \/ \E x \in S : parts[i] = <<x>>
    BY <1>13, <2>1, <2>3
  <2>5. parts = [i \in 1 .. m |-> parts[i]]
    BY <2>1, <2>3
  <2>6. QED
    BY <2>2, <2>4, <2>5, PickedOut
<1>16. JoinContext(s, map) = IF last = 0 \/ last = Len(words) THEN <<>> ELSE <<[right |-> right, left |-> left]>>
  BY <1>1, <1>2, <1>3, <1>4, <1>8, <1>12, <1>14 DEF JoinContext, Each
<1>17. JoinContext(s, map) = <<[right |-> right, left |-> left]>>
  BY <1>16
<1>18. JoinContext(s, map)[1].left = left
  BY <1>17
<1>19. QED
  BY <1>15, <1>18

\* What is offered for a trigger.
LEMMA OfferedIs ==
  ASSUME PlainNames, NEW s \in Text, NEW map, AliasMap(map), NEW order \in Seq(DOMAIN map), NEW trigger,
         NEW refs \in Seq(Word), NEW ctx, ctx = JoinContext(s, map)
  PROVE  CandidatesForTrigger(trigger, refs, ctx, map, order) \in Seq(Candidate)
<1>1. TableCompletions(<<>>) \in Seq(Candidate)
  BY TablesAre
<1>2. KeywordCompletions \in Seq(Candidate)
  BY KeywordsAre
<1>3. ctx # <<>> => OnCompletions(ctx[1]) \in Seq(Candidate)
  BY JoinIs, OnOffered
<1>4. ColumnCompletions(refs) \in Seq(Candidate)
  BY ColumnsOfAll, ColumnsAs DEF ColumnCompletions
<1>5. QualifiedColumnCompletions(refs, map, order) \in Seq(Candidate)
  BY QualifiedOffered
<1>6. QualifiedColumnCompletions(Sorted, map, order) \in Seq(Candidate)
  BY QualifiedOffered, CompletionAssumption
<1>7. QED
  BY <1>1, <1>2, <1>3, <1>4, <1>5, <1>6 DEF CandidatesForTrigger

\* A sequence begins with another one if it has its elements.
LEMMA PrefixIs ==
  ASSUME NEW C, NEW p \in Seq(C), NEW t \in Seq(C), NEW m \in Nat, m = Len(p), NEW n \in Nat, n = Len(t)
  PROVE  IsPrefix(p, t) <=> m <= n /\ \A i \in 1 .. m : p[i] = t[i]
<1>1. SubSeq(p, 1, m) = p
  BY SubSeqFull
<1>2. CASE ~(m <= n)
  BY <1>2 DEF IsPrefix
<1>3. CASE m <= n
  <2>1. PICK u : u = SubSeq(t, 1, m)
    OBVIOUS
  <2>2. \A i \in 1 .. m : t[i] \in C
    <3>1. \A i \in 1 .. m : i \in 1 .. n
      BY <1>3
    <3>2. QED
      BY <3>1, ElementOfSeq
  <2>3. 1 \in Int /\ m \in Int
    OBVIOUS
  <2>4. /\ u \in Seq(C) /\ Len(u) = IF 1 <= m THEN m - 1 + 1 ELSE 0
        /\ \A i \in 1 .. m - 1 + 1 : u[i] = t[1+i-1]
    BY <2>1, <2>2, <2>3, SubSeqProperties
  <2>5. Len(u) = m /\ \A i \in 1 .. m : u[i] = t[i]
    <3>1. m - 1 + 1 = m /\ \A i \in 1 .. m : 1 + i - 1 = i
      OBVIOUS
    <3>2. QED
      BY <2>4, <3>1
  <2>6. p = u <=> \A i \in 1 .. m : p[i] = u[i]
    BY <2>4, <2>5, SeqEqual
  <2>7. IsPrefix(p, t) <=> p = u
    BY <1>1, <1>3, <2>1 DEF IsPrefix
  <2>8. QED
    BY <1>3, <2>5, <2>6, <2>7
<1>4. QED
  BY <1>2, <1>3

\* A candidate put among others.
LEMMA InsertIs ==
  ASSUME NEW S, NEW sorted \in Seq(S), NEW c \in S
  PROVE  Insert(sorted, c) \in Seq(S)
<1>1. PICK n \in Nat : n = Len(sorted)
  BY LenProperties
<1>2. DOMAIN sorted = 1 .. n /\ \A i \in 1 .. n : sorted[i] \in S
  BY <1>1, LenProperties, ElementOfSeq
<1>3. PICK front, back : /\ front = Where(sorted, LAMBDA d : ~Before(c, d))
                         /\ back = Where(sorted, LAMBDA d : Before(c, d))
  OBVIOUS
<1>4. front \in Seq(S)
  <2>1. PICK parts : parts = [i \in DOMAIN sorted |-> IF ~Before(c, sorted[i]) THEN <<sorted[i]>> ELSE <<>>]
    OBVIOUS
  <2>2. front = FlattenSeq(parts)
    BY <1>3, <2>1 DEF Where, Flat, Each
  <2>3. \A i \in 1 .. n : parts[i] = <<>> \/ \E x \in S : parts[i] = <<x>>
    BY <1>2, <2>1
  <2>4. parts = [i \in 1 .. n |-> parts[i]]
    BY <1>2, <2>1
  <2>5. QED
    BY <2>2, <2>3, <2>4, PickedOut
<1>5. back \in Seq(S)
  <2>1. PICK parts : parts = [i \in DOMAIN sorted |-> IF Before(c, sorted[i]) THEN <<sorted[i]>> ELSE <<>>]
    OBVIOUS
  <2>2. back = FlattenSeq(parts)
    BY <1>3, <2>1 DEF Where, Flat, Each
  <2>3. \A i \in 1 .. n : parts[i] = <<>> \/ \E x \in S : parts[i] = <<x>>
    BY <1>2, <2>1
  <2>4. parts = [i \in 1 .. n |-> parts[i]]
    BY <1>2, <2>1
  <2>5. QED
    BY <2>2, <2>3, <2>4, PickedOut
<1>6. front \o <<c>> \in Seq(S)
  BY <1>4
<1>7. QED
  BY <1>3, <1>5, <1>6, ConcatProperties DEF Insert

\* The lists that ranking goes through.
Ranks(g, s, n) == g[0] = <<>> /\ \A k \in 1 .. n : g[k] = Insert(g[k-1], s[k])

\* Ranking puts one candidate after the other among those before it.
LEMMA RankSteps ==
  ASSUME NEW S, NEW s \in Seq(S)
  PROVE  \E g : Ranks(g, s, Len(s)) /\ Rank(s) = g[Len(s)]
<1>1. PICK n \in Nat : n = Len(s)
  BY LenProperties
<1>2. \A i \in 1 .. n : s[i] \in S
  BY <1>1, ElementOfSeq
<1> DEFINE D == Seq(S)
<1>3. PICK G : G = [i \in 1 .. n |-> [l \in D |-> Insert(l, s[i])]]
  OBVIOUS
<1>4. G \in [1 .. n -> [D -> D]]
  BY <1>2, <1>3, InsertIs
<1>5. <<>> \in D
  OBVIOUS
<1> HIDE DEF D
<1>6. PICK f \in [0 .. n -> D] : f[0] = <<>> /\ \A i \in 1 .. n : f[i] = G[i][f[i-1]]
  BY <1>4, <1>5, RunsExist, SMTT(30)
<1> DEFINE Sorts(g) == g = [k \in 0 .. n |-> IF k = 0 THEN <<>> ELSE Insert(g[k-1], s[k])]
<1>7. Sorts(f)
  <2>1. ASSUME NEW k \in 0 .. n PROVE f[k] = IF k = 0 THEN <<>> ELSE Insert(f[k-1], s[k])
    <3>1. CASE k = 0
      BY <1>6, <3>1
    <3>2. CASE k # 0
      <4>1. k \in 1 .. n /\ k - 1 \in 0 .. n
        BY <3>2
      <4>2. f[k] = G[k][f[k-1]] /\ f[k-1] \in D
        BY <1>6, <4>1
      <4>3. G[k][f[k-1]] = Insert(f[k-1], s[k])
        BY <1>3, <4>1, <4>2
      <4>4. QED
        BY <3>2, <4>2, <4>3
    <3>3. QED
      BY <3>1, <3>2
  <2>2. QED
    BY <1>6, <2>1
<1>8. PICK g : g = CHOOSE x : Sorts(x)
  OBVIOUS
<1>9. Sorts(g)
  BY <1>7, <1>8
<1>10. Rank(s) = g[n]
  BY <1>1, <1>8 DEF Rank
<1>11. g[0] = <<>> /\ \A k \in 1 .. n : g[k] = Insert(g[k-1], s[k])
  <2>1. \A k \in 0 .. n : g[k] = IF k = 0 THEN <<>> ELSE Insert(g[k-1], s[k])
    BY <1>9
  <2>2. 0 \in 0 .. n /\ \A k \in 1 .. n : k \in 0 .. n /\ k # 0
    OBVIOUS
  <2>3. QED
    BY <2>1, <2>2
<1>12. QED
  BY <1>1, <1>10, <1>11 DEF Ranks

\* Ranking leaves candidates of the same sort, however many.
LEMMA RankIs ==
  ASSUME NEW S, NEW s \in Seq(S)
  PROVE  Rank(s) \in Seq(S)
<1>1. PICK n \in Nat : n = Len(s)
  BY LenProperties
<1>2. \A i \in 1 .. n : s[i] \in S
  BY <1>1, ElementOfSeq
<1>3. PICK g : Ranks(g, s, n) /\ Rank(s) = g[n]
  BY <1>1, RankSteps
<1> DEFINE T == {k \in 0 .. n : g[k] \in Seq(S)}
<1>4. 0 \in T
  <2>1. <<>> \in Seq(S) /\ 0 \in 0 .. n
    OBVIOUS
  <2>2. QED
    BY <1>3, <2>1 DEF Ranks
<1>5. ASSUME NEW k \in 0 .. n - 1, k \in T PROVE k + 1 \in T
  <2>1. k + 1 \in 1 .. n /\ (k + 1) - 1 = k /\ k + 1 \in 0 .. n
    OBVIOUS
  <2>2. g[k+1] = Insert(g[k], s[k+1])
    BY <1>3, <2>1 DEF Ranks
  <2>3. g[k+1] \in Seq(S)
    BY <1>2, <1>5, <2>1, <2>2, InsertIs
  <2>4. QED
    BY <2>1, <2>3
<1>6. n \in T
  <2> HIDE DEF T
  <2>1. 0 \in Nat /\ n \in 0 .. n
    OBVIOUS
  <2>2. \A k \in 0 .. n : k \in T
    BY <1>4, <1>5, <2>1, FromTo
  <2>3. QED
    BY <2>1, <2>2
<1>7. QED
  BY <1>3, <1>6

\* What passes the filter begins with the prefix, by its name or its last part.
LEMMA FilterIs ==
  ASSUME NEW S, NEW s \in Seq(S), NEW prefix
  PROVE  Filter(s, prefix) \in Seq({c \in S : IsPrefix(prefix, c.value) \/ IsPrefix(prefix, LastPart(c.value))})
<1>1. PICK n \in Nat : n = Len(s)
  BY LenProperties
<1>2. DOMAIN s = 1 .. n /\ \A i \in 1 .. n : s[i] \in S
  BY <1>1, LenProperties, ElementOfSeq
<1> DEFINE Passes(c) == \/ IsPrefix(prefix, c.value)
                        \/ prefix # <<>> /\ Dotted(c.value) /\ IsPrefix(prefix, LastPart(c.value))
           T == {c \in S : IsPrefix(prefix, c.value) \/ IsPrefix(prefix, LastPart(c.value))}
<1>3. PICK parts : parts = [i \in DOMAIN s |-> IF Passes(s[i]) THEN <<s[i]>> ELSE <<>>]
  OBVIOUS
<1>4. Filter(s, prefix) = FlattenSeq(parts)
  BY <1>3 DEF Filter, Where, Flat, Each
<1>5. \A i \in 1 .. n : Passes(s[i]) => s[i] \in T
  BY <1>2
<1> HIDE DEF Passes, T
<1>6. \A i \in 1 .. n : parts[i] = <<>> \/ \E x \in T : parts[i] = <<x>>
  BY <1>2, <1>3, <1>5
<1>7. parts = [i \in 1 .. n |-> parts[i]]
  BY <1>2, <1>3
<1>8. FlattenSeq(parts) \in Seq(T)
  BY <1>6, <1>7, PickedOut
<1>9. QED
  BY <1>4, <1>8 DEF T

\* A value that may take the place of what was typed: it begins with it, by its name
\* or its last part, or, after a qualifier, with what is behind the dot.
Suits(token, v) ==
  IF Dotted(token) THEN IsPrefix(LastPart(token), v)
  ELSE IsPrefix(token, v) \/ IsPrefix(token, LastPart(v))
Offer(token) == {c \in Candidate : token \notin Triggers => Suits(token, c.value)}

\* After a qualifier.
LEMMA AfterQualifier ==
  ASSUME PlainNames, NEW token, Dotted(token), NEW map
  PROVE  CompleteQualified(token, map) \in Seq(Offer(token))
<1>1. PICK own : own = ColumnsFor(ResolveAlias(map, SplitOn(token, ".")[Len(SplitOn(token, ".")) - 1]))
  OBVIOUS
<1>2. PICK among : among = IF own = <<>> THEN Flat(Sorted, ColumnsFor) ELSE own
  OBVIOUS
<1>3. among \in Seq(Word)
  BY <1>1, <1>2, ColumnsForIs, ColumnsOfAll, CompletionAssumption
<1>4. PICK W : W = {v \in Word : IsPrefix(LastPart(token), v)}
  OBVIOUS
<1>5. StartingWith(among, LastPart(token)) \in Seq(W)
  BY <1>3, <1>4, StartingIs
<1>6. PICK C : C = {c \in Candidate : c.value \in W /\ c.kind = "Column"}
  OBVIOUS
<1>7. As("Column", StartingWith(among, LastPart(token))) \in Seq(C)
  <2>1. "Column" \in Kinds /\ W \subseteq Word
    BY <1>4 DEF Kinds
  <2>2. QED
    BY <1>5, <1>6, <2>1, AsIs
<1>8. CompleteQualified(token, map) = As("Column", StartingWith(among, LastPart(token)))
  BY <1>1, <1>2 DEF CompleteQualified
<1>9. C \subseteq Offer(token)
  BY <1>4, <1>6 DEF Offer, Suits
<1>10. QED
  BY <1>7, <1>8, <1>9, SeqMonotonic

\* What a query offers, of what was found.
LEMMA QueryOffers ==
  ASSUME PlainNames, NEW trigger, NEW input, NEW found \in Seq(Candidate), NEW map
  PROVE  QueryCompletions(trigger, Token(input), Prefix(input), found, map) \in Seq(Offer(Token(input)))
<1>1. PICK token : token = Token(input)
  OBVIOUS
<1>2. PICK prefix : prefix = Prefix(input)
  OBVIOUS
<1>3. token \notin Triggers => prefix = token
  BY <1>1, <1>2 DEF Prefix
<1>4. CASE Dotted(token)
  BY <1>1, <1>4, AfterQualifier DEF QueryCompletions
<1>5. CASE ~Dotted(token) /\ trigger = <<"ON">>
  <2>1. PICK n \in Nat : n = Len(found)
    BY LenProperties
  <2>2. DOMAIN found = 1 .. n /\ \A i \in 1 .. n : found[i] \in Candidate
    BY <2>1, LenProperties, ElementOfSeq
  <2>3. PICK some : some = Where(found, LAMBDA c : IsPrefix(prefix, c.value))
    OBVIOUS
  <2>4. PICK parts : parts = [i \in DOMAIN found |-> IF IsPrefix(prefix, found[i].value) THEN <<found[i]>> ELSE <<>>]
    OBVIOUS
  <2>5. some = FlattenSeq(parts)
    BY <2>3, <2>4 DEF Where, Flat, Each
  <2>6. \A i \in 1 .. n : IsPrefix(prefix, found[i].value) => found[i] \in Offer(token)
    BY <1>3, <1>5, <2>2 DEF Offer, Suits
  <2>7. \A i \in 1 .. n : parts[i] = <<>> \/ \E x \in Offer(token) : parts[i] = <<x>>
    BY <2>2, <2>4, <2>6
  <2>8. parts = [i \in 1 .. n |-> parts[i]]
    BY <2>2, <2>4
  <2>9. some \in Seq(Offer(token))
    BY <2>5, <2>7, <2>8, PickedOut
  <2>10. Distinct(some) \in Seq(Offer(token))
    BY <2>9, DistinctIs
  <2>11. QueryCompletions(trigger, token, prefix, found, map) = Distinct(some)
    BY <1>5, <2>3 DEF QueryCompletions
  <2>12. QED
    BY <1>1, <1>2, <2>10, <2>11
<1>6. CASE ~Dotted(token) /\ trigger # <<"ON">>
  <2>1. PICK T : T = {c \in Candidate : IsPrefix(prefix, c.value) \/ IsPrefix(prefix, LastPart(c.value))}
    OBVIOUS
  <2>2. Filter(found, prefix) \in Seq(T)
    BY <2>1, FilterIs
  <2>3. Dedup(Rank(Filter(found, prefix))) \in Seq(T)
    BY <2>2, RankIs, DedupIs
  <2>4. T \subseteq Offer(token)
    BY <1>3, <1>6, <2>1 DEF Offer, Suits
  <2>5. QueryCompletions(trigger, token, prefix, found, map) = Dedup(Rank(Filter(found, prefix)))
    BY <1>6 DEF QueryCompletions
  <2>6. QED
    BY <1>1, <1>2, <2>3, <2>4, <2>5, SeqMonotonic
<1>7. QED
  BY <1>4, <1>5, <1>6

\* After \d the word typed is all that follows, if a table begins with it.
LEMMA CommandOffers ==
  ASSUME PlainNames, NEW input \in Text, NEW n \in Nat, n = Len(input), n >= 2, input[2] = Blank
  PROVE  TableCompletions(SubSeq(input, 3, n)) \in Seq(Offer(Token(input)))
<1>1. PICK rest : rest = SubSeq(input, 3, n)
  OBVIOUS
<1>2. PICK W : W = {t \in DOMAIN Schema : IsPrefix(rest, t)}
  OBVIOUS
<1>3. PICK C : C = {c \in Candidate : c.value \in W /\ c.kind = "Table"}
  OBVIOUS
<1>4. TableCompletions(rest) \in Seq(C)
  BY <1>2, <1>3, TablesOffered
<1>5. /\ rest \in Seq(Letters) /\ Len(rest) = n - 2
      /\ \A i \in 1 .. n - 2 : rest[i] = input[i+2]
  <2>1. \A i \in 3 .. n : input[i] \in Letters
    <3>1. \A i \in 3 .. n : i \in 1 .. n
      OBVIOUS
    <3>2. QED
      BY <3>1, ElementOfSeq DEF Text, Letters
  <2>2. 3 \in Int /\ n \in Int
    OBVIOUS
  <2>3. /\ rest \in Seq(Letters) /\ Len(rest) = IF 3 <= n THEN n - 3 + 1 ELSE 0
        /\ \A i \in 1 .. n - 3 + 1 : rest[i] = input[3+i-1]
    BY <1>1, <2>1, <2>2, SubSeqProperties
  <2>4. n - 3 + 1 = n - 2 /\ (~(3 <= n) => n - 2 = 0)
    OBVIOUS
  <2>5. \A i \in 1 .. n - 2 : 3 + i - 1 = i + 2
    OBVIOUS
  <2>6. QED
    BY <2>3, <2>4, <2>5
<1>6. ASSUME NEW c \in C PROVE c \in Offer(Token(input))
  <2>1. PICK t : t = c.value
    OBVIOUS
  <2>2. t \in DOMAIN Schema /\ IsPrefix(rest, t) /\ c \in Candidate
    BY <1>2, <1>3, <1>6, <2>1
  <2>3. t \in Word /\ \A i \in 1 .. Len(t) : t[i] # "."
    BY <2>2 DEF PlainNames
  <2>4. t \in Seq(Letters) /\ \A i \in 1 .. Len(t) : t[i] # Blank
    BY <2>3 DEF Word, Text, Letters
  <2>5. PICK m \in Nat : m = Len(t)
    BY <2>4, LenProperties
  <2>6. n - 2 \in Nat
    OBVIOUS
  <2>7. n - 2 <= m /\ \A i \in 1 .. n - 2 : rest[i] = t[i]
    BY <1>5, <2>2, <2>4, <2>5, <2>6, PrefixIs
  <2>8. ASSUME NEW i \in 1 .. n - 2 PROVE rest[i] # Blank /\ rest[i] # "."
    <3>1. i \in 1 .. m
      BY <2>7
    <3>2. QED
      BY <2>3, <2>4, <2>5, <2>7, <3>1
  <2>9. LastAt(input, Blank, 2)
    <3>1. ASSUME NEW i \in 1 .. n, input[i] = Blank PROVE i <= 2
      <4>1. CASE ~(i <= 2)
        <5>1. i - 2 \in 1 .. n - 2 /\ (i - 2) + 2 = i
          BY <4>1
        <5>2. input[i] = rest[i-2] /\ rest[i-2] # Blank
          BY <1>5, <2>8, <5>1
        <5>3. QED
          BY <3>1, <5>2
      <4>2. QED
        BY <4>1
    <3>2. QED
      BY <3>1 DEF LastAt
  <2>10. Token(input) = rest
    <3>1. 2 \in 0 .. n /\ 2 + 1 = 3
      OBVIOUS
    <3>2. Behind(input, Blank) = SubSeq(input, 2 + 1, n)
      BY <2>9, <3>1, BehindIs
    <3>3. QED
      BY <1>1, <3>1, <3>2 DEF Token
  <2>11. ~Dotted(rest)
    BY <1>5, <2>8 DEF Dotted, Contains
  <2>12. Suits(rest, t)
    BY <2>2, <2>11 DEF Suits
  <2>13. QED
    BY <2>1, <2>2, <2>10, <2>12 DEF Offer
<1>7. C \subseteq Offer(Token(input))
  BY <1>6
<1>8. QED
  BY <1>1, <1>4, <1>7, SeqMonotonic

\* Whatever is typed, what is offered may take its place.
LEMMA CompletionsSuit ==
  ASSUME PlainNames, NEW s \in Text, NEW n \in Nat, n = Len(s), NEW p \in 0 .. n, NEW list \in Completions(s, p)
  PROVE  list \in Seq(Offer(Token(SubSeq(s, 1, p))))
<1>1. PICK input : input = SubSeq(s, 1, p)
  OBVIOUS
<1>2. input \in Text /\ Len(input) = p
  <2>1. \A i \in 1 .. p : s[i] \in Letters
    <3>1. \A i \in 1 .. p : i \in 1 .. n
      OBVIOUS
    <3>2. QED
      BY <3>1, ElementOfSeq DEF Text, Letters
  <2>2. 1 \in Int /\ p \in Int
    OBVIOUS
  <2>3. input \in Seq(Letters) /\ Len(input) = IF 1 <= p THEN p - 1 + 1 ELSE 0
    BY <1>1, <2>1, <2>2, SubSeqProperties
  <2>4. QED
    BY <2>3 DEF Text, Letters
<1>3. CASE IsPrefix(<<"\\d", Blank>>, input)
  <2>1. PICK c : c = <<"\\d", Blank>>
    OBVIOUS
  <2>2. PICK S : S = Letters \union {"\\d"}
    OBVIOUS
  <2>3. c \in Seq(S) /\ Len(c) = 2 /\ c[2] = Blank
    <3>1. Blank \in S
      BY <2>2, CompletionAssumption DEF Letters
    <3>2. QED
      BY <2>1, <2>2, <3>1
  <2>4. input \in Seq(S)
    <3>1. input \in Seq(Letters) /\ Letters \subseteq S
      BY <1>2, <2>2 DEF Text, Letters
    <3>2. QED
      BY <3>1, SeqMonotonic
  <2>5. p \in Nat /\ 2 \in Nat
    OBVIOUS
  <2>6. 2 <= p /\ \A i \in 1 .. 2 : c[i] = input[i]
    <3>1. IsPrefix(c, input) /\ 2 = Len(c) /\ p = Len(input)
      BY <1>2, <1>3, <2>1, <2>3
    <3>2. PICK m \in Nat : m = 2
      OBVIOUS
    <3>3. m <= p /\ \A i \in 1 .. m : c[i] = input[i]
      BY <2>3, <2>4, <2>5, <3>1, <3>2, PrefixIs
    <3>4. QED
      BY <3>2, <3>3
  <2>7. input[2] = Blank /\ p >= 2
    BY <2>3, <2>6
  <2>8. TableCompletions(SubSeq(input, 3, p)) \in Seq(Offer(Token(input)))
    BY <1>2, <2>5, <2>7, CommandOffers
  <2>9. list = TableCompletions(SubSeq(input, 3, p))
    BY <1>1, <1>3 DEF Completions
  <2>10. QED
    BY <1>1, <2>8, <2>9
<1>4. CASE ~IsPrefix(<<"\\d", Blank>>, input)
  <2>1. PICK map : map = BuildAliasMap(s)
    OBVIOUS
  <2>2. PICK order \in Orders(s) : list = Candidates(s, input, Trigger(input), map, order)
    BY <1>1, <1>4, <2>1 DEF Completions
  <2>3. AliasMap(map) /\ order \in Seq(DOMAIN map)
    BY <2>1, <2>2, MapIs, OrderIs
  <2>4. PICK refs, ctx : refs = TableRefs(s, map, order) /\ ctx = JoinContext(s, map)
    OBVIOUS
  <2>5. refs \in Seq(Word)
    BY <2>3, <2>4, RefsAre
  <2>6. PICK found : found = CandidatesForTrigger(Trigger(input), refs, ctx, map, order)
    OBVIOUS
  <2>7. found \in Seq(Candidate)
    BY <2>3, <2>4, <2>5, <2>6, OfferedIs
  <2>8. list = QueryCompletions(Trigger(input), Token(input), Prefix(input), found, map)
    BY <2>2, <2>4, <2>6 DEF Candidates
  <2>9. QED
    BY <1>1, <2>7, <2>8, QueryOffers
<1>5. QED
  BY <1>3, <1>4

\* The first part of a text.
LEMMA FirstPart ==
  ASSUME NEW C, NEW s \in Seq(C), NEW n \in Nat, n = Len(s), NEW k \in 0 .. n
  PROVE  /\ SubSeq(s, 1, k) \in Seq(C) /\ Len(SubSeq(s, 1, k)) = k
         /\ \A i \in 1 .. k : SubSeq(s, 1, k)[i] = s[i]
<1>1. \A i \in 1 .. k : s[i] \in C
  <2>1. \A i \in 1 .. k : i \in 1 .. n
    OBVIOUS
  <2>2. QED
    BY <2>1, ElementOfSeq
<1>2. 1 \in Int /\ k \in Int
  OBVIOUS
<1>3. PICK u : u = SubSeq(s, 1, k)
  OBVIOUS
<1>4. /\ u \in Seq(C) /\ Len(u) = IF 1 <= k THEN k - 1 + 1 ELSE 0
      /\ \A i \in 1 .. k - 1 + 1 : u[i] = s[1+i-1]
  BY <1>1, <1>2, <1>3, SubSeqProperties
<1>5. k - 1 + 1 = k /\ \A i \in 1 .. k : 1 + i - 1 = i
  OBVIOUS
<1>6. QED
  BY <1>3, <1>4, <1>5

\* What follows a place of it.
LEMMA OtherPart ==
  ASSUME NEW C, NEW s \in Seq(C), NEW n \in Nat, n = Len(s), NEW k \in 0 .. n
  PROVE  /\ SubSeq(s, k + 1, n) \in Seq(C) /\ Len(SubSeq(s, k + 1, n)) = n - k
         /\ \A i \in 1 .. n - k : SubSeq(s, k + 1, n)[i] = s[k+i]
<1>1. \A i \in k + 1 .. n : s[i] \in C
  <2>1. \A i \in k + 1 .. n : i \in 1 .. n
    OBVIOUS
  <2>2. QED
    BY <2>1, ElementOfSeq
<1>2. k + 1 \in Int /\ n \in Int
  OBVIOUS
<1>3. PICK u : u = SubSeq(s, k + 1, n)
  OBVIOUS
<1>4. /\ u \in Seq(C) /\ Len(u) = IF k + 1 <= n THEN n - (k + 1) + 1 ELSE 0
      /\ \A i \in 1 .. n - (k + 1) + 1 : u[i] = s[k+1+i-1]
  BY <1>1, <1>2, <1>3, SubSeqProperties
<1>5. n - (k + 1) + 1 = n - k /\ (~(k + 1 <= n) => n - k = 0) /\ \A i \in 1 .. n - k : k + 1 + i - 1 = k + i
  OBVIOUS
<1>6. QED
  BY <1>3, <1>4, <1>5

\* Where the word at the end of a text starts: behind its last blank and, from there, its last dot.
Starts(s, n, b, d) ==
  /\ b \in 0 .. n /\ LastAt(s, Blank, b)
  /\ d \in 0 .. n - b /\ LastAt(Token(s), ".", d)
  /\ Token(s) \in Text /\ Len(Token(s)) = n - b /\ \A i \in 1 .. n - b : Token(s)[i] = s[b+i]
  /\ LastPart(Token(s)) \in Text /\ Len(LastPart(Token(s))) = n - b - d
  /\ \A i \in 1 .. n - b - d : LastPart(Token(s))[i] = Token(s)[d+i]
  /\ WordStart(s) = b + d

\* There is such a place in every text.
LEMMA StartIs ==
  ASSUME NEW s \in Text, NEW n \in Nat, n = Len(s)
  PROVE  \E b, d \in Nat : Starts(s, n, b, d)
<1>1. PICK b \in 0 .. n : LastAt(s, Blank, b)
  BY LastExists
<1>2. PICK token : token = Token(s)
  OBVIOUS
<1>3. token \in Seq(Letters) /\ Len(token) = n - b /\ \A i \in 1 .. n - b : token[i] = s[b+i]
  <2>1. s \in Seq(Letters)
    BY DEF Text, Letters
  <2>2. /\ Behind(s, Blank) \in Seq(Letters) /\ Len(Behind(s, Blank)) = n - b
        /\ \A i \in 1 .. n - b : Behind(s, Blank)[i] = s[b+i]
    BY <1>1, <2>1, BehindText
  <2>3. QED
    BY <1>2, <2>2 DEF Token
<1>4. PICK m \in Nat : m = n - b
  <2>1. n - b \in Nat
    BY <1>1
  <2>2. QED
    BY <2>1
<1>5. PICK d \in 0 .. m : LastAt(token, ".", d)
  BY <1>3, <1>4, LastExists
<1>6. PICK part : part = LastPart(token)
  OBVIOUS
<1>7. part \in Seq(Letters) /\ Len(part) = m - d /\ \A i \in 1 .. m - d : part[i] = token[d+i]
  BY <1>3, <1>4, <1>5, <1>6, BehindText DEF LastPart
<1>8. WordStart(s) = b + d
  <2>1. WordStart(s) = n - Len(part)
    BY <1>2, <1>6 DEF WordStart
  <2>2. QED
    BY <1>4, <1>7, <2>1
<1>9. b \in Nat /\ d \in Nat
  OBVIOUS
<1>10. QED
  BY <1>1, <1>2, <1>3, <1>4, <1>5, <1>6, <1>7, <1>8, <1>9 DEF Starts, Text, Letters

\* A word that suits the token of a text keeps what was typed when it takes the
\* place of the last part of the token.
LEMMA TakenKeeps ==
  ASSUME NEW s \in Text, NEW n \in Nat, n = Len(s), NEW v \in Word, Suits(Token(s), v),
         NEW chosen, chosen = Token(SubSeq(s, 1, WordStart(s)) \o v)
  PROVE  IsPrefix(Token(s), chosen) \/ IsPrefix(Token(s), LastPart(chosen))
<1>1. PICK b \in Nat, d \in Nat : Starts(s, n, b, d)
  BY StartIs
<1>2. PICK token, part : token = Token(s) /\ part = LastPart(Token(s))
  OBVIOUS
<1>3. /\ b \in 0 .. n /\ d \in 0 .. n - b
      /\ token \in Seq(Letters) /\ Len(token) = n - b /\ \A i \in 1 .. n - b : token[i] = s[b+i]
      /\ part \in Seq(Letters) /\ Len(part) = n - b - d /\ \A i \in 1 .. n - b - d : part[i] = token[d+i]
  BY <1>1, <1>2 DEF Starts, Text, Letters
<1>4. PICK m \in Nat : m = Len(v)
  BY LenProperties DEF Word, Text
<1>5. v \in Seq(Letters) /\ \A i \in 1 .. m : v[i] # Blank
  BY <1>4 DEF Word, Text, Letters
<1>6. PICK k \in 0 .. n : k = b + d
  BY <1>3
<1>7. PICK front : front = SubSeq(s, 1, k)
  OBVIOUS
<1>8. front \in Seq(Letters) /\ Len(front) = k /\ \A i \in 1 .. k : front[i] = s[i]
  BY <1>7, FirstPart DEF Text, Letters
<1>9. PICK u : u = front \o v
  OBVIOUS
<1>10. /\ u \in Seq(Letters) /\ Len(u) = k + m
       /\ \A i \in 1 .. k + m : u[i] = IF i <= k THEN front[i] ELSE v[i-k]
  BY <1>4, <1>5, <1>8, <1>9, ConcatProperties
<1>11. \A i \in 1 .. k : u[i] = s[i]
  BY <1>8, <1>10
<1>12. ASSUME NEW i \in 1 .. m PROVE u[k+i] = v[i]
  <2>1. k + i \in 1 .. k + m /\ ~(k + i <= k) /\ (k + i) - k = i
    OBVIOUS
  <2>2. QED
    BY <1>10, <2>1
<1>13. LastAt(u, Blank, b)
  <2>1. b = 0 \/ u[b] = Blank
    <3>1. b = 0 \/ b \in 1 .. k
      BY <1>3, <1>6
    <3>2. b = 0 \/ s[b] = Blank
      BY <1>1 DEF Starts, LastAt
    <3>3. QED
      BY <1>11, <3>1, <3>2
  <2>2. ASSUME NEW i \in 1 .. k + m, u[i] = Blank PROVE i <= b
    <3>1. CASE i <= k
      <4>1. i \in 1 .. k /\ i \in 1 .. n
        BY <3>1
      <4>2. s[i] = Blank
        BY <1>11, <2>2, <4>1
      <4>3. QED
        BY <1>1, <4>1, <4>2 DEF Starts, LastAt
    <3>2. CASE ~(i <= k)
      <4>1. i - k \in 1 .. m /\ k + (i - k) = i
        BY <3>2
      <4>2. u[k+(i-k)] = v[i-k] /\ v[i-k] # Blank
        BY <1>5, <1>12, <4>1
      <4>3. QED
        BY <2>2, <4>1, <4>2
    <3>3. QED
      BY <3>1, <3>2
  <2>3. QED
    BY <1>10, <2>1, <2>2 DEF LastAt
<1>14. /\ chosen \in Seq(Letters) /\ Len(chosen) = d + m
       /\ \A i \in 1 .. d + m : chosen[i] = u[b+i]
  <2>1. PICK l \in Nat : l = k + m
    OBVIOUS
  <2>2. b \in 0 .. l /\ l - b = d + m
    BY <1>3, <1>6, <2>1, SMTT(30)
  <2>3. chosen = Behind(u, Blank)
    BY <1>1, <1>6, <1>7, <1>9 DEF Token, Starts
  <2>4. l = Len(u)
    BY <1>10, <2>1
  <2>5. /\ Behind(u, Blank) \in Seq(Letters) /\ Len(Behind(u, Blank)) = l - b
        /\ \A i \in 1 .. l - b : Behind(u, Blank)[i] = u[b+i]
    <3>1. u \in Seq(Letters) /\ LastAt(u, Blank, b)
      BY <1>10, <1>13
    <3>2. QED
      BY <2>2, <2>4, <3>1, BehindText, SMTT(30)
  <2>6. QED
    BY <2>2, <2>3, <2>5
<1>15. PICK t \in Nat, c \in Nat : t = n - b /\ c = d + m
  <2>1. n - b \in Nat
    BY <1>3
  <2>2. d + m \in Nat
    OBVIOUS
  <2>3. QED
    BY <2>1, <2>2
<1>16. CASE Dotted(token)
  <2>1. IsPrefix(part, v)
    BY <1>2, <1>16 DEF Suits
  <2>2. PICK p \in Nat : p = n - b - d
    BY <1>3
  <2>3. p <= m /\ \A i \in 1 .. p : part[i] = v[i]
    BY <1>3, <1>4, <1>5, <2>1, <2>2, PrefixIs
  <2>4. t <= c
    BY <1>15, <2>2, <2>3
  <2>5. ASSUME NEW i \in 1 .. t PROVE token[i] = chosen[i]
    <3>1. i \in 1 .. d + m /\ i \in 1 .. n - b
      BY <1>15, <2>4
    <3>2. chosen[i] = u[b+i] /\ token[i] = s[b+i]
      BY <1>3, <1>14, <3>1
    <3>3. CASE i <= d
      <4>1. b + i \in 1 .. k
        BY <1>6, <3>3
      <4>2. QED
        BY <1>11, <3>2, <4>1
    <3>4. CASE ~(i <= d)
      <4>1. i - d \in 1 .. p /\ i - d \in 1 .. m /\ d + (i - d) = i /\ k + (i - d) = b + i
        BY <1>6, <1>15, <2>2, <2>3, <3>4
      <4>2. part[i-d] = v[i-d]
        BY <2>3, <4>1
      <4>3. part[i-d] = token[i]
        BY <1>3, <2>2, <4>1
      <4>4. u[b+i] = v[i-d]
        BY <1>12, <4>1
      <4>5. QED
        BY <3>2, <4>2, <4>3, <4>4
    <3>5. QED
      BY <3>3, <3>4
  <2>6. IsPrefix(token, chosen)
    BY <1>3, <1>14, <1>15, <2>4, <2>5, PrefixIs
  <2>7. QED
    BY <1>2, <2>6
<1>17. CASE ~Dotted(token)
  <2>1. d = 0
    <3>1. d = 0 \/ token[d] = "."
      BY <1>1, <1>2 DEF Starts, LastAt
    <3>2. CASE d # 0
      <4>1. d \in 1 .. Len(token)
        BY <1>3, <3>2
      <4>2. QED
        BY <1>17, <3>1, <3>2, <4>1 DEF Dotted, Contains
    <3>3. QED
      BY <3>2
  <2>2. k = b /\ d + m = m
    BY <1>6, <2>1
  <2>3. \A i \in 1 .. m : chosen[i] = v[i]
    BY <1>12, <1>14, <2>2
  <2>4. chosen = v
    BY <1>4, <1>5, <1>14, <2>2, <2>3, SeqEqual
  <2>5. QED
    BY <1>2, <1>17, <2>4 DEF Suits
<1>18. QED
  BY <1>16, <1>17

\* What a menu shows is of the sort of the whole list.
LEMMA CutIs ==
  ASSUME NEW S, NEW list \in Seq(S)
  PROVE  Cut(list) \in Seq(S)
<1>1. PICK n \in Nat : n = Len(list)
  BY LenProperties
<1>2. MaxCompletions \in Nat
  BY CompletionAssumption
<1>3. PICK k \in 0 .. n : k = IF n < MaxCompletions THEN n ELSE MaxCompletions
  BY <1>2
<1>4. Cut(list) = SubSeq(list, 1, k)
  BY <1>1, <1>3 DEF Cut
<1>5. QED
  BY <1>1, <1>4, FirstPart

\* What a ghost text goes by are words.
LEMMA HintedIs ==
  ASSUME NEW list \in Seq(Candidate), NEW word
  PROVE  Values(Hinted(list, word)) \in Seq(Word)
<1>1. PICK n \in Nat : n = Len(list)
  BY LenProperties
<1>2. DOMAIN list = 1 .. n /\ \A i \in 1 .. n : list[i] \in Candidate
  BY <1>1, LenProperties, ElementOfSeq
<1>3. PICK found : found = Hinted(list, word)
  OBVIOUS
<1>4. PICK parts : parts = [i \in DOMAIN list |->
                              IF list[i].kind # "Keyword" /\ IsPrefix(word, list[i].value) THEN <<list[i]>> ELSE <<>>]
  OBVIOUS
<1>5. found = FlattenSeq(parts)
  BY <1>3, <1>4 DEF Hinted, Where, Flat, Each
<1>6. \A i \in 1 .. n : parts[i] = <<>> \/ \E x \in Candidate : parts[i] = <<x>>
  BY <1>2, <1>4
<1>7. parts = [i \in 1 .. n |-> parts[i]]
  BY <1>2, <1>4
<1>8. found \in Seq(Candidate)
  BY <1>5, <1>6, <1>7, PickedOut
<1>9. PICK m \in Nat : m = Len(found)
  BY <1>8, LenProperties
<1>10. DOMAIN found = 1 .. m /\ \A i \in 1 .. m : found[i] \in Candidate
  BY <1>8, <1>9, LenProperties, ElementOfSeq
<1>11. Values(found) = [i \in DOMAIN found |-> found[i].value]
  BY DEF Values, Each
<1>12. \A i \in 1 .. m : found[i].value \in Word
  BY <1>10 DEF Candidate
<1>13. Values(found) \in [1 .. m -> Word]
  BY <1>10, <1>11, <1>12
<1>14. QED
  BY <1>3, <1>13, FunctionIsSeq

\* What words begin with is a text.
LEMMA CommonIs ==
  ASSUME NEW values \in Seq(Word), values # <<>>
  PROVE  CommonPrefix(values) \in Text
<1>1. PICK n \in Nat : n = Len(values) /\ n # 0
  BY EmptySeq
<1>2. DOMAIN values = 1 .. n /\ \A i \in 1 .. n : values[i] \in Word
  BY <1>1, LenProperties, ElementOfSeq
<1>3. PICK S : S = ToSet(values)
  OBVIOUS
<1>4. values[1] \in S /\ \A w \in S : w \in Seq(Letters)
  BY <1>1, <1>2, <1>3 DEF ToSet, Word, Text, Letters
<1>5. PICK first : first = values[1]
  OBVIOUS
<1>6. first \in S /\ first \in Seq(Letters)
  BY <1>4, <1>5
<1>7. PICK m \in Nat : m = Len(first)
  BY <1>6, LenProperties
<1>8. PICK common : common = CommonPrefixes(S)
  OBVIOUS
<1>9. ASSUME NEW p \in common PROVE p \in Seq(Letters) /\ Len(p) \in 0 .. m
  <2>1. PICK q \in S : p \in Prefixes(q)
    BY <1>8 DEF CommonPrefixes
  <2>2. PICK l \in 0 .. Len(q) : p = SubSeq(q, 1, l)
    BY <2>1 DEF Prefixes
  <2>3. q \in Seq(Letters)
    BY <1>4
  <2>4. PICK k \in Nat : k = Len(q)
    BY <2>3, LenProperties
  <2>5. l \in 0 .. k
    BY <2>2, <2>4
  <2>6. p \in Seq(Letters) /\ Len(p) \in Nat
    BY <2>2, <2>3, <2>4, <2>5, FirstPart, LenProperties
  <2>7. IsPrefix(p, first)
    BY <1>6, <1>8 DEF CommonPrefixes
  <2>8. Len(p) <= m
    BY <1>7, <2>7 DEF IsPrefix
  <2>9. QED
    BY <2>6, <2>8
<1>10. <<>> \in common
  <2>1. 0 \in 0 .. m
    OBVIOUS
  <2>2. SubSeq(first, 1, 0) \in Seq(Letters) /\ Len(SubSeq(first, 1, 0)) = 0
    BY <1>6, <1>7, <2>1, FirstPart
  <2>3. SubSeq(first, 1, 0) = <<>>
    BY <2>2, EmptySeq
  <2>4. <<>> \in Prefixes(first)
    BY <1>7, <2>1, <2>3 DEF Prefixes
  <2>5. ASSUME NEW t \in S PROVE IsPrefix(<<>>, t)
    <3>1. t \in Seq(Letters) /\ <<>> \in Seq(Letters)
      BY <1>4
    <3>2. PICK k \in Nat : k = Len(t)
      BY <3>1, LenProperties
    <3>3. PICK z \in Nat : z = 0
      OBVIOUS
    <3>4. z = Len(<<>>) /\ z <= k /\ \A i \in 1 .. z : FALSE
      BY <3>3
    <3>5. QED
      BY <3>1, <3>2, <3>4, PrefixIs
  <2>6. QED
    BY <1>6, <1>8, <2>4, <2>5 DEF CommonPrefixes
<1>11. PICK lens : lens = {Len(p) : p \in common}
  OBVIOUS
<1>12. lens \subseteq 0 .. m /\ lens # {}
  BY <1>9, <1>10, <1>11
<1>13. PICK l \in lens : \A k \in lens : k <= l
  BY <1>12, GreatestPlace
<1>14. PICK p \in common : Len(p) = l
  BY <1>11, <1>13
<1>15. \A other \in common : Len(other) <= Len(p)
  BY <1>11, <1>13, <1>14
<1>16. CommonPrefix(values) = CHOOSE longest \in common : \A other \in common : Len(other) <= Len(longest)
  BY <1>3, <1>8 DEF CommonPrefix, LongestCommonPrefix
<1>17. CommonPrefix(values) \in common
  BY <1>14, <1>15, <1>16
<1>18. QED
  BY <1>9, <1>17 DEF Text, Letters

\* What is before the cursor once a text has taken the place of the last part of the
\* token, and the text before the cursor with that part replaced.
Placed(s, p, text)   == SubSeq(Replaced(s, p, text), 1, WordStart(SubSeq(s, 1, p)) + Len(text))
InPlace(input, text) == SubSeq(input, 1, WordStart(input)) \o text

\* The line in which the last part of the token has given way to a text: up to behind
\* that text it is what was before that part, and the text.
LEMMA ReplacedIs ==
  ASSUME NEW s \in Text, NEW n \in Nat, n = Len(s), NEW p \in 0 .. n, NEW text \in Text
  PROVE  /\ Replaced(s, p, text) \in Text
         /\ WordStart(SubSeq(s, 1, p)) + Len(text) \in 0 .. Len(Replaced(s, p, text))
         /\ Placed(s, p, text) = InPlace(SubSeq(s, 1, p), text)
<1>1. PICK input : input = SubSeq(s, 1, p)
  OBVIOUS
<1>2. s \in Seq(Letters) /\ text \in Seq(Letters)
  BY DEF Text, Letters
<1>3. input \in Seq(Letters) /\ Len(input) = p /\ \A i \in 1 .. p : input[i] = s[i]
  BY <1>1, <1>2, FirstPart
<1>4. PICK k \in 0 .. p : k = WordStart(input)
  <2>1. input \in Text /\ p \in Nat /\ p = Len(input)
    BY <1>3 DEF Text, Letters
  <2>2. PICK b \in Nat, d \in Nat : Starts(input, p, b, d)
    BY <2>1, StartIs
  <2>3. WordStart(input) = b + d /\ b \in 0 .. p /\ d \in 0 .. p - b
    BY <2>2 DEF Starts
  <2>4. b + d \in 0 .. p
    BY <2>3
  <2>5. QED
    BY <2>3, <2>4
<1>5. PICK m \in Nat : m = Len(text)
  BY <1>2, LenProperties
<1>6. PICK front : front = SubSeq(s, 1, k)
  OBVIOUS
<1>7. PICK back : back = SubSeq(s, p + 1, n)
  OBVIOUS
<1>8. k \in 0 .. n /\ p \in Nat /\ k \in Nat
  OBVIOUS
<1>9. front \in Seq(Letters) /\ Len(front) = k /\ \A i \in 1 .. k : front[i] = s[i]
  BY <1>2, <1>6, <1>8, FirstPart
<1>10. back \in Seq(Letters) /\ Len(back) = n - p
  BY <1>2, <1>7, OtherPart
<1>11. PICK u : u = front \o text
  OBVIOUS
<1>12. u \in Seq(Letters) /\ Len(u) = k + m
  BY <1>2, <1>5, <1>9, <1>11, ConcatProperties
<1>13. PICK r : r = u \o back
  OBVIOUS
<1>14. /\ r \in Seq(Letters) /\ Len(r) = k + m + (n - p)
       /\ \A i \in 1 .. k + m + (n - p) : r[i] = IF i <= k + m THEN u[i] ELSE back[i-(k+m)]
  <2>1. /\ r \in Seq(Letters) /\ Len(r) = Len(u) + Len(back)
        /\ \A i \in 1 .. Len(u) + Len(back) : r[i] = IF i <= Len(u) THEN u[i] ELSE back[i-Len(u)]
    BY <1>10, <1>12, <1>13, ConcatProperties
  <2>2. Len(u) = k + m /\ Len(back) = n - p
    BY <1>10, <1>12
  <2>3. QED
    BY <2>1, <2>2
<1>15. Replaced(s, p, text) = r
  BY <1>1, <1>4, <1>6, <1>7, <1>11, <1>13 DEF Replaced
<1>16. PICK l \in Nat : l = k + m + (n - p)
  <2>1. n - p \in Nat
    OBVIOUS
  <2>2. k + m + (n - p) \in Nat
    BY <1>8, <2>1
  <2>3. QED
    BY <2>2
<1>17. PICK a \in 0 .. l : a = k + m
  BY <1>8, <1>16
<1>18. SubSeq(r, 1, a) = u
  <2>1. l = Len(r)
    BY <1>14, <1>16
  <2>2. SubSeq(r, 1, a) \in Seq(Letters) /\ Len(SubSeq(r, 1, a)) = a /\ \A i \in 1 .. a : SubSeq(r, 1, a)[i] = r[i]
    BY <1>14, <2>1, FirstPart
  <2>3. \A i \in 1 .. a : r[i] = u[i]
    <3>1. \A i \in 1 .. a : i \in 1 .. k + m + (n - p) /\ i <= k + m
      BY <1>16, <1>17
    <3>2. QED
      BY <1>14, <3>1
  <2>4. QED
    BY <1>12, <1>17, <2>2, <2>3, SeqEqual
<1>19. SubSeq(input, 1, k) = front
  <2>1. /\ SubSeq(input, 1, k) \in Seq(Letters) /\ Len(SubSeq(input, 1, k)) = k
        /\ \A i \in 1 .. k : SubSeq(input, 1, k)[i] = input[i]
    BY <1>3, <1>8, FirstPart
  <2>2. \A i \in 1 .. k : i \in 1 .. p
    OBVIOUS
  <2>3. \A i \in 1 .. k : SubSeq(input, 1, k)[i] = front[i]
    BY <1>3, <1>9, <2>1, <2>2
  <2>4. QED
    BY <1>9, <2>1, <2>3, SeqEqual
<1>20. WordStart(input) + Len(text) = a
  BY <1>4, <1>5, <1>17
<1>21. QED
  BY <1>1, <1>4, <1>11, <1>14, <1>15, <1>16, <1>18, <1>19, <1>20 DEF Text, Letters, Placed, InPlace

\* The line is a text with the cursor in it, and an open menu offers what suits it.
LineIs == line \in Text /\ pos \in 0 .. Len(line)
MenuSuits == menu # Closed => menu \in Seq(Offer(Token(Input)))
PromptInv == LineIs /\ MenuSuits

\* What is shown of what is offered.
LEMMA ShownSuits ==
  ASSUME PlainNames, NEW s \in Text, NEW p \in 0 .. Len(s), NEW shown \in Shown(s, p)
  PROVE  shown \in Seq(Offer(Token(SubSeq(s, 1, p))))
<1>1. PICK n \in Nat : n = Len(s)
  BY LenProperties DEF Text
<1>2. PICK list \in Completions(s, p) : shown = Cut(list)
  BY DEF Shown
<1>3. p \in 0 .. n
  BY <1>1
<1>4. list \in Seq(Offer(Token(SubSeq(s, 1, p))))
  BY <1>1, <1>2, <1>3, CompletionsSuit
<1>5. QED
  BY <1>2, <1>4, CutIs

\* The values of what is offered are words.
LEMMA ValuesAre ==
  ASSUME NEW token, NEW list \in Seq(Offer(token))
  PROVE  Values(list) \in Seq(Word) /\ Len(Values(list)) = Len(list) /\ \A i \in 1 .. Len(list) : list[i].value \in Word
<1>1. PICK n \in Nat : n = Len(list)
  BY LenProperties
<1>2. DOMAIN list = 1 .. n /\ \A i \in 1 .. n : list[i] \in Offer(token)
  BY <1>1, LenProperties, ElementOfSeq
<1>3. \A i \in 1 .. n : list[i].value \in Word
  BY <1>2 DEF Offer, Candidate
<1>4. Values(list) = [i \in DOMAIN list |-> list[i].value]
  BY DEF Values, Each
<1>5. Values(list) \in [1 .. n -> Word]
  BY <1>2, <1>3, <1>4
<1>6. Values(list) \in Seq(Word) /\ Len(Values(list)) = n
  BY <1>5, FunctionIsSeq, LenProperties
<1>7. QED
  BY <1>1, <1>3, <1>6

\* The ghost text is a text.
LEMMA HintIs ==
  ASSUME PlainNames, NEW s \in Text, NEW p \in 0 .. Len(s), NEW hint \in Hint(s, p)
  PROVE  hint \in Text
<1>1. PICK n \in Nat : n = Len(s)
  BY LenProperties DEF Text
<1>2. p \in 0 .. n
  BY <1>1
<1>3. PICK input : input = SubSeq(s, 1, p)
  OBVIOUS
<1>4. PICK word : word = Typing(input)
  OBVIOUS
<1>5. PICK list \in Completions(s, p) : hint = Rest(word, Values(Hinted(list, word)))
  BY <1>3, <1>4 DEF Hint
<1>6. input \in Text /\ Len(input) = p /\ p \in Nat
  BY <1>1, <1>2, <1>3, FirstPart DEF Text
<1>7. PICK l \in Nat : l = Len(word)
  <2>1. PICK b \in Nat, d \in Nat : Starts(input, p, b, d)
    BY <1>6, StartIs
  <2>2. word \in Seq(Letters)
    BY <1>4, <2>1 DEF Starts, Typing, Text, Letters
  <2>3. QED
    BY <2>2, LenProperties
<1>8. PICK values : values = Values(Hinted(list, word))
  OBVIOUS
<1>9. values \in Seq(Word)
  <2>1. list \in Seq(Offer(Token(input)))
    BY <1>1, <1>2, <1>3, CompletionsSuit
  <2>2. Offer(Token(input)) \subseteq Candidate
    BY DEF Offer
  <2>3. list \in Seq(Candidate)
    BY <2>1, <2>2, SeqMonotonic
  <2>4. QED
    BY <1>8, <2>3, HintedIs
<1>10. CASE values = <<>>
  <2>1. hint = <<>>
    BY <1>5, <1>8, <1>10 DEF Rest
  <2>2. QED
    BY <2>1 DEF Text
<1>11. CASE values # <<>>
  <2>1. PICK common : common = CommonPrefix(values)
    OBVIOUS
  <2>2. common \in Seq(Letters)
    BY <1>9, <1>11, <2>1, CommonIs DEF Text, Letters
  <2>3. PICK m \in Nat : m = Len(common)
    BY <2>2, LenProperties
  <2>4. \A i \in l + 1 .. m : common[i] \in Letters
    <3>1. \A i \in l + 1 .. m : i \in 1 .. m
      OBVIOUS
    <3>2. QED
      BY <2>2, <2>3, <3>1, ElementOfSeq
  <2>5. l + 1 \in Int /\ m \in Int
    OBVIOUS
  <2>6. SubSeq(common, l + 1, m) \in Seq(Letters)
    BY <2>4, <2>5, SubSeqProperties
  <2>7. hint = SubSeq(common, l + 1, m)
    BY <1>5, <1>7, <1>8, <1>11, <2>1, <2>3 DEF Rest
  <2>8. QED
    BY <2>6, <2>7 DEF Text, Letters
<1>12. QED
  BY <1>10, <1>11

\* Taking a text leaves a line with the cursor in it.
LEMMA TakeIs ==
  ASSUME LineIs, NEW text \in Text, Take(text)
  PROVE  LineIs'
<1>1. PICK n \in Nat : n = Len(line)
  BY LenProperties DEF LineIs, Text
<1>2. PICK p \in 0 .. n : p = pos
  BY <1>1 DEF LineIs
<1>3. PICK input, at : input = SubSeq(line, 1, p) /\ at = WordStart(input) + Len(text)
  OBVIOUS
<1>4. Replaced(line, p, text) \in Text /\ at \in 0 .. Len(Replaced(line, p, text))
  BY <1>1, <1>3, ReplacedIs DEF LineIs
<1>5. line' = Replaced(line, p, text) /\ pos' = at
  BY <1>2, <1>3 DEF Take, PosAfter, Input
<1>6. QED
  BY <1>4, <1>5 DEF LineIs

\* Initially a line is there and no menu.
LEMMA PromptInit ==
  ASSUME CompletionInit
  PROVE  PromptInv
<1>1. line \in Text
  BY CompletionAssumption DEF CompletionInit
<1>2. QED
  BY <1>1 DEF CompletionInit, PromptInv, LineIs, MenuSuits

\* A menu that is opened, or kept open, over a line suits that line.
LEMMA OpenedSuits ==
  ASSUME PlainNames, LineIs', menu' = Closed \/ menu' \in Shown(line', pos')
  PROVE  MenuSuits'
<1>1. PICK s, p, shown : s = line' /\ p = pos' /\ shown = menu'
  OBVIOUS
<1>2. s \in Text /\ p \in 0 .. Len(s)
  BY <1>1 DEF LineIs
<1>3. CASE shown = Closed
  BY <1>1, <1>3 DEF MenuSuits
<1>4. CASE shown \in Shown(s, p)
  <2>1. shown \in Seq(Offer(Token(SubSeq(s, 1, p))))
    BY <1>2, <1>4, ShownSuits
  <2>2. QED
    BY <1>1, <2>1 DEF MenuSuits, Input
<1>5. QED
  BY <1>1, <1>3, <1>4

\* A character typed.
LEMMA TypeKeeps ==
  ASSUME PlainNames, PromptInv, NEW c \in Typed, Type(c)
  PROVE  PromptInv'
<1>1. PICK n \in Nat : n = Len(line)
  BY LenProperties DEF PromptInv, LineIs, Text
<1>2. PICK p \in 0 .. n : p = pos
  BY <1>1 DEF PromptInv, LineIs
<1>3. line \in Seq(Letters)
  BY DEF PromptInv, LineIs, Text, Letters
<1>4. PICK front, back : front = SubSeq(line, 1, p) /\ back = SubSeq(line, p + 1, n)
  OBVIOUS
<1>5. front \in Seq(Letters) /\ Len(front) = p
  BY <1>1, <1>3, <1>4, FirstPart
<1>6. back \in Seq(Letters) /\ Len(back) = n - p
  BY <1>1, <1>3, <1>4, OtherPart
<1>7. c \in Letters
  BY CompletionAssumption DEF Letters
<1>8. PICK one : one = <<c>>
  OBVIOUS
<1>9. one \in Seq(Letters) /\ Len(one) = 1
  BY <1>7, <1>8
<1>10. PICK u : u = front \o one
  OBVIOUS
<1>11. u \in Seq(Letters) /\ Len(u) = p + 1
  <2>1. u \in Seq(Letters) /\ Len(u) = Len(front) + Len(one)
    BY <1>5, <1>9, <1>10, ConcatProperties
  <2>2. QED
    BY <1>5, <1>9, <2>1
<1>12. u \o back \in Seq(Letters) /\ Len(u \o back) = p + 1 + (n - p)
  <2>1. u \o back \in Seq(Letters) /\ Len(u \o back) = Len(u) + Len(back)
    BY <1>6, <1>11, ConcatProperties
  <2>2. QED
    BY <1>6, <1>11, <2>1
<1>13. line' = u \o back /\ pos' = p + 1
  BY <1>1, <1>2, <1>4, <1>8, <1>10 DEF Type
<1>14. LineIs'
  <2>1. p + 1 \in 0 .. p + 1 + (n - p)
    OBVIOUS
  <2>2. QED
    BY <1>12, <1>13, <2>1 DEF LineIs, Text, Letters
<1>15. menu' = Closed \/ menu' \in Shown(line', pos')
  BY DEF Type
<1>16. QED
  BY <1>14, <1>15, OpenedSuits DEF PromptInv

\* The ghost text taken.
LEMMA AcceptKeeps ==
  ASSUME PlainNames, PromptInv, AcceptHint
  PROVE  PromptInv'
<1>1. PICK hint \in Hint(line, pos) : line' = line \o hint /\ pos' = Len(line')
  BY DEF AcceptHint
<1>2. hint \in Text
  BY <1>1, HintIs DEF PromptInv, LineIs
<1>3. line \in Seq(Letters) /\ hint \in Seq(Letters)
  BY <1>2 DEF PromptInv, LineIs, Text, Letters
<1>4. line' \in Seq(Letters)
  BY <1>1, <1>3, ConcatProperties
<1>5. Len(line') \in 0 .. Len(line')
  <2>1. Len(line') \in Nat
    BY <1>4, LenProperties
  <2>2. QED
    BY <2>1
<1>6. LineIs'
  BY <1>1, <1>4, <1>5 DEF LineIs, Text, Letters
<1>7. menu' = Closed
  BY DEF AcceptHint
<1>8. QED
  BY <1>6, <1>7, OpenedSuits DEF PromptInv

\* The menu opened.
LEMMA OpenKeeps ==
  ASSUME PlainNames, PromptInv, OpenMenu
  PROVE  PromptInv'
<1>1. LineIs
  BY DEF PromptInv
<1>2. PICK shown \in Shown(line, pos) :
        \/ Len(shown) = 1 /\ Take(shown[1].value) /\ menu' = Closed
        \/ /\ shown # <<>> /\ Take(CommonPrefix(Values(shown)))
           /\ menu' \in Shown(line', pos')
        \/ menu' = shown /\ UNCHANGED <<line, pos>>
  BY DEF OpenMenu
<1>3. shown \in Seq(Offer(Token(Input)))
  BY <1>1, ShownSuits DEF LineIs, Input
<1>4. /\ Values(shown) \in Seq(Word) /\ Len(Values(shown)) = Len(shown)
      /\ \A i \in 1 .. Len(shown) : shown[i].value \in Word
  BY <1>3, ValuesAre
<1>5. CASE Len(shown) = 1 /\ Take(shown[1].value) /\ menu' = Closed
  <2>1. shown[1].value \in Text
    BY <1>4, <1>5 DEF Word
  <2>2. LineIs'
    BY <1>1, <1>5, <2>1, TakeIs
  <2>3. QED
    BY <1>5, <2>2, OpenedSuits DEF PromptInv
<1>6. CASE shown # <<>> /\ Take(CommonPrefix(Values(shown))) /\ menu' \in Shown(line', pos')
  <2>1. Values(shown) # <<>>
    BY <1>3, <1>4, <1>6, EmptySeq
  <2>2. CommonPrefix(Values(shown)) \in Text
    BY <1>4, <2>1, CommonIs
  <2>3. LineIs'
    BY <1>1, <1>6, <2>2, TakeIs
  <2>4. QED
    BY <1>6, <2>3, OpenedSuits DEF PromptInv
<1>7. CASE menu' = shown /\ UNCHANGED <<line, pos>>
  <2>1. LineIs'
    BY <1>1, <1>7 DEF LineIs
  <2>2. menu' \in Shown(line', pos')
    BY <1>7
  <2>3. QED
    BY <2>1, <2>2, OpenedSuits DEF PromptInv
<1>8. QED
  BY <1>2, <1>5, <1>6, <1>7

\* A suggestion of the menu taken.
LEMMA ChooseKeeps ==
  ASSUME PlainNames, PromptInv, NEW i, Choose(i)
  PROVE  PromptInv'
<1>1. LineIs /\ menu \in Seq(Offer(Token(Input))) /\ i \in DOMAIN menu
  BY DEF PromptInv, MenuSuits, Choose
<1>2. menu[i].value \in Text
  <2>1. i \in 1 .. Len(menu) /\ \A j \in 1 .. Len(menu) : menu[j].value \in Word
    BY <1>1, ValuesAre, LenProperties
  <2>2. QED
    BY <2>1 DEF Word
<1>3. LineIs'
  BY <1>1, <1>2, TakeIs DEF Choose
<1>4. QED
  BY <1>3, OpenedSuits DEF PromptInv, Choose

\* No step leaves a line without its cursor, or a menu that does not suit the line.
LEMMA PromptStep ==
  ASSUME PlainNames, PromptInv, [CompletionNext]_completionVars
  PROVE  PromptInv'
<1>1. ASSUME NEW c \in Typed, Type(c) PROVE PromptInv'
  BY <1>1, TypeKeeps
<1>2. CASE AcceptHint
  BY <1>2, AcceptKeeps
<1>3. CASE OpenMenu
  BY <1>3, OpenKeeps
<1>4. CASE Dismiss
  <2>1. LineIs' /\ menu' = Closed
    BY <1>4 DEF Dismiss, PromptInv, LineIs
  <2>2. QED
    BY <2>1, OpenedSuits DEF PromptInv
<1>5. ASSUME NEW i \in 1 .. MaxCompletions, Choose(i) PROVE PromptInv'
  BY <1>5, ChooseKeeps
<1>6. CASE UNCHANGED completionVars
  BY <1>6 DEF completionVars, PromptInv, LineIs, MenuSuits, Input
<1>7. QED
  BY <1>1, <1>2, <1>3, <1>4, <1>5, <1>6 DEF CompletionNext

\* What is offered keeps what was typed.
LEMMA PromptKeeps ==
  ASSUME PlainNames, PromptInv
  PROVE  ChoiceKeepsTyped
<1>1. SUFFICES ASSUME menu # Closed, Token(Input) \notin Triggers, NEW i \in DOMAIN menu, NEW chosen,
                      chosen = Token(SubSeq(Replaced(line, pos, menu[i].value), 1, PosAfter(pos, menu[i].value)))
               PROVE  IsPrefix(Token(Input), chosen) \/ IsPrefix(Token(Input), LastPart(chosen))
  BY DEF ChoiceKeepsTyped
<1>2. PICK n \in Nat : n = Len(line)
  BY LenProperties DEF PromptInv, LineIs, Text
<1>3. PICK p \in 0 .. n : p = pos
  BY <1>2 DEF PromptInv, LineIs
<1>4. PICK input : input = SubSeq(line, 1, p)
  OBVIOUS
<1>5. Input = input
  BY <1>3, <1>4 DEF Input
<1>6. input \in Text /\ Len(input) = p /\ p \in Nat
  BY <1>2, <1>4, FirstPart DEF PromptInv, LineIs, Text
<1>7. PICK v : v = menu[i].value
  OBVIOUS
<1>8. menu[i] \in Offer(Token(input))
  <2>1. menu \in Seq(Offer(Token(input)))
    BY <1>1, <1>5 DEF PromptInv, MenuSuits
  <2>2. i \in 1 .. Len(menu)
    BY <1>1, <2>1, LenProperties
  <2>3. QED
    BY <2>1, <2>2, ElementOfSeq
<1>9. v \in Word /\ Suits(Token(input), v)
  BY <1>1, <1>5, <1>7, <1>8 DEF Offer, Candidate
<1>10. PICK at : at = WordStart(input) + Len(v)
  OBVIOUS
<1>11. SubSeq(Replaced(line, p, v), 1, at) = SubSeq(input, 1, WordStart(input)) \o v
  <2>1. v \in Text /\ line \in Text
    BY <1>9 DEF Word, PromptInv, LineIs
  <2>2. Placed(line, p, v) = InPlace(input, v)
    BY <1>2, <1>4, <2>1, ReplacedIs
  <2>3. QED
    BY <1>4, <1>10, <2>2 DEF Placed, InPlace
<1>12. PosAfter(pos, v) = at
  BY <1>5, <1>10 DEF PosAfter
<1>13. chosen = Token(SubSeq(input, 1, WordStart(input)) \o v)
  BY <1>1, <1>3, <1>7, <1>11, <1>12
<1>14. QED
  BY <1>5, <1>6, <1>9, <1>13, TakenKeeps

\* Taking a suggestion keeps what was typed, whatever the line, the cursor, the
\* alphabet and the frequencies, for a schema of plain names
\* (repl/completer.rs, completion_ranker.rs, query_completion.rs).
THEOREM ChoiceKeeps ==
  ASSUME PlainNames
  PROVE  CompletionSpec => []ChoiceKeepsTyped
<1>1. CompletionInit => PromptInv
  BY PromptInit
<1>2. PromptInv /\ [CompletionNext]_completionVars => PromptInv'
  BY PromptStep
<1>3. PromptInv => ChoiceKeepsTyped
  BY PromptKeeps
<1>4. QED
  BY <1>1, <1>2, <1>3, PTL DEF CompletionSpec
-----------------------------------------------------------------------------
(* What is offered does not depend on the order of the alias map: the filter, *)
(* the ranking and the removal of repetitions make one list of what was found. *)

\* The part that a place of a flattened text is in: the first that ends no sooner.
Holder(e, s, t, n, k, i) ==
  /\ i \in 1 .. n /\ e[i-1] < k /\ k <= e[i] /\ \A j \in 1 .. n : k <= e[j] => i <= j
  /\ e[i-1] \in Nat /\ k - e[i-1] \in 1 .. Len(s[i]) /\ t[k] = s[i][k - e[i-1]]

\* Each place has one.
LEMMA InPart ==
  ASSUME NEW C, NEW s \in Seq(Seq(C)), NEW n \in Nat, n = Len(s), NEW e, NEW t \in Seq(C), Places(e, t, s),
         NEW m \in Nat, m = Len(t), NEW k \in 1 .. m
  PROVE  \E i : Holder(e, s, t, n, k, i)
<1>1. e[0] = 0 /\ e[n] = m
  BY DEF Places
<1>2. \A i \in 1 .. n : e[i-1] \in Nat /\ e[i] = e[i-1] + Len(s[i]) /\ Stands(t, e[i-1], s[i])
  BY DEF Places
<1>3. PICK T : T = {i \in 1 .. n : k <= e[i]}
  OBVIOUS
<1>4. n \in T
  <2>1. n # 0
    BY <1>1
  <2>2. n \in 1 .. n /\ k <= e[n]
    BY <1>1, <2>1
  <2>3. QED
    BY <1>3, <2>2
<1>5. PICK i \in T : \A j \in T : i <= j
  <2>1. ASSUME NEW i \in T PROVE i \in Nat
    BY <1>3
  <2>2. T \subseteq Nat /\ T # {}
    BY <1>4, <2>1
  <2>3. QED
    BY <2>2, LeastPlace
<1>6. i \in 1 .. n /\ k <= e[i]
  BY <1>3
<1>7. e[i-1] < k
  <2>1. CASE i = 1
    <3>1. i - 1 = 0 /\ 0 < k
      BY <2>1
    <3>2. QED
      BY <1>1, <3>1
  <2>2. CASE i # 1
    <3>1. i - 1 \in 1 .. n /\ ~(i <= i - 1)
      BY <1>6, <2>2
    <3>2. i - 1 \notin T
      BY <1>5, <3>1
    <3>3. ~(k <= e[i-1]) /\ e[i-1] \in Nat
      BY <1>2, <1>3, <1>6, <3>1, <3>2
    <3>4. QED
      BY <3>3
  <2>3. QED
    BY <2>1, <2>2
<1>8. PICK a \in Nat : a = e[i-1]
  BY <1>2, <1>6
<1>9. PICK w \in Seq(C) : w = s[i]
  BY <1>6, ElementOfSeq
<1>10. PICK l \in Nat : l = Len(w)
  BY LenProperties
<1>11. e[i] = a + l /\ Stands(t, a, w)
  BY <1>2, <1>6, <1>8, <1>9, <1>10
<1>12. k - a \in 1 .. l /\ a + (k - a) = k
  BY <1>6, <1>7, <1>8, <1>11
<1>13. t[a+(k-a)] = w[k-a]
  BY <1>10, <1>11, <1>12 DEF Stands
<1>14. \A j \in 1 .. n : k <= e[j] => i <= j
  BY <1>3, <1>5
<1>15. Holder(e, s, t, n, k, i)
  BY <1>6, <1>7, <1>8, <1>9, <1>10, <1>12, <1>13, <1>14 DEF Holder
<1>16. QED
  BY <1>15

\* What stands in a flattened sequence stands in one of its parts.
LEMMA FlattenedSet ==
  ASSUME NEW C, NEW n \in Nat, NEW s, s = [i \in 1 .. n |-> s[i]], \A i \in 1 .. n : s[i] \in Seq(C), NEW x
  PROVE  x \in ToSet(FlattenSeq(s)) <=> \E i \in 1 .. n : x \in ToSet(s[i])
<1>1. s \in Seq(Seq(C)) /\ n = Len(s)
  <2>1. s \in [1 .. n -> Seq(C)]
    OBVIOUS
  <2>2. QED
    BY <2>1, FunctionIsSeq, LenProperties
<1>2. PICK t \in Seq(C) : \E e : t = FlattenSeq(s) /\ Places(e, t, s)
  BY <1>1, FlattenIs
<1>4. PICK e : t = FlattenSeq(s) /\ Places(e, t, s)
  BY <1>2
<1>5. PICK m \in Nat : m = Len(t) /\ DOMAIN t = 1 .. m
  BY LenProperties
<1>6. ASSUME NEW k \in 1 .. m PROVE \E i \in 1 .. n : t[k] \in ToSet(s[i])
  <2>1. /\ s \in Seq(Seq(C)) /\ n \in Nat /\ n = Len(s) /\ t \in Seq(C) /\ Places(e, t, s)
        /\ m \in Nat /\ m = Len(t) /\ k \in 1 .. m
    BY <1>1, <1>4, <1>5
  <2>2. PICK i : Holder(e, s, t, n, k, i)
    BY <2>1, InPart
  <2>3. i \in 1 .. n /\ k - e[i-1] \in 1 .. Len(s[i]) /\ t[k] = s[i][k - e[i-1]]
    BY <2>2 DEF Holder
  <2>4. DOMAIN s[i] = 1 .. Len(s[i])
    BY <1>1, <2>3, ElementOfSeq, LenProperties
  <2>5. t[k] \in ToSet(s[i])
    BY <2>3, <2>4 DEF ToSet
  <2>6. QED
    BY <2>3, <2>5
<1>7. ASSUME NEW i \in 1 .. n, NEW j \in DOMAIN s[i] PROVE s[i][j] \in ToSet(t)
  <2>1. PICK a \in Nat : a = e[i-1] /\ Stands(t, a, s[i])
    BY <1>1, <1>4 DEF Places
  <2>2. PICK w \in Seq(C) : w = s[i]
    BY <1>1, ElementOfSeq
  <2>3. PICK l \in Nat : l = Len(w) /\ DOMAIN w = 1 .. l
    BY LenProperties
  <2>4. j \in 1 .. l /\ a + l <= m /\ t[a+j] = w[j]
    BY <1>5, <2>1, <2>2, <2>3 DEF Stands
  <2>5. a + j \in 1 .. m
    BY <2>4
  <2>6. QED
    BY <1>5, <2>2, <2>4, <2>5 DEF ToSet
<1>8. ASSUME x \in ToSet(t) PROVE \E i \in 1 .. n : x \in ToSet(s[i])
  <2>1. PICK k \in 1 .. m : x = t[k]
    BY <1>5, <1>8 DEF ToSet
  <2>2. QED
    BY <1>6, <2>1
<1>9. ASSUME NEW i \in 1 .. n, x \in ToSet(s[i]) PROVE x \in ToSet(t)
  <2>1. PICK j \in DOMAIN s[i] : x = s[i][j]
    BY <1>9 DEF ToSet
  <2>2. QED
    BY <1>7, <2>1
<1>10. QED
  BY <1>4, <1>8, <1>9

\* The elements that a test lets through, in order: where each is from, and that none
\* is left out.
From(at, r, s, parts, n) ==
  /\ \A k \in 1 .. Len(r) : at[k] \in 1 .. n /\ parts[at[k]] # <<>> /\ r[k] = s[at[k]]
  /\ \A k, l \in 1 .. Len(r) : k < l => at[k] < at[l]
  /\ \A i \in 1 .. n : parts[i] # <<>> => \E k \in 1 .. Len(r) : r[k] = s[i]

\* A filter has such origins.
LEMMA Sources ==
  ASSUME NEW S, NEW s \in Seq(S), NEW n \in Nat, n = Len(s), NEW parts, parts = [i \in 1 .. n |-> parts[i]],
         \A i \in 1 .. n : parts[i] = <<>> \/ parts[i] = <<s[i]>>
  PROVE  FlattenSeq(parts) \in Seq(S) /\ \E at : From(at, FlattenSeq(parts), s, parts, n)
<1>1. \A i \in 1 .. n : s[i] \in S
  BY ElementOfSeq
<1>2. ASSUME NEW i \in 1 .. n PROVE parts[i] \in Seq(S)
  <2>1. PICK x \in S : x = s[i]
    BY <1>1
  <2>2. <<>> \in Seq(S) /\ <<x>> \in Seq(S)
    OBVIOUS
  <2>3. QED
    BY <2>1, <2>2
<1>3. parts \in Seq(Seq(S)) /\ n = Len(parts)
  <2>1. parts \in [1 .. n -> Seq(S)]
    BY <1>2
  <2>2. QED
    BY <2>1, FunctionIsSeq, LenProperties
<1>4. PICK r, e : r \in Seq(S) /\ r = FlattenSeq(parts) /\ Places(e, r, parts)
  BY <1>3, FlattenIs
<1>5. PICK m \in Nat : m = Len(r)
  BY LenProperties
<1> DEFINE Source(k, i) == /\ i \in 1 .. n /\ k = e[i] /\ parts[i] # <<>> /\ r[k] = s[i]
                           /\ \A j \in 1 .. n : k <= e[j] => i <= j
<1>6. ASSUME NEW k \in 1 .. m PROVE \E i : Source(k, i)
  <2>1. /\ parts \in Seq(Seq(S)) /\ n \in Nat /\ n = Len(parts) /\ r \in Seq(S) /\ Places(e, r, parts)
        /\ m \in Nat /\ m = Len(r) /\ k \in 1 .. m
    BY <1>3, <1>4, <1>5
  <2>2. PICK i : Holder(e, parts, r, n, k, i)
    BY <2>1, InPart
  <2>3. /\ i \in 1 .. n /\ \A j \in 1 .. n : k <= e[j] => i <= j
        /\ e[i-1] \in Nat /\ k - e[i-1] \in 1 .. Len(parts[i]) /\ r[k] = parts[i][k - e[i-1]]
    BY <2>2 DEF Holder
  <2>4. PICK x \in S : x = s[i]
    BY <1>1, <2>3
  <2>5. parts[i] = <<>> \/ parts[i] = <<x>>
    BY <2>3, <2>4
  <2>6. parts[i] # <<>>
    BY <2>3
  <2>7. Len(<<x>>) = 1 /\ <<x>>[1] = x
    OBVIOUS
  <2>8. Len(parts[i]) = 1 /\ parts[i][1] = x
    BY <2>5, <2>6, <2>7
  <2>9. PICK d : d = k - e[i-1]
    OBVIOUS
  <2>10. d \in 1 .. 1
    BY <2>3, <2>8, <2>9, Zenon
  <2>11. d = 1
    BY <2>10
  <2>12. k - e[i-1] = 1
    BY <2>9, <2>11
  <2>13. r[k] = s[i]
    BY <2>3, <2>4, <2>8, <2>12
  <2>14. e[i] = e[i-1] + Len(parts[i])
    BY <1>3, <1>4, <2>3 DEF Places
  <2>15. k = e[i]
    BY <2>3, <2>8, <2>12, <2>14
  <2>16. Source(k, i)
    BY <2>3, <2>6, <2>13, <2>15
  <2>17. QED
    BY <2>16
<1>7. PICK at : at = [k \in 1 .. m |-> CHOOSE i : Source(k, i)]
  OBVIOUS
<1>8. \A k \in 1 .. m : Source(k, at[k])
  <2> HIDE DEF Source
  <2>1. QED
    BY <1>6, <1>7
<1>9. ASSUME NEW k \in 1 .. m, NEW l \in 1 .. m, k < l PROVE at[k] < at[l]
  <2>1. /\ at[k] \in 1 .. n /\ at[l] \in 1 .. n /\ k = e[at[k]] /\ l = e[at[l]]
        /\ \A j \in 1 .. n : k <= e[j] => at[k] <= j
    BY <1>8
  <2>2. at[k] <= at[l] /\ at[k] # at[l]
    BY <1>9, <2>1
  <2>3. QED
    BY <2>1, <2>2
<1>10. ASSUME NEW i \in 1 .. n, parts[i] # <<>> PROVE \E k \in 1 .. m : r[k] = s[i]
  <2>1. PICK x \in S : x = s[i]
    BY <1>1
  <2>2. parts[i] = <<x>>
    BY <1>10, <2>1
  <2>3. PICK a \in Nat : a = e[i-1] /\ Stands(r, a, parts[i])
    BY <1>3, <1>4 DEF Places
  <2>4. Stands(r, a, <<x>>) /\ Len(<<x>>) = 1 /\ <<x>>[1] = x
    BY <2>2, <2>3
  <2>5. a + 1 <= m /\ r[a+1] = s[i]
    BY <1>5, <2>1, <2>4 DEF Stands
  <2>6. a + 1 \in 1 .. m
    BY <2>5
  <2>7. QED
    BY <2>5, <2>6
<1>11. From(at, r, s, parts, n)
  BY <1>5, <1>8, <1>9, <1>10 DEF From
<1>12. QED
  BY <1>4, <1>11

\* A letter has a place in the alphabet.
LEMMA CodeIs ==
  ASSUME NEW c \in Letters
  PROVE  Code(c) \in Nat /\ Alphabet[Code(c)] = c
<1>1. Alphabet \in Seq(Letters)
  BY CompletionAssumption DEF Letters
<1>2. PICK n \in Nat : n = Len(Alphabet) /\ DOMAIN Alphabet = 1 .. n
  BY <1>1, LenProperties
<1>3. PICK I : I = {i \in 1 .. Len(Alphabet) : Alphabet[i] = c}
  OBVIOUS
<1>4. Code(c) = IF I # {} THEN Min(I) ELSE 0
  BY <1>3 DEF Code, SelectInSeq
<1>5. PICK i \in 1 .. n : Alphabet[i] = c
  BY <1>2 DEF Letters, ToSet
<1>6. i \in I
  BY <1>2, <1>3, <1>5
<1>7. I \subseteq Nat
  <2>1. ASSUME NEW x \in I PROVE x \in Nat
    BY <1>2, <1>3
  <2>2. QED
    BY <2>1
<1>8. \E m \in I : \A k \in I : m <= k
  BY <1>6, <1>7, LeastPlace
<1>9. Min(I) \in I
  BY <1>8 DEF Min
<1>10. QED
  BY <1>2, <1>3, <1>4, <1>6, <1>7, <1>9

\* Two texts agree up to a place, at which the first has the earlier letter.
Differ(a, b, i) == Code(a[i]) < Code(b[i]) /\ \A j \in 1 .. i - 1 : a[j] = b[j]

\* The beginnings of two texts are equal if their letters are.
LEMMA BeginningsAgree ==
  ASSUME NEW C, NEW a \in Seq(C), NEW b \in Seq(C), NEW k \in Nat, k <= Len(a), k <= Len(b)
  PROVE  SubSeq(a, 1, k) = SubSeq(b, 1, k) <=> \A j \in 1 .. k : a[j] = b[j]
<1>1. PICK u, v : u = SubSeq(a, 1, k) /\ v = SubSeq(b, 1, k)
  OBVIOUS
<1>2. PICK m \in Nat, n \in Nat : m = Len(a) /\ n = Len(b)
  BY LenProperties
<1>3. 1 \in Int /\ k \in Int
  OBVIOUS
<1>4. \A j \in 1 .. k : a[j] \in C /\ b[j] \in C
  <2>1. \A j \in 1 .. k : j \in 1 .. m /\ j \in 1 .. n
    BY <1>2
  <2>2. QED
    BY <1>2, <2>1, ElementOfSeq
<1>5. u \in Seq(C) /\ Len(u) = (IF 1 <= k THEN k - 1 + 1 ELSE 0) /\ \A i \in 1 .. k - 1 + 1 : u[i] = a[1+i-1]
  BY <1>1, <1>3, <1>4, SubSeqProperties
<1>6. v \in Seq(C) /\ Len(v) = (IF 1 <= k THEN k - 1 + 1 ELSE 0) /\ \A i \in 1 .. k - 1 + 1 : v[i] = b[1+i-1]
  BY <1>1, <1>3, <1>4, SubSeqProperties
<1>7. k - 1 + 1 = k /\ \A i \in 1 .. k : 1 + i - 1 = i
  OBVIOUS
<1>8. Len(u) = k /\ Len(v) = k /\ \A i \in 1 .. k : u[i] = a[i] /\ v[i] = b[i]
  BY <1>5, <1>6, <1>7
<1>9. u = v <=> \A i \in 1 .. k : u[i] = v[i]
  BY <1>5, <1>6, <1>8, SeqEqual
<1>10. QED
  BY <1>1, <1>8, <1>9

\* Of two texts of one length the first place where they differ decides.
LEMMA LexIs ==
  ASSUME NEW a \in Text, NEW b \in Text, NEW n \in Nat, n = Len(a), n = Len(b)
  PROVE  Lex(a, b) <=> \E i \in 1 .. n : Differ(a, b, i)
<1>1. a \in Seq(Letters) /\ b \in Seq(Letters)
  BY DEF Text, Letters
<1>2. DOMAIN a = 1 .. n /\ DOMAIN b = 1 .. n
  BY <1>1, LenProperties
<1>3. ~IsStrictPrefix(a, b)
  <2>1. SUFFICES ASSUME IsPrefix(a, b) PROVE a = b
    BY DEF IsStrictPrefix
  <2>2. n <= n /\ \A i \in 1 .. n : a[i] = b[i]
    BY <1>1, <2>1, PrefixIs
  <2>3. QED
    BY <1>1, <2>2, SeqEqual
<1>4. ASSUME NEW i \in 1 .. n
      PROVE  (SubSeq(a, 1, i-1) = SubSeq(b, 1, i-1)) <=> \A j \in 1 .. i - 1 : a[j] = b[j]
  <2>1. PICK k \in Nat : k = i - 1
    OBVIOUS
  <2>2. k <= Len(a) /\ k <= Len(b)
    BY <2>1
  <2>3. QED
    BY <1>1, <2>1, <2>2, BeginningsAgree
<1>5. Lex(a, b) <=> \E i \in 1 .. n : Code(a[i]) < Code(b[i]) /\ SubSeq(a, 1, i-1) = SubSeq(b, 1, i-1)
  BY <1>2, <1>3 DEF Lex
<1>6. QED
  BY <1>4, <1>5 DEF Differ

\* So texts of one length are in a line.
LEMMA LexOrders ==
  ASSUME NEW n \in Nat, NEW a \in Text, NEW b \in Text, NEW c \in Text, n = Len(a), n = Len(b), n = Len(c)
  PROVE  /\ ~(Lex(a, b) /\ Lex(b, a))
         /\ Lex(a, b) /\ Lex(b, c) => Lex(a, c)
         /\ a # b => Lex(a, b) \/ Lex(b, a)
<1>1. ASSUME NEW i \in 1 .. n
      PROVE  /\ a[i] \in Letters /\ b[i] \in Letters /\ c[i] \in Letters
             /\ Code(a[i]) \in Nat /\ Code(b[i]) \in Nat /\ Code(c[i]) \in Nat
  <2>1. a[i] \in Letters /\ b[i] \in Letters /\ c[i] \in Letters
    BY ElementOfSeq DEF Text, Letters
  <2>2. QED
    BY <2>1, CodeIs
<1>2. ~(Lex(a, b) /\ Lex(b, a))
  <2>1. SUFFICES ASSUME NEW i \in 1 .. n, Differ(a, b, i), NEW j \in 1 .. n, Differ(b, a, j) PROVE FALSE
    BY LexIs
  <2>2. i \in 1 .. j - 1 \/ j \in 1 .. i - 1 \/ i = j
    OBVIOUS
  <2>3. QED
    BY <1>1, <2>1, <2>2 DEF Differ
<1>3. ASSUME Lex(a, b), Lex(b, c) PROVE Lex(a, c)
  <2>1. PICK i \in 1 .. n : Differ(a, b, i)
    BY <1>3, LexIs
  <2>2. PICK j \in 1 .. n : Differ(b, c, j)
    BY <1>3, LexIs
  <2>3. CASE i < j
    <3>1. i \in 1 .. j - 1 /\ \A k \in 1 .. i - 1 : k \in 1 .. j - 1
      BY <2>3
    <3>2. Differ(a, c, i)
      BY <2>1, <2>2, <3>1 DEF Differ
    <3>3. QED
      BY <3>2, LexIs
  <2>4. CASE j < i
    <3>1. j \in 1 .. i - 1 /\ \A k \in 1 .. j - 1 : k \in 1 .. i - 1
      BY <2>4
    <3>2. Differ(a, c, j)
      BY <2>1, <2>2, <3>1 DEF Differ
    <3>3. QED
      BY <3>2, LexIs
  <2>5. CASE i = j
    <3>1. Code(a[i]) < Code(c[i])
      BY <1>1, <2>1, <2>2, <2>5 DEF Differ
    <3>2. Differ(a, c, i)
      BY <2>1, <2>2, <2>5, <3>1 DEF Differ
    <3>3. QED
      BY <3>2, LexIs
  <2>6. QED
    BY <2>3, <2>4, <2>5
<1>4. ASSUME a # b PROVE Lex(a, b) \/ Lex(b, a)
  <2>1. PICK T : T = {i \in 1 .. n : a[i] # b[i]}
    OBVIOUS
  <2>2. T # {}
    <3>1. a \in Seq(Letters) /\ b \in Seq(Letters)
      BY DEF Text, Letters
    <3>2. ~ \A i \in 1 .. n : a[i] = b[i]
      BY <1>4, <3>1, SeqEqual
    <3>3. QED
      BY <2>1, <3>2
  <2>3. T \subseteq Nat
    BY <2>1
  <2>4. PICK i \in T : \A j \in T : i <= j
    BY <2>2, <2>3, LeastPlace
  <2>5. i \in 1 .. n /\ a[i] # b[i]
    BY <2>1
  <2>6. \A j \in 1 .. i - 1 : a[j] = b[j]
    BY <2>1, <2>4, <2>5
  <2>7. Code(a[i]) # Code(b[i])
    BY <1>1, <2>5, CodeIs
  <2>8. Differ(a, b, i) \/ Differ(b, a, i)
    BY <1>1, <2>5, <2>6, <2>7 DEF Differ
  <2>9. QED
    BY <2>5, <2>8, LexIs
<1>5. QED
  BY <1>2, <1>3, <1>4

\* What a candidate is ranked by are two numbers.
LEMMA KeysAre ==
  ASSUME NEW c \in Candidate
  PROVE  \E p \in Nat, q \in Nat : Keys(c) = <<p, q>>
<1>1. \A x : Freq(TableFreq, x) \in Nat /\ Freq(ColumnFreq, x) \in Nat
  BY CompletionAssumption DEF Freq
<1>2. c.kind \in Kinds
  BY DEF Candidate
<1>3. CASE c.kind = "Table"
  <2>1. Keys(c) = <<Freq(TableFreq, c.value), 0>>
    BY <1>3 DEF Keys
  <2>2. QED
    BY <1>1, <2>1
<1>4. CASE c.kind = "Column"
  <2>1. PICK p : p = IF Dotted(c.value) THEN Freq(TableFreq, SplitOn(c.value, ".")[1]) ELSE 0
    OBVIOUS
  <2>2. Keys(c) = <<p, Freq(ColumnFreq, LastPart(c.value))>>
    BY <1>4, <2>1 DEF Keys
  <2>3. p \in Nat
    BY <1>1, <2>1
  <2>4. QED
    BY <1>1, <2>2, <2>3
<1>5. CASE c.kind = "Keyword"
  <2>1. Keys(c) = <<0, 0>>
    BY <1>5 DEF Keys
  <2>2. QED
    BY <2>1
<1>6. QED
  BY <1>2, <1>3, <1>4, <1>5 DEF Kinds

\* The ranks are in a line, and of one kind no two candidates share one.
LEMMA BeforeOrders ==
  ASSUME NEW a \in Candidate, NEW b \in Candidate, NEW c \in Candidate
  PROVE  /\ ~(Before(a, b) /\ Before(b, a))
         /\ Before(a, b) /\ Before(b, c) => Before(a, c)
         /\ a # b /\ a.kind = b.kind => Before(a, b) \/ Before(b, a)
<1>1. PICK a1 \in Nat, a2 \in Nat : Keys(a) = <<a1, a2>>
  BY KeysAre
<1>2. PICK b1 \in Nat, b2 \in Nat : Keys(b) = <<b1, b2>>
  BY KeysAre
<1>3. PICK c1 \in Nat, c2 \in Nat : Keys(c) = <<c1, c2>>
  BY KeysAre
<1>4. PICK u \in Text, v \in Text, w \in Text : u = a.value /\ v = b.value /\ w = c.value
  BY DEF Candidate, Word
<1>5. PICK l \in Nat, m \in Nat, n \in Nat : l = Len(u) /\ m = Len(v) /\ n = Len(w)
  BY LenProperties DEF Text
<1> DEFINE Ahead(j1, j2, k1, k2, x, y, X, Y) ==
             \/ j1 > k1
             \/ j1 = k1 /\ j2 > k2
             \/ j1 = k1 /\ j2 = k2 /\ X < Y
             \/ j1 = k1 /\ j2 = k2 /\ X = Y /\ Lex(x, y)
<1>6. Before(a, b) <=> Ahead(a1, a2, b1, b2, u, v, l, m)
  BY <1>1, <1>2, <1>4, <1>5 DEF Before, ByUseAndName
<1>7. Before(b, a) <=> Ahead(b1, b2, a1, a2, v, u, m, l)
  BY <1>1, <1>2, <1>4, <1>5 DEF Before, ByUseAndName
<1>8. Before(b, c) <=> Ahead(b1, b2, c1, c2, v, w, m, n)
  BY <1>2, <1>3, <1>4, <1>5 DEF Before, ByUseAndName
<1>9. Before(a, c) <=> Ahead(a1, a2, c1, c2, u, w, l, n)
  BY <1>1, <1>3, <1>4, <1>5 DEF Before, ByUseAndName
<1>10. l = m => ~(Lex(u, v) /\ Lex(v, u)) /\ (u # v => Lex(u, v) \/ Lex(v, u))
  BY <1>5, LexOrders
<1>11. l = m /\ m = n /\ Lex(u, v) /\ Lex(v, w) => Lex(u, w)
  BY <1>5, LexOrders
<1>12. ~(Before(a, b) /\ Before(b, a))
  BY <1>6, <1>7, <1>10
<1>13. Before(a, b) /\ Before(b, c) => Before(a, c)
  BY <1>6, <1>8, <1>9, <1>11
<1>14. a # b /\ a.kind = b.kind => u # v
  BY <1>4 DEF Candidate
<1>15. u # v => Before(a, b) \/ Before(b, a)
  BY <1>6, <1>7, <1>10
<1>16. QED
  BY <1>12, <1>13, <1>14, <1>15

\* An element that a filter lets through.
Passed(x, s, parts, n) == \E i \in 1 .. n : parts[i] # <<>> /\ x = s[i]

\* These are what it leaves.
LEMMA FilteredSet ==
  ASSUME NEW S, NEW s \in Seq(S), NEW n \in Nat, n = Len(s), NEW parts, parts = [i \in 1 .. n |-> parts[i]],
         \A i \in 1 .. n : parts[i] = <<>> \/ parts[i] = <<s[i]>>, NEW x
  PROVE  x \in ToSet(FlattenSeq(parts)) <=> Passed(x, s, parts, n)
<1>1. PICK r, at : r \in Seq(S) /\ r = FlattenSeq(parts) /\ From(at, r, s, parts, n)
  BY Sources
<1>2. PICK m \in Nat : m = Len(r) /\ DOMAIN r = 1 .. m
  BY LenProperties
<1>3. ASSUME x \in ToSet(r) PROVE \E i \in 1 .. n : parts[i] # <<>> /\ x = s[i]
  <2>1. PICK k \in 1 .. m : x = r[k]
    BY <1>2, <1>3 DEF ToSet
  <2>2. at[k] \in 1 .. n /\ parts[at[k]] # <<>> /\ r[k] = s[at[k]]
    BY <1>1, <1>2 DEF From
  <2>3. QED
    BY <2>1, <2>2
<1>4. ASSUME NEW i \in 1 .. n, parts[i] # <<>>, x = s[i] PROVE x \in ToSet(r)
  <2>1. PICK k \in 1 .. m : r[k] = s[i]
    BY <1>1, <1>2, <1>4 DEF From
  <2>2. QED
    BY <1>2, <1>4, <2>1 DEF ToSet
<1>5. QED
  BY <1>1, <1>3, <1>4 DEF Passed

\* No candidate comes before one that stands ahead of it.
Ordered(s) == \A i, j \in DOMAIN s : i < j => ~Before(s[j], s[i])
\* Each comes before those behind it.
Rising(s) == \A i, j \in DOMAIN s : i < j => Before(s[i], s[j])

\* What a filter leaves is in order if it was.
LEMMA FilteredOrder ==
  ASSUME NEW S, NEW s \in Seq(S), NEW n \in Nat, n = Len(s), NEW parts, parts = [i \in 1 .. n |-> parts[i]],
         \A i \in 1 .. n : parts[i] = <<>> \/ parts[i] = <<s[i]>>, Ordered(s)
  PROVE  Ordered(FlattenSeq(parts))
<1>1. PICK r, at : r \in Seq(S) /\ r = FlattenSeq(parts) /\ From(at, r, s, parts, n)
  BY Sources
<1>2. PICK m \in Nat : m = Len(r) /\ DOMAIN r = 1 .. m
  BY LenProperties
<1>3. DOMAIN s = 1 .. n
  BY LenProperties
<1>4. ASSUME NEW k \in 1 .. m, NEW l \in 1 .. m, k < l PROVE ~Before(r[l], r[k])
  <2>1. at[k] \in 1 .. n /\ at[l] \in 1 .. n /\ r[k] = s[at[k]] /\ r[l] = s[at[l]] /\ at[k] < at[l]
    BY <1>1, <1>2, <1>4 DEF From
  <2>2. QED
    BY <1>3, <2>1 DEF Ordered
<1>5. QED
  BY <1>1, <1>2, <1>4 DEF Ordered

\* What two sequences have one behind the other.
LEMMA ConcatSet ==
  ASSUME NEW S, NEW a \in Seq(S), NEW b \in Seq(S)
  PROVE  ToSet(a \o b) = ToSet(a) \union ToSet(b)
<1>1. PICK m \in Nat, n \in Nat : m = Len(a) /\ n = Len(b) /\ DOMAIN a = 1 .. m /\ DOMAIN b = 1 .. n
  BY LenProperties
<1>2. PICK u : u = a \o b
  OBVIOUS
<1>3. /\ u \in Seq(S) /\ Len(u) = m + n
      /\ \A i \in 1 .. m + n : u[i] = IF i <= m THEN a[i] ELSE b[i-m]
  BY <1>1, <1>2, ConcatProperties
<1>4. DOMAIN u = 1 .. m + n
  BY <1>3, LenProperties
<1>5. ASSUME NEW i \in 1 .. m + n PROVE u[i] \in ToSet(a) \union ToSet(b)
  <2>1. CASE i <= m
    BY <1>1, <1>3, <2>1 DEF ToSet
  <2>2. CASE ~(i <= m)
    <3>1. i - m \in 1 .. n /\ u[i] = b[i-m]
      BY <1>3, <2>2
    <3>2. QED
      BY <1>1, <3>1 DEF ToSet
  <2>3. QED
    BY <2>1, <2>2
<1>6. ASSUME NEW i \in 1 .. m PROVE a[i] \in ToSet(u)
  <2>1. i \in 1 .. m + n /\ u[i] = a[i]
    BY <1>3
  <2>2. QED
    BY <1>4, <2>1 DEF ToSet
<1>7. ASSUME NEW i \in 1 .. n PROVE b[i] \in ToSet(u)
  <2>1. i + m \in 1 .. m + n /\ ~(i + m <= m) /\ (i + m) - m = i
    OBVIOUS
  <2>2. u[i+m] = b[i]
    BY <1>3, <2>1
  <2>3. QED
    BY <1>4, <2>1, <2>2 DEF ToSet
<1>8. ASSUME NEW x \in ToSet(u) PROVE x \in ToSet(a) \union ToSet(b)
  <2>1. PICK i \in 1 .. m + n : x = u[i]
    BY <1>4 DEF ToSet
  <2>2. QED
    BY <1>5, <2>1
<1>9. ASSUME NEW x \in ToSet(a) \union ToSet(b) PROVE x \in ToSet(u)
  <2>1. (\E i \in 1 .. m : x = a[i]) \/ \E i \in 1 .. n : x = b[i]
    BY <1>1 DEF ToSet
  <2>2. QED
    BY <1>6, <1>7, <2>1
<1>10. QED
  BY <1>2, <1>8, <1>9

\* Two ordered sequences make one, if nothing of the second comes before anything of the first.
LEMMA ConcatOrder ==
  ASSUME NEW S, NEW a \in Seq(S), NEW b \in Seq(S), Ordered(a), Ordered(b),
         \A x \in ToSet(a), y \in ToSet(b) : ~Before(y, x)
  PROVE  Ordered(a \o b)
<1>1. PICK m \in Nat, n \in Nat : m = Len(a) /\ n = Len(b) /\ DOMAIN a = 1 .. m /\ DOMAIN b = 1 .. n
  BY LenProperties
<1>2. PICK u : u = a \o b
  OBVIOUS
<1>3. /\ u \in Seq(S) /\ Len(u) = m + n
      /\ \A i \in 1 .. m + n : u[i] = IF i <= m THEN a[i] ELSE b[i-m]
  BY <1>1, <1>2, ConcatProperties
<1>4. DOMAIN u = 1 .. m + n
  BY <1>3, LenProperties
<1>5. ASSUME NEW i \in 1 .. m + n, NEW j \in 1 .. m + n, i < j PROVE ~Before(u[j], u[i])
  <2>1. CASE j <= m
    <3>1. i \in DOMAIN a /\ j \in DOMAIN a /\ u[i] = a[i] /\ u[j] = a[j]
      BY <1>1, <1>3, <1>5, <2>1
    <3>2. QED
      BY <1>5, <3>1 DEF Ordered
  <2>2. CASE ~(i <= m)
    <3>1. i - m \in 1 .. n /\ j - m \in 1 .. n /\ i - m < j - m /\ ~(j <= m)
      BY <1>5, <2>2
    <3>2. u[i] = b[i-m] /\ u[j] = b[j-m]
      BY <1>3, <2>2, <3>1
    <3>3. QED
      BY <1>1, <3>1, <3>2 DEF Ordered
  <2>3. CASE i <= m /\ ~(j <= m)
    <3>1. i \in 1 .. m /\ j - m \in 1 .. n /\ u[i] = a[i] /\ u[j] = b[j-m]
      BY <1>3, <2>3
    <3>2. u[i] \in ToSet(a) /\ u[j] \in ToSet(b)
      BY <1>1, <3>1 DEF ToSet
    <3>3. QED
      BY <3>2
  <2>4. QED
    BY <1>5, <2>1, <2>2, <2>3
<1>6. QED
  BY <1>2, <1>4, <1>5 DEF Ordered

\* A candidate is put where it belongs.
LEMMA InsertOrders ==
  ASSUME NEW sorted \in Seq(Candidate), NEW c \in Candidate, Ordered(sorted)
  PROVE  Ordered(Insert(sorted, c)) /\ ToSet(Insert(sorted, c)) = ToSet(sorted) \union {c}
<1>1. PICK n \in Nat : n = Len(sorted)
  BY LenProperties
<1>2. DOMAIN sorted = 1 .. n /\ \A i \in 1 .. n : sorted[i] \in Candidate
  BY <1>1, LenProperties, ElementOfSeq
<1>3. PICK front, back : /\ front = Where(sorted, LAMBDA d : ~Before(c, d))
                         /\ back = Where(sorted, LAMBDA d : Before(c, d))
  OBVIOUS
<1>4. /\ front \in Seq(Candidate) /\ Ordered(front)
      /\ \A x : x \in ToSet(front) <=> \E i \in 1 .. n : ~Before(c, sorted[i]) /\ x = sorted[i]
  <2>1. PICK parts : parts = [i \in DOMAIN sorted |-> IF ~Before(c, sorted[i]) THEN <<sorted[i]>> ELSE <<>>]
    OBVIOUS
  <2>2. front = FlattenSeq(parts)
    BY <1>3, <2>1 DEF Where, Flat, Each
  <2>3. \A i \in 1 .. n : parts[i] = <<>> \/ parts[i] = <<sorted[i]>>
    BY <1>2, <2>1
  <2>4. parts = [i \in 1 .. n |-> parts[i]]
    BY <1>2, <2>1
  <2>5. \A i \in 1 .. n : parts[i] # <<>> <=> ~Before(c, sorted[i])
    BY <1>2, <2>1
  <2>6. front \in Seq(Candidate)
    BY <1>1, <2>2, <2>3, <2>4, Sources
  <2>7. Ordered(front)
    BY <1>1, <2>2, <2>3, <2>4, FilteredOrder
  <2>8. ASSUME NEW x PROVE x \in ToSet(front) <=> Passed(x, sorted, parts, n)
    BY <1>1, <2>2, <2>3, <2>4, FilteredSet
  <2>9. QED
    BY <2>5, <2>6, <2>7, <2>8 DEF Passed
<1>5. /\ back \in Seq(Candidate) /\ Ordered(back)
      /\ \A x : x \in ToSet(back) <=> \E i \in 1 .. n : Before(c, sorted[i]) /\ x = sorted[i]
  <2>1. PICK parts : parts = [i \in DOMAIN sorted |-> IF Before(c, sorted[i]) THEN <<sorted[i]>> ELSE <<>>]
    OBVIOUS
  <2>2. back = FlattenSeq(parts)
    BY <1>3, <2>1 DEF Where, Flat, Each
  <2>3. \A i \in 1 .. n : parts[i] = <<>> \/ parts[i] = <<sorted[i]>>
    BY <1>2, <2>1
  <2>4. parts = [i \in 1 .. n |-> parts[i]]
    BY <1>2, <2>1
  <2>5. \A i \in 1 .. n : parts[i] # <<>> <=> Before(c, sorted[i])
    BY <1>2, <2>1
  <2>6. back \in Seq(Candidate)
    BY <1>1, <2>2, <2>3, <2>4, Sources
  <2>7. Ordered(back)
    BY <1>1, <2>2, <2>3, <2>4, FilteredOrder
  <2>8. ASSUME NEW x PROVE x \in ToSet(back) <=> Passed(x, sorted, parts, n)
    BY <1>1, <2>2, <2>3, <2>4, FilteredSet
  <2>9. QED
    BY <2>5, <2>6, <2>7, <2>8 DEF Passed
<1>6. PICK one : one = <<c>>
  OBVIOUS
<1>7. one \in Seq(Candidate) /\ DOMAIN one = 1 .. 1 /\ one[1] = c
  BY <1>6
<1>8. Ordered(one) /\ ToSet(one) = {c}
  BY <1>7 DEF Ordered, ToSet
<1>9. PICK start : start = front \o one
  OBVIOUS
<1>10. start \in Seq(Candidate) /\ ToSet(start) = ToSet(front) \union {c}
  BY <1>4, <1>7, <1>8, <1>9, ConcatProperties, ConcatSet
<1>11. Ordered(start)
  <2>1. \A x \in ToSet(front), y \in ToSet(one) : ~Before(y, x)
    BY <1>4, <1>8
  <2>2. QED
    BY <1>4, <1>7, <1>8, <1>9, <2>1, ConcatOrder
<1>12. \A x \in ToSet(start), y \in ToSet(back) : ~Before(y, x)
  <2>1. SUFFICES ASSUME NEW x \in ToSet(start), NEW y \in ToSet(back) PROVE ~Before(y, x)
    OBVIOUS
  <2>2. y \in Candidate /\ Before(c, y)
    BY <1>2, <1>5
  <2>3. CASE x = c
    BY <2>2, <2>3, BeforeOrders
  <2>4. CASE x \in ToSet(front)
    <3>1. x \in Candidate /\ ~Before(c, x)
      BY <1>2, <1>4, <2>4
    <3>2. QED
      BY <2>2, <3>1, BeforeOrders
  <2>5. QED
    BY <1>10, <2>3, <2>4
<1>13. Insert(sorted, c) = start \o back
  BY <1>3, <1>6, <1>9 DEF Insert
<1>14. Ordered(Insert(sorted, c))
  BY <1>5, <1>10, <1>11, <1>12, <1>13, ConcatOrder
<1>15. ToSet(Insert(sorted, c)) = ToSet(start) \union ToSet(back)
  BY <1>5, <1>10, <1>13, ConcatSet
<1>16. ToSet(front) \union ToSet(back) = ToSet(sorted)
  <2>1. ASSUME NEW x PROVE x \in ToSet(sorted) <=> \E i \in 1 .. n : x = sorted[i]
    BY <1>2 DEF ToSet
  <2>2. ASSUME NEW x PROVE x \in ToSet(front) \union ToSet(back) <=> x \in ToSet(sorted)
    BY <1>4, <1>5, <2>1
  <2>3. QED
    BY <2>2
<1>17. QED
  BY <1>10, <1>14, <1>15, <1>16

\* Ranking orders candidates, and neither invents nor loses any.
LEMMA RankOrders ==
  ASSUME NEW s \in Seq(Candidate)
  PROVE  Ordered(Rank(s)) /\ ToSet(Rank(s)) = ToSet(s)
<1>1. PICK n \in Nat : n = Len(s) /\ DOMAIN s = 1 .. n
  BY LenProperties
<1>2. \A i \in 1 .. n : s[i] \in Candidate
  BY <1>1, ElementOfSeq
<1>3. PICK g : Ranks(g, s, n) /\ Rank(s) = g[n]
  BY <1>1, RankSteps
<1> DEFINE First(k) == {s[i] : i \in 1 .. k}
           T == {k \in 0 .. n : g[k] \in Seq(Candidate) /\ Ordered(g[k]) /\ ToSet(g[k]) = First(k)}
<1>4. 0 \in T
  <2>1. g[0] = <<>>
    BY <1>3 DEF Ranks
  <2>2. PICK e : e = <<>>
    OBVIOUS
  <2>3. e \in Seq(Candidate) /\ DOMAIN e = {}
    BY <2>2
  <2>4. Ordered(e) /\ ToSet(e) = {}
    BY <2>3 DEF Ordered, ToSet
  <2>5. First(0) = {} /\ 0 \in 0 .. n
    OBVIOUS
  <2> HIDE DEF First
  <2>6. QED
    BY <2>1, <2>2, <2>3, <2>4, <2>5
<1>5. ASSUME NEW k \in 0 .. n - 1, k \in T PROVE k + 1 \in T
  <2>1. k + 1 \in 1 .. n /\ (k + 1) - 1 = k /\ k + 1 \in 0 .. n
    OBVIOUS
  <2>2. g[k+1] = Insert(g[k], s[k+1])
    BY <1>3, <2>1 DEF Ranks
  <2>3. PICK c \in Candidate : c = s[k+1]
    BY <1>2, <2>1
  <2>4. PICK h \in Seq(Candidate) : h = g[k] /\ Ordered(h) /\ ToSet(h) = First(k)
    BY <1>5
  <2>5. g[k+1] \in Seq(Candidate)
    BY <2>2, <2>3, <2>4, InsertIs
  <2>6. Ordered(g[k+1]) /\ ToSet(g[k+1]) = First(k) \union {c}
    BY <2>2, <2>3, <2>4, InsertOrders
  <2>7. First(k) \union {c} = First(k + 1)
    <3>1. \A i \in 1 .. k + 1 : i \in 1 .. k \/ i = k + 1
      OBVIOUS
    <3>2. k + 1 \in 1 .. k + 1 /\ \A i \in 1 .. k : i \in 1 .. k + 1
      OBVIOUS
    <3>3. QED
      BY <2>3, <3>1, <3>2
  <2>8. QED
    BY <2>1, <2>5, <2>6, <2>7
<1>6. n \in T
  <2> HIDE DEF T
  <2>1. 0 \in Nat /\ n \in 0 .. n
    OBVIOUS
  <2>2. \A k \in 0 .. n : k \in T
    BY <1>4, <1>5, <2>1, FromTo
  <2>3. QED
    BY <2>1, <2>2
<1>7. First(n) = ToSet(s)
  BY <1>1 DEF ToSet
<1>8. QED
  BY <1>3, <1>6, <1>7

\* The places that a filter keeps, in order.
Kept(f, parts, n) ==
  /\ f \in Seq(1 .. n)
  /\ \A k, l \in 1 .. Len(f) : k < l => f[k] < f[l]
  /\ \A k \in 1 .. Len(f) : parts[f[k]] # <<>>
  /\ \A i \in 1 .. n : parts[i] # <<>> => \E k \in 1 .. Len(f) : f[k] = i

\* There are such.
LEMMA PlacesKept ==
  ASSUME NEW n \in Nat, NEW parts, parts = [i \in 1 .. n |-> parts[i]],
         \A i \in 1 .. n : parts[i] = <<>> \/ parts[i] = <<i>>
  PROVE  Kept(FlattenSeq(parts), parts, n)
<1>1. PICK d : d = [i \in 1 .. n |-> i]
  OBVIOUS
<1>2. d \in [1 .. n -> 1 .. n] /\ \A i \in 1 .. n : d[i] = i
  BY <1>1
<1>3. d \in Seq(1 .. n) /\ n = Len(d)
  BY <1>1, <1>2, FunctionIsSeq, LenProperties
<1>4. \A i \in 1 .. n : parts[i] = <<>> \/ parts[i] = <<d[i]>>
  BY <1>2
<1>5. PICK f, at : f \in Seq(1 .. n) /\ f = FlattenSeq(parts) /\ From(at, f, d, parts, n)
  BY <1>3, <1>4, Sources, ZenonT(30)
<1>6. \A k \in 1 .. Len(f) : at[k] \in 1 .. n /\ parts[at[k]] # <<>> /\ f[k] = at[k]
  BY <1>2, <1>5 DEF From
<1>7. \A k, l \in 1 .. Len(f) : k < l => at[k] < at[l]
  BY <1>5 DEF From
<1>8. \A i \in 1 .. n : parts[i] # <<>> => \E k \in 1 .. Len(f) : f[k] = i
  BY <1>2, <1>5, ZenonT(30) DEF From
<1>9. QED
  BY <1>5, <1>6, <1>7, <1>8 DEF Kept

\* What does not come before is all there is, once.
LEMMA DistinctHas ==
  ASSUME NEW S, NEW s \in Seq(S)
  PROVE  IsInjective(Distinct(s)) /\ ToSet(Distinct(s)) = ToSet(s)
<1>1. PICK n \in Nat : n = Len(s) /\ DOMAIN s = 1 .. n
  BY LenProperties
<1>2. PICK d : d = Indices(s)
  OBVIOUS
<1>3. DOMAIN d = 1 .. n /\ \A i \in 1 .. n : d[i] = i
  BY <1>1, <1>2 DEF Indices
<1>4. PICK parts : parts = [i \in DOMAIN d |-> IF \A j \in 1 .. d[i] - 1 : s[j] # s[d[i]] THEN <<d[i]>> ELSE <<>>]
  OBVIOUS
<1>5. PICK f : f = Where(d, LAMBDA i : \A j \in 1 .. i - 1 : s[j] # s[i])
  OBVIOUS
<1>6. f = FlattenSeq(parts)
  BY <1>4, <1>5, Zenon DEF Where, Flat, Each
<1>7. \A i \in 1 .. n : parts[i] = IF \A j \in 1 .. i - 1 : s[j] # s[i] THEN <<i>> ELSE <<>>
  BY <1>3, <1>4, Zenon
<1>8. parts = [i \in 1 .. n |-> parts[i]]
  BY <1>3, <1>4, Zenon
<1>9. \A i \in 1 .. n : parts[i] = <<>> \/ parts[i] = <<i>>
  BY <1>7, Zenon
<1>10. \A i \in 1 .. n : parts[i] # <<>> <=> \A j \in 1 .. i - 1 : s[j] # s[i]
  <2>1. \A i \in 1 .. n : <<i>> # <<>>
    OBVIOUS
  <2>2. QED
    BY <1>7, <2>1, Zenon
<1>11. Kept(f, parts, n)
  BY <1>6, <1>8, <1>9, PlacesKept
<1>12. PICK m \in Nat : m = Len(f) /\ DOMAIN f = 1 .. m /\ \A k \in 1 .. m : f[k] \in 1 .. n
  BY <1>11, LenProperties, ElementOfSeq DEF Kept
<1>13. PICK r : r = [k \in DOMAIN f |-> s[f[k]]]
  OBVIOUS
<1>14. Distinct(s) = r
  BY <1>2, <1>5, <1>13, Zenon DEF Distinct, Each
<1>15. DOMAIN r = 1 .. m /\ \A k \in 1 .. m : r[k] = s[f[k]]
  BY <1>12, <1>13
<1>16. ASSUME NEW k \in 1 .. m, NEW l \in 1 .. m, k < l PROVE r[k] # r[l]
  <2>1. f[k] < f[l] /\ parts[f[l]] # <<>>
    BY <1>11, <1>12, <1>16 DEF Kept
  <2>2. f[k] \in 1 .. f[l] - 1
    BY <1>12, <2>1
  <2>3. QED
    BY <1>10, <1>12, <1>15, <2>1, <2>2
<1>17. IsInjective(r)
  <2>1. SUFFICES ASSUME NEW k \in 1 .. m, NEW l \in 1 .. m, r[k] = r[l] PROVE k = l
    BY <1>15 DEF IsInjective
  <2>2. ~(k < l) /\ ~(l < k)
    BY <1>16, <2>1
  <2>3. QED
    BY <2>2
<1>18. ASSUME NEW x \in ToSet(r) PROVE x \in ToSet(s)
  BY <1>1, <1>12, <1>15 DEF ToSet
<1>19. ASSUME NEW x \in ToSet(s) PROVE x \in ToSet(r)
  <2>1. PICK T : T = {i \in 1 .. n : s[i] = x}
    OBVIOUS
  <2>2. T # {} /\ T \subseteq Nat
    BY <1>1, <2>1 DEF ToSet
  <2>3. PICK i \in T : \A j \in T : i <= j
    BY <2>2, LeastPlace
  <2>4. i \in 1 .. n /\ s[i] = x /\ \A j \in 1 .. i - 1 : s[j] # s[i]
    BY <2>1, <2>3
  <2>5. PICK k \in 1 .. m : f[k] = i
    BY <1>10, <1>11, <1>12, <2>4 DEF Kept
  <2>6. QED
    BY <1>15, <2>4, <2>5 DEF ToSet
<1>20. QED
  BY <1>14, <1>17, <1>18, <1>19

\* The candidates of one kind.
Alike(s) == \E K \in Kinds : \A c \in ToSet(s) : c.kind = K

\* Repetitions stand side by side in an ordered list: without those, it rises.
LEMMA DedupRises ==
  ASSUME NEW s \in Seq(Candidate), Ordered(s), Alike(s)
  PROVE  Rising(Dedup(s)) /\ ToSet(Dedup(s)) = ToSet(s)
<1>1. PICK n \in Nat : n = Len(s) /\ DOMAIN s = 1 .. n
  BY LenProperties
<1>2. \A i \in 1 .. n : s[i] \in Candidate
  BY <1>1, ElementOfSeq
<1>3. PICK K \in Kinds : \A i \in 1 .. n : s[i].kind = K
  BY <1>1 DEF Alike, ToSet
<1>4. PICK d : d = Indices(s)
  OBVIOUS
<1>5. DOMAIN d = 1 .. n /\ \A i \in 1 .. n : d[i] = i
  BY <1>1, <1>4 DEF Indices
<1>6. PICK parts : parts = [i \in DOMAIN d |-> IF d[i] = 1 \/ s[d[i]] # s[d[i]-1] THEN <<d[i]>> ELSE <<>>]
  OBVIOUS
<1>7. PICK f : f = Where(d, LAMBDA i : i = 1 \/ s[i] # s[i-1])
  OBVIOUS
<1>8. f = FlattenSeq(parts)
  BY <1>6, <1>7 DEF Where, Flat, Each
<1>9. \A i \in 1 .. n : parts[i] = IF i = 1 \/ s[i] # s[i-1] THEN <<i>> ELSE <<>>
  BY <1>5, <1>6
<1>10. parts = [i \in 1 .. n |-> parts[i]]
  BY <1>5, <1>6
<1>11. \A i \in 1 .. n : parts[i] = <<>> \/ parts[i] = <<i>>
  BY <1>9
<1>12. \A i \in 1 .. n : parts[i] # <<>> <=> i = 1 \/ s[i] # s[i-1]
  <2>1. \A i \in 1 .. n : <<i>> # <<>>
    OBVIOUS
  <2>2. QED
    BY <1>9, <2>1, Zenon
<1>13. Kept(f, parts, n)
  BY <1>8, <1>10, <1>11, PlacesKept
<1>14. PICK m \in Nat : m = Len(f) /\ DOMAIN f = 1 .. m /\ \A k \in 1 .. m : f[k] \in 1 .. n
  BY <1>13, LenProperties, ElementOfSeq DEF Kept
<1>15. PICK r : r = [k \in DOMAIN f |-> s[f[k]]]
  OBVIOUS
<1>16. Dedup(s) = r
  BY <1>4, <1>7, <1>15 DEF Dedup, Each
<1>17. DOMAIN r = 1 .. m /\ \A k \in 1 .. m : r[k] = s[f[k]]
  BY <1>14, <1>15
<1>18. ASSUME NEW k \in 1 .. m, NEW l \in 1 .. m, k < l PROVE Before(r[k], r[l])
  <2>1. PICK i \in 1 .. n, j \in 1 .. n : i = f[k] /\ j = f[l]
    BY <1>14
  <2>2. i < j /\ parts[j] # <<>>
    BY <1>13, <1>14, <1>18, <2>1 DEF Kept
  <2>3. j # 1 /\ s[j] # s[j-1] /\ j - 1 \in 1 .. n
    BY <1>12, <2>2
  <2>4. ~Before(s[j], s[i]) /\ ~Before(s[j], s[j-1])
    BY <1>1, <2>2, <2>3 DEF Ordered
  <2>5. s[i] # s[j]
    <3>1. SUFFICES ASSUME s[i] = s[j] PROVE FALSE
      OBVIOUS
    <3>2. i # j - 1 /\ i < j - 1
      BY <2>2, <2>3, <3>1
    <3>3. ~Before(s[j-1], s[i])
      BY <1>1, <2>3, <3>2 DEF Ordered
    <3>4. s[j] \in Candidate /\ s[j-1] \in Candidate /\ s[j].kind = s[j-1].kind
      BY <1>2, <1>3, <2>3
    <3>5. Before(s[j], s[j-1]) \/ Before(s[j-1], s[j])
      BY <2>3, <3>4, BeforeOrders
    <3>6. QED
      BY <2>4, <3>1, <3>3, <3>5
  <2>6. s[i] \in Candidate /\ s[j] \in Candidate /\ s[i].kind = s[j].kind
    BY <1>2, <1>3
  <2>7. Before(s[i], s[j])
    BY <2>4, <2>5, <2>6, BeforeOrders
  <2>8. QED
    BY <1>17, <2>1, <2>7
<1>19. Rising(r)
  BY <1>17, <1>18 DEF Rising
<1>20. ASSUME NEW x \in ToSet(r) PROVE x \in ToSet(s)
  BY <1>1, <1>14, <1>17 DEF ToSet
<1>21. ASSUME NEW x \in ToSet(s) PROVE x \in ToSet(r)
  <2>1. PICK T : T = {i \in 1 .. n : s[i] = x}
    OBVIOUS
  <2>2. T # {} /\ T \subseteq Nat
    BY <1>1, <2>1 DEF ToSet
  <2>3. PICK i \in T : \A j \in T : i <= j
    BY <2>2, LeastPlace
  <2>4. i \in 1 .. n /\ s[i] = x /\ (i = 1 \/ s[i] # s[i-1])
    BY <2>1, <2>3
  <2>5. PICK k \in 1 .. m : f[k] = i
    BY <1>12, <1>13, <1>14, <2>4 DEF Kept
  <2>6. QED
    BY <1>17, <2>4, <2>5 DEF ToSet
<1>22. QED
  BY <1>16, <1>19, <1>20, <1>21

\* Of two rising lists of the same candidates the first goes no further than the second,
\* and as far as it goes they agree.
LEMMA RisingAgree ==
  ASSUME NEW a \in Seq(Candidate), NEW b \in Seq(Candidate), Rising(a), Rising(b), ToSet(a) = ToSet(b)
  PROVE  Len(a) <= Len(b) /\ \A i \in 1 .. Len(a) : a[i] = b[i]
<1>1. PICK n \in Nat : n = Len(a) /\ DOMAIN a = 1 .. n
  BY LenProperties
<1>2. PICK m \in Nat : m = Len(b) /\ DOMAIN b = 1 .. m
  BY LenProperties
<1>3. (\A i \in 1 .. n : a[i] \in Candidate) /\ \A i \in 1 .. m : b[i] \in Candidate
  BY <1>1, <1>2, ElementOfSeq
<1>4. (\A i \in 1 .. n : \E j \in 1 .. m : a[i] = b[j]) /\ \A j \in 1 .. m : \E i \in 1 .. n : a[i] = b[j]
  BY <1>1, <1>2 DEF ToSet
<1>5. \A x, y \in Candidate : ~(Before(x, y) /\ Before(y, x))
  BY BeforeOrders
<1> DEFINE T == {k \in 1 .. n : ~(k <= m /\ a[k] = b[k])}
<1>6. T = {}
  <2>1. SUFFICES ASSUME T # {} PROVE FALSE
    OBVIOUS
  <2>2. T \subseteq Nat
    OBVIOUS
  <2>3. PICK k \in T : \A i \in T : k <= i
    BY <2>1, <2>2, LeastPlace
  <2>4. k \in 1 .. n /\ ~(k <= m /\ a[k] = b[k])
    OBVIOUS
  <2>5. ASSUME NEW i \in 1 .. k - 1 PROVE i \in 1 .. n /\ i <= m /\ a[i] = b[i]
    <3>1. i \in 1 .. n /\ ~(k <= i)
      BY <2>4
    <3>2. QED
      BY <2>3, <3>1
  <2>6. PICK j \in 1 .. m : a[k] = b[j]
    BY <1>4, <2>4
  <2>7. ~(j < k)
    <3>1. SUFFICES ASSUME j < k PROVE FALSE
      OBVIOUS
    <3>2. j \in 1 .. k - 1
      BY <3>1
    <3>3. a[j] = a[k] /\ j \in 1 .. n
      BY <2>5, <2>6, <3>2
    <3>4. Before(a[j], a[k])
      BY <1>1, <2>4, <3>1, <3>3 DEF Rising
    <3>5. QED
      BY <1>3, <1>5, <2>4, <3>3, <3>4
  <2>8. k \in 1 .. m /\ k < j
    BY <2>4, <2>6, <2>7
  <2>9. PICK i \in 1 .. n : a[i] = b[k]
    BY <1>4, <2>8
  <2>10. ~(i < k)
    <3>1. SUFFICES ASSUME i < k PROVE FALSE
      OBVIOUS
    <3>2. i \in 1 .. k - 1
      BY <3>1
    <3>3. b[i] = b[k] /\ i \in 1 .. m
      BY <2>5, <2>9, <3>2
    <3>4. Before(b[i], b[k])
      BY <1>2, <2>8, <3>1, <3>3 DEF Rising
    <3>5. QED
      BY <1>3, <1>5, <2>8, <3>3, <3>4
  <2>11. k < i
    BY <2>4, <2>8, <2>9, <2>10
  <2>12. Before(b[k], b[j])
    BY <1>2, <2>8 DEF Rising
  <2>13. Before(a[k], a[i])
    BY <1>1, <2>4, <2>11 DEF Rising
  <2>14. QED
    BY <1>3, <1>5, <2>4, <2>6, <2>8, <2>9, <2>12, <2>13
<1>7. \A i \in 1 .. n : i <= m /\ a[i] = b[i]
  BY <1>6
<1>8. n <= m
  BY <1>7
<1>9. QED
  BY <1>1, <1>2, <1>7, <1>8

\* So there is only one.
LEMMA RisingUnique ==
  ASSUME NEW a \in Seq(Candidate), NEW b \in Seq(Candidate), Rising(a), Rising(b), ToSet(a) = ToSet(b)
  PROVE  a = b
<1>1. PICK n \in Nat, m \in Nat : n = Len(a) /\ m = Len(b)
  BY LenProperties
<1>2. n <= m /\ m <= n /\ \A i \in 1 .. n : a[i] = b[i]
  BY <1>1, RisingAgree
<1>3. QED
  BY <1>1, <1>2, SeqEqual

\* A rising list has no repetition.
LEMMA RisingInjective ==
  ASSUME NEW s \in Seq(Candidate), Rising(s)
  PROVE  IsInjective(s)
<1>1. PICK n \in Nat : n = Len(s) /\ DOMAIN s = 1 .. n
  BY LenProperties
<1>2. \A i \in 1 .. n : s[i] \in Candidate
  BY <1>1, ElementOfSeq
<1>3. SUFFICES ASSUME NEW i \in 1 .. n, NEW j \in 1 .. n, s[i] = s[j] PROVE i = j
  BY <1>1 DEF IsInjective
<1>4. ~Before(s[i], s[j]) /\ ~Before(s[j], s[i])
  BY <1>2, <1>3, BeforeOrders
<1>5. QED
  BY <1>1, <1>4 DEF Rising

\* Every order of the aliases has them all, and there is one.
LEMMA OrdersHave ==
  ASSUME NEW s \in Text
  PROVE  Orders(s) # {} /\ \A order \in Orders(s) : ToSet(order) = DOMAIN BuildAliasMap(s)
<1>1. PICK D : D = DOMAIN BuildAliasMap(s)
  OBVIOUS
<1>2. IsFiniteSet(D)
  BY <1>1, MapIs DEF AliasMap
<1>3. PICK n \in Nat : n = Cardinality(D) /\ ExistsBijection(1 .. n, D)
  BY <1>2, FS_CardinalityType
<1>4. Orders(s) = {f \in [1 .. n -> D] : \A i, j \in 1 .. n : i # j => f[i] # f[j]}
  BY <1>1, <1>3 DEF Orders, SetToSeqs
<1>5. PICK b \in Bijection(1 .. n, D) : TRUE
  BY <1>3 DEF ExistsBijection
<1>6. b \in Orders(s)
  BY <1>4, <1>5 DEF Bijection, Injection, IsInjective
<1>7. ASSUME NEW f \in Orders(s) PROVE ToSet(f) = D
  <2>1. f \in Injection(1 .. n, D)
    BY <1>4 DEF Injection, IsInjective
  <2>2. IsFiniteSet(1 .. n) /\ Cardinality(1 .. n) = n
    <3>1. 1 \in Int /\ n \in Int
      OBVIOUS
    <3>2. IsFiniteSet(1 .. n) /\ Cardinality(1 .. n) = IF 1 > n THEN 0 ELSE n - 1 + 1
      BY <3>1, FS_Interval
    <3>3. QED
      BY <3>2
  <2>3. f \in Surjection(1 .. n, D)
    BY <1>2, <1>3, <2>1, <2>2, FS_Injection
  <2>4. f \in [1 .. n -> D] /\ \A x \in D : \E i \in 1 .. n : f[i] = x
    BY <1>4, <2>3 DEF Surjection
  <2>5. QED
    BY <2>4 DEF ToSet
<1>8. QED
  BY <1>1, <1>6, <1>7

\* The tables of a text, and behind them those that only the alias map has, once each.
NamedIn(s) == TablesNamed(s, {<<"FROM">>, <<"JOIN">>, <<"UPDATE">>})
Aliased(map) == {map[a] : a \in DOMAIN map}
Refs(r, s, map, extra) ==
  /\ r = NamedIn(s) \o extra /\ NamedIn(s) \in Seq(Word)
  /\ extra \in Seq(Word) /\ IsInjective(extra) /\ ToSet(extra) = Aliased(map) \ ToSet(NamedIn(s))

\* These are the tables completed for, in whatever order the map is walked.
LEMMA RefsHave ==
  ASSUME NEW s \in Text, NEW map, AliasMap(map), NEW order \in Seq(DOMAIN map), ToSet(order) = DOMAIN map
  PROVE  \E extra : Refs(TableRefs(s, map, order), s, map, extra)
<1>1. PICK after : after = After(s, {<<"FROM">>, <<"JOIN">>, <<"UPDATE">>})
  OBVIOUS
<1>2. after \in Seq([at : Nat, name : Word])
  BY <1>1, AfterIs
<1>3. PICK n \in Nat : n = Len(after)
  BY <1>2, LenProperties
<1>4. DOMAIN after = 1 .. n /\ \A i \in 1 .. n : after[i] \in [at : Nat, name : Word]
  BY <1>2, <1>3, LenProperties, ElementOfSeq
<1>5. PICK named : named = NamedIn(s)
  OBVIOUS
<1>6. named = [i \in DOMAIN after |-> after[i].name]
  BY <1>1, <1>5 DEF NamedIn, TablesNamed, Each
<1>7. \A i \in 1 .. n : after[i].name \in Word
  BY <1>4
<1>8. named \in [1 .. n -> Word]
  BY <1>4, <1>6, <1>7
<1>9. named \in Seq(Word)
  BY <1>8, FunctionIsSeq
<1>10. PICK m \in Nat : m = Len(order)
  BY LenProperties
<1>11. DOMAIN order = 1 .. m /\ \A i \in 1 .. m : order[i] \in DOMAIN map
  BY <1>10, LenProperties, ElementOfSeq
<1>12. PICK tables : tables = [i \in DOMAIN order |-> map[order[i]]]
  OBVIOUS
<1>13. DOMAIN tables = 1 .. m /\ \A i \in 1 .. m : tables[i] \in Word
  BY <1>11, <1>12 DEF AliasMap
<1>14. tables \in [1 .. m -> Word]
  BY <1>12, <1>13
<1>15. tables \in Seq(Word) /\ Len(tables) = m
  BY <1>14, FunctionIsSeq, LenProperties
<1>16. PICK parts : parts = [i \in DOMAIN tables |-> IF ~Contains(named, tables[i]) THEN <<tables[i]>> ELSE <<>>]
  OBVIOUS
<1>17. PICK others : others = Where(tables, LAMBDA t : ~Contains(named, t))
  OBVIOUS
<1>18. others = FlattenSeq(parts)
  BY <1>16, <1>17 DEF Where, Flat, Each
<1>19. \A i \in 1 .. m : parts[i] = <<>> \/ parts[i] = <<tables[i]>>
  BY <1>13, <1>16
<1>20. parts = [i \in 1 .. m |-> parts[i]]
  BY <1>13, <1>16
<1>21. others \in Seq(Word)
  BY <1>15, <1>18, <1>19, <1>20, Sources
<1>22. ASSUME NEW x PROVE x \in ToSet(others) <=> Passed(x, tables, parts, m)
  BY <1>15, <1>18, <1>19, <1>20, FilteredSet
<1>23. \A i \in 1 .. m : parts[i] # <<>> <=> tables[i] \notin ToSet(named)
  <2>1. DOMAIN named = 1 .. Len(named)
    BY <1>9, LenProperties
  <2>2. ASSUME NEW x PROVE Contains(named, x) <=> x \in ToSet(named)
    BY <2>1 DEF Contains, ToSet
  <2>3. QED
    BY <1>13, <1>16, <2>2
<1>24. \A x : x \in Aliased(map) <=> \E i \in 1 .. m : x = tables[i]
  BY <1>11, <1>12 DEF Aliased, ToSet
<1>25. ToSet(others) = Aliased(map) \ ToSet(named)
  <2>1. ASSUME NEW x PROVE x \in ToSet(others) <=> x \in Aliased(map) \ ToSet(named)
    BY <1>22, <1>23, <1>24 DEF Passed
  <2>2. QED
    BY <2>1
<1>26. PICK extra : extra = Distinct(others)
  OBVIOUS
<1>27. extra \in Seq(Word) /\ IsInjective(extra) /\ ToSet(extra) = ToSet(others)
  BY <1>21, <1>26, DistinctIs, DistinctHas
<1>28. TableRefs(s, map, order) = named \o extra
  BY <1>5, <1>12, <1>17, <1>26 DEF TableRefs, WithAliased, NamedIn, Each
<1>29. QED
  BY <1>5, <1>9, <1>25, <1>27, <1>28 DEF Refs

\* The names that a column has, and all that the columns of tables have.
FormsOf(t, col, map) ==
  {col, t \o <<".">> \o col} \union {a \o <<".">> \o col : a \in {b \in DOMAIN map : map[b] = t}}
NamesOf(t, map) == UNION {FormsOf(t, col, map) : col \in ToSet(ColumnsFor(t))}

\* They do not depend on the order of the map.
LEMMA FormsHave ==
  ASSUME NEW map, AliasMap(map), NEW order \in Seq(DOMAIN map), ToSet(order) = DOMAIN map,
         NEW t \in Word, NEW col \in Word
  PROVE  ToSet(NameForms(t, col, map, order)) = FormsOf(t, col, map)
<1>1. PICK n \in Nat : n = Len(order)
  BY LenProperties
<1>2. DOMAIN order = 1 .. n /\ \A i \in 1 .. n : order[i] \in DOMAIN map
  BY <1>1, LenProperties, ElementOfSeq
<1>3. PICK parts : parts = [i \in DOMAIN order |-> IF map[order[i]] = t THEN <<order[i]>> ELSE <<>>]
  OBVIOUS
<1>4. PICK found : found = Where(order, LAMBDA a : map[a] = t)
  OBVIOUS
<1>5. found = FlattenSeq(parts)
  BY <1>3, <1>4 DEF Where, Flat, Each
<1>6. \A i \in 1 .. n : parts[i] = <<>> \/ parts[i] = <<order[i]>>
  BY <1>2, <1>3
<1>7. parts = [i \in 1 .. n |-> parts[i]]
  BY <1>2, <1>3
<1>8. found \in Seq(DOMAIN map)
  BY <1>1, <1>5, <1>6, <1>7, Sources
<1>9. \A x : x \in ToSet(found) <=> Passed(x, order, parts, n)
  BY <1>1, <1>5, <1>6, <1>7, FilteredSet
<1>10. \A i \in 1 .. n : parts[i] # <<>> <=> map[order[i]] = t
  BY <1>2, <1>3
<1>11. \A x : x \in ToSet(found) <=> x \in DOMAIN map /\ map[x] = t
  <2>1. \A x : x \in DOMAIN map <=> \E i \in 1 .. n : x = order[i]
    BY <1>2 DEF ToSet
  <2>2. QED
    BY <1>9, <1>10, <2>1 DEF Passed
<1>12. PICK m \in Nat : m = Len(found) /\ DOMAIN found = 1 .. m /\ \A k \in 1 .. m : found[k] \in Word
  BY <1>8, LenProperties, ElementOfSeq DEF AliasMap
<1>13. PICK names : names = [k \in DOMAIN found |-> found[k] \o <<".">> \o col]
  OBVIOUS
<1>14. \A k \in 1 .. m : names[k] \in Word
  BY <1>12, <1>13, QualifiedIs
<1>15. names \in [1 .. m -> Word]
  BY <1>12, <1>13, <1>14
<1>16. names \in Seq(Word)
  BY <1>15, FunctionIsSeq
<1>17. ToSet(names) = {a \o <<".">> \o col : a \in {b \in DOMAIN map : map[b] = t}}
  <2>1. PICK B : B = {b \in DOMAIN map : map[b] = t}
    OBVIOUS
  <2>2. PICK Q : Q = [a \in B |-> a \o <<".">> \o col]
    OBVIOUS
  <2>3. \A x : x \in B <=> \E k \in 1 .. m : x = found[k]
    BY <1>11, <1>12, <2>1 DEF ToSet
  <2>4. DOMAIN names = 1 .. m /\ \A k \in 1 .. m : names[k] = Q[found[k]]
    BY <1>12, <1>13, <2>2, <2>3
  <2>5. ASSUME NEW x PROVE x \in ToSet(names) <=> \E a \in B : x = Q[a]
    BY <2>3, <2>4 DEF ToSet
  <2>6. {a \o <<".">> \o col : a \in B} = {Q[a] : a \in B}
    BY <2>2
  <2>7. ToSet(names) = {Q[a] : a \in B}
    BY <2>5
  <2>8. QED
    BY <2>1, <2>6, <2>7
<1>18. PICK q : q = t \o <<".">> \o col
  OBVIOUS
<1>19. q \in Word
  BY <1>18, QualifiedIs
<1>20. PICK two : two = <<col, q>>
  OBVIOUS
<1>21. two \in Seq(Word) /\ DOMAIN two = 1 .. 2 /\ two[1] = col /\ two[2] = q
  BY <1>19, <1>20
<1>22. ToSet(two) = {col, q}
  BY <1>21 DEF ToSet
<1>23. NameForms(t, col, map, order) = two \o names
  BY <1>4, <1>13, <1>18, <1>20 DEF NameForms, Each
<1>24. ToSet(two \o names) = ToSet(two) \union ToSet(names)
  BY <1>16, <1>21, ConcatSet
<1>25. QED
  BY <1>17, <1>18, <1>22, <1>23, <1>24 DEF FormsOf

\* Nor do all the names of the columns of a table.
LEMMA NamesHave ==
  ASSUME PlainNames, NEW map, AliasMap(map), NEW order \in Seq(DOMAIN map), ToSet(order) = DOMAIN map, NEW t
  PROVE  ToSet(NamesIn(t, map, order)) = NamesOf(t, map)
<1>1. PICK cols : cols = ColumnsFor(t)
  OBVIOUS
<1>2. cols \in Seq(Word) /\ (cols # <<>> => t \in Word)
  BY <1>1, ColumnsForIs
<1>3. PICK n \in Nat : n = Len(cols)
  BY <1>2, LenProperties
<1>4. DOMAIN cols = 1 .. n /\ \A i \in 1 .. n : cols[i] \in Word
  BY <1>2, <1>3, LenProperties, ElementOfSeq
<1>5. PICK parts : parts = [i \in DOMAIN cols |-> NameForms(t, cols[i], map, order)]
  OBVIOUS
<1>6. NamesIn(t, map, order) = FlattenSeq(parts)
  BY <1>1, <1>5 DEF NamesIn, Flat, Each
<1>7. ASSUME NEW i \in 1 .. n PROVE parts[i] \in Seq(Word) /\ ToSet(parts[i]) = FormsOf(t, cols[i], map)
  <2>1. cols # <<>>
    BY <1>3
  <2>2. QED
    BY <1>2, <1>4, <1>5, <2>1, FormsAre, FormsHave
<1>8. parts = [i \in 1 .. n |-> parts[i]]
  BY <1>4, <1>5
<1>9. \A x : x \in ToSet(FlattenSeq(parts)) <=> \E i \in 1 .. n : x \in ToSet(parts[i])
  BY <1>7, <1>8, FlattenedSet
<1>10. \A x : x \in NamesOf(t, map) <=> \E i \in 1 .. n : x \in FormsOf(t, cols[i], map)
  BY <1>1, <1>4 DEF NamesOf, ToSet
<1>11. ASSUME NEW x PROVE x \in NamesOf(t, map) <=> x \in ToSet(FlattenSeq(parts))
  BY <1>7, <1>9, <1>10
<1>12. QED
  BY <1>6, <1>11

\* The candidates of some values.
LEMMA AsHas ==
  ASSUME NEW kind, NEW values
  PROVE  ToSet(As(kind, values)) = {[value |-> v, kind |-> kind] : v \in ToSet(values)}
BY DEF As, ToSet

\* The columns of tables by all their names: only which tables there are counts.
LEMMA QualifiedHas ==
  ASSUME PlainNames, NEW map, AliasMap(map), NEW order \in Seq(DOMAIN map), ToSet(order) = DOMAIN map,
         NEW S, NEW tables \in Seq(S)
  PROVE  ToSet(QualifiedColumnCompletions(tables, map, order))
           = {[value |-> v, kind |-> "Column"] : v \in UNION {NamesOf(t, map) : t \in ToSet(tables)}}
<1>1. PICK n \in Nat : n = Len(tables)
  BY LenProperties
<1>2. DOMAIN tables = 1 .. n
  BY <1>1, LenProperties
<1>3. PICK parts : parts = [i \in DOMAIN tables |-> NamesIn(tables[i], map, order)]
  OBVIOUS
<1>4. QualifiedColumnCompletions(tables, map, order) = As("Column", FlattenSeq(parts))
  BY <1>3 DEF QualifiedColumnCompletions, NamesIn, NameForms, Flat, Each
<1>5. \A i \in 1 .. n : parts[i] \in Seq(Word) /\ ToSet(parts[i]) = NamesOf(tables[i], map)
  BY <1>2, <1>3, NamesInAre, NamesHave
<1>6. parts = [i \in 1 .. n |-> parts[i]]
  BY <1>2, <1>3
<1>7. \A x : x \in ToSet(FlattenSeq(parts)) <=> \E i \in 1 .. n : x \in ToSet(parts[i])
  BY <1>5, <1>6, FlattenedSet
<1>8. PICK U : U = UNION {NamesOf(t, map) : t \in ToSet(tables)}
  OBVIOUS
<1>9. \A x : x \in U <=> \E i \in 1 .. n : x \in NamesOf(tables[i], map)
  BY <1>2, <1>8 DEF ToSet
<1>10. ToSet(FlattenSeq(parts)) = U
  <2>1. ASSUME NEW x PROVE x \in ToSet(FlattenSeq(parts)) <=> x \in U
    BY <1>5, <1>7, <1>9
  <2>2. QED
    BY <2>1
<1>11. QED
  BY <1>4, <1>8, <1>10, AsHas

\* The test of the filter.
Passes(prefix, c) ==
  \/ IsPrefix(prefix, c.value)
  \/ prefix # <<>> /\ Dotted(c.value) /\ IsPrefix(prefix, LastPart(c.value))

\* It looks at each candidate by itself.
LEMMA FilterHas ==
  ASSUME NEW S, NEW s \in Seq(S), NEW prefix
  PROVE  Filter(s, prefix) \in Seq(S) /\ ToSet(Filter(s, prefix)) = {c \in ToSet(s) : Passes(prefix, c)}
<1>1. PICK n \in Nat : n = Len(s)
  BY LenProperties
<1>2. DOMAIN s = 1 .. n
  BY <1>1, LenProperties
<1>3. PICK parts : parts = [i \in DOMAIN s |-> IF Passes(prefix, s[i]) THEN <<s[i]>> ELSE <<>>]
  OBVIOUS
<1>4. Filter(s, prefix) = FlattenSeq(parts)
  BY <1>3 DEF Filter, Passes, Where, Flat, Each
<1>5. \A i \in 1 .. n : parts[i] = <<>> \/ parts[i] = <<s[i]>>
  BY <1>2, <1>3
<1>6. parts = [i \in 1 .. n |-> parts[i]]
  BY <1>2, <1>3
<1>7. FlattenSeq(parts) \in Seq(S)
  BY <1>1, <1>5, <1>6, Sources
<1>8. ASSUME NEW x PROVE x \in ToSet(FlattenSeq(parts)) <=> Passed(x, s, parts, n)
  BY <1>1, <1>5, <1>6, FilteredSet
<1>9. \A i \in 1 .. n : parts[i] # <<>> <=> Passes(prefix, s[i])
  BY <1>2, <1>3
<1>10. ASSUME NEW x PROVE x \in ToSet(FlattenSeq(parts)) <=> x \in ToSet(s) /\ Passes(prefix, x)
  BY <1>2, <1>8, <1>9, ZenonT(30) DEF Passed, ToSet
<1>11. QED
  BY <1>4, <1>7, <1>10

\* Two lists with the same candidates, all of one kind.
Same(a, b) == a \in Seq(Candidate) /\ b \in Seq(Candidate) /\ ToSet(a) = ToSet(b) /\ Alike(a)

\* What is ranked is one list, whatever the order of what was found, without repetitions.
LEMMA RankedSame ==
  ASSUME NEW a, NEW b, Same(a, b), NEW prefix
  PROVE  /\ Dedup(Rank(Filter(a, prefix))) = Dedup(Rank(Filter(b, prefix)))
         /\ IsInjective(Dedup(Rank(Filter(a, prefix))))
<1>1. a \in Seq(Candidate) /\ b \in Seq(Candidate) /\ ToSet(a) = ToSet(b) /\ Alike(a)
  BY DEF Same
<1>2. PICK f, g : f = Filter(a, prefix) /\ g = Filter(b, prefix)
  OBVIOUS
<1>3. f \in Seq(Candidate) /\ ToSet(f) = {c \in ToSet(a) : Passes(prefix, c)}
  BY <1>1, <1>2, FilterHas
<1>4. g \in Seq(Candidate) /\ ToSet(g) = {c \in ToSet(b) : Passes(prefix, c)}
  BY <1>1, <1>2, FilterHas
<1>5. ToSet(f) = ToSet(g) /\ \A c \in ToSet(f) : c \in ToSet(a)
  BY <1>1, <1>3, <1>4
<1>6. Alike(f) /\ Alike(g)
  BY <1>1, <1>5 DEF Alike
<1>7. PICK k, l : k = Rank(f) /\ l = Rank(g)
  OBVIOUS
<1>8. k \in Seq(Candidate) /\ Ordered(k) /\ ToSet(k) = ToSet(f)
  BY <1>3, <1>7, RankIs, RankOrders
<1>9. l \in Seq(Candidate) /\ Ordered(l) /\ ToSet(l) = ToSet(g)
  BY <1>4, <1>7, RankIs, RankOrders
<1>10. Alike(k) /\ Alike(l)
  BY <1>6, <1>8, <1>9 DEF Alike
<1>11. Dedup(k) \in Seq(Candidate) /\ Rising(Dedup(k)) /\ ToSet(Dedup(k)) = ToSet(k)
  BY <1>8, <1>10, DedupIs, DedupRises
<1>12. Dedup(l) \in Seq(Candidate) /\ Rising(Dedup(l)) /\ ToSet(Dedup(l)) = ToSet(l)
  BY <1>9, <1>10, DedupIs, DedupRises
<1>13. Dedup(k) = Dedup(l)
  BY <1>5, <1>8, <1>9, <1>11, <1>12, RisingUnique
<1>14. QED
  BY <1>2, <1>7, <1>11, <1>13, RisingInjective

\* Candidates made of values are of one kind.
LEMMA AsAlike ==
  ASSUME NEW kind \in Kinds, NEW values
  PROVE  Alike(As(kind, values))
<1>1. PICK L : L = ToSet(As(kind, values))
  OBVIOUS
<1>2. L = {[value |-> v, kind |-> kind] : v \in ToSet(values)}
  BY <1>1, AsHas
<1>3. \A c \in L : c.kind = kind
  BY <1>2
<1>4. QED
  BY <1>1, <1>3 DEF Alike

\* Where no join is completed, what is found is the same in any order of the map.
LEMMA FoundSame ==
  ASSUME PlainNames, NEW s \in Text, NEW map, AliasMap(map), NEW trigger, trigger # <<"ON">>, NEW ctx,
         NEW o \in Seq(DOMAIN map), ToSet(o) = DOMAIN map, NEW r, NEW e, Refs(r, s, map, e),
         NEW p \in Seq(DOMAIN map), ToSet(p) = DOMAIN map, NEW q, NEW f, Refs(q, s, map, f)
  PROVE  Same(CandidatesForTrigger(trigger, r, ctx, map, o), CandidatesForTrigger(trigger, q, ctx, map, p))
<1>1. r \in Seq(Word) /\ q \in Seq(Word) /\ ToSet(r) = ToSet(q)
  <2>1. PICK named \in Seq(Word) : named = NamedIn(s)
    BY DEF Refs
  <2>2. r = named \o e /\ e \in Seq(Word) /\ ToSet(e) = Aliased(map) \ ToSet(named)
    BY <2>1 DEF Refs
  <2>3. q = named \o f /\ f \in Seq(Word) /\ ToSet(f) = Aliased(map) \ ToSet(named)
    BY <2>1 DEF Refs
  <2>4. r \in Seq(Word) /\ ToSet(r) = ToSet(named) \union ToSet(e)
    BY <2>2, ConcatProperties, ConcatSet
  <2>5. q \in Seq(Word) /\ ToSet(q) = ToSet(named) \union ToSet(f)
    BY <2>3, ConcatProperties, ConcatSet
  <2>6. QED
    BY <2>2, <2>3, <2>4, <2>5
<1>2. ASSUME NEW t \in Seq(Word) PROVE t = <<>> <=> ToSet(t) = {}
  <2>1. PICK n \in Nat : n = Len(t) /\ DOMAIN t = 1 .. n
    BY LenProperties
  <2>2. ToSet(t) = {} <=> n = 0
    <3>1. ASSUME n # 0 PROVE t[1] \in ToSet(t)
      <4>1. 1 \in DOMAIN t
        BY <2>1, <3>1
      <4>2. QED
        BY <4>1 DEF ToSet
    <3>2. ASSUME n = 0 PROVE ToSet(t) = {}
      <4>1. DOMAIN t = {}
        BY <2>1, <3>2
      <4>2. QED
        BY <4>1 DEF ToSet
    <3>3. QED
      BY <3>1, <3>2
  <2>3. QED
    BY <2>1, <2>2, EmptySeq
<1>3. r = <<>> <=> q = <<>>
  BY <1>1, <1>2
<1>4. r \o Sorted = <<>> <=> q \o Sorted = <<>>
  <2>1. PICK S : S = Word \union DOMAIN Schema
    OBVIOUS
  <2>2. r \in Seq(S) /\ q \in Seq(S) /\ Sorted \in Seq(S)
    <3>1. Word \subseteq S /\ DOMAIN Schema \subseteq S /\ Sorted \in Seq(DOMAIN Schema)
      BY <2>1, CompletionAssumption
    <3>2. QED
      BY <1>1, <3>1, SeqMonotonic
  <2>3. ASSUME NEW t \in Seq(S) PROVE t \o Sorted = <<>> <=> t = <<>> /\ Sorted = <<>>
    <3>1. PICK u : u = t \o Sorted
      OBVIOUS
    <3>2. PICK m \in Nat, n \in Nat : m = Len(t) /\ n = Len(Sorted)
      BY <2>2, LenProperties
    <3>3. u \in Seq(S) /\ Len(u) = m + n
      BY <2>2, <3>1, <3>2, ConcatProperties
    <3>4. (u = <<>> <=> m + n = 0) /\ (t = <<>> <=> m = 0) /\ (Sorted = <<>> <=> n = 0)
      BY <2>2, <3>2, <3>3, EmptySeq
    <3>5. QED
      BY <3>1, <3>4
  <2>4. QED
    BY <1>3, <2>2, <2>3
<1>5. PICK tables, keywords : tables = TableCompletions(<<>>) /\ keywords = KeywordCompletions
  OBVIOUS
<1>6. "Table" \in Kinds /\ "Column" \in Kinds /\ "Keyword" \in Kinds
  BY DEF Kinds
<1>7. Same(tables, tables)
  <2>1. Alike(tables)
    BY <1>5, <1>6, AsAlike DEF TableCompletions
  <2>2. QED
    BY <1>5, <2>1, TablesAre DEF Same
<1>8. Same(keywords, keywords)
  <2>1. Alike(keywords)
    BY <1>5, <1>6, AsAlike DEF KeywordCompletions
  <2>2. QED
    BY <1>5, <2>1, KeywordsAre DEF Same
<1>9. ASSUME NEW S, NEW t \in Seq(S), NEW u \in Seq(S), ToSet(t) = ToSet(u)
      PROVE  Same(QualifiedColumnCompletions(t, map, o), QualifiedColumnCompletions(u, map, p))
  <2>1. PICK x, y : x = QualifiedColumnCompletions(t, map, o) /\ y = QualifiedColumnCompletions(u, map, p)
    OBVIOUS
  <2>2. x \in Seq(Candidate) /\ y \in Seq(Candidate)
    BY <1>9, <2>1, QualifiedOffered
  <2>3. ToSet(x) = {[value |-> v, kind |-> "Column"] : v \in UNION {NamesOf(w, map) : w \in ToSet(t)}}
    BY <1>9, <2>1, QualifiedHas
  <2>4. ToSet(y) = {[value |-> v, kind |-> "Column"] : v \in UNION {NamesOf(w, map) : w \in ToSet(u)}}
    BY <1>9, <2>1, QualifiedHas
  <2>5. Alike(x)
    BY <1>6, <2>1, AsAlike DEF QualifiedColumnCompletions
  <2>6. QED
    BY <1>9, <2>1, <2>2, <2>3, <2>4, <2>5 DEF Same
<1>10. Same(QualifiedColumnCompletions(r, map, o), QualifiedColumnCompletions(q, map, p))
  BY <1>1, <1>9
<1>11. Same(QualifiedColumnCompletions(Sorted, map, o), QualifiedColumnCompletions(Sorted, map, p))
  <2>1. Sorted \in Seq(DOMAIN Schema) /\ ToSet(Sorted) = ToSet(Sorted)
    BY CompletionAssumption
  <2>2. QED
    BY <1>9, <2>1
<1>12. PICK a, b : /\ a = CandidatesForTrigger(trigger, r, ctx, map, o)
                   /\ b = CandidatesForTrigger(trigger, q, ctx, map, p)
  OBVIOUS
<1>13. CASE trigger \in {<<k>> : k \in TableTriggers}
  <2>1. trigger # <<"SELECT">> /\ trigger \notin {<<"WHERE">>, <<"SET">>, <<"BY">>}
    BY <1>13 DEF TableTriggers
  <2>2. a = tables /\ b = tables
    BY <1>5, <1>12, <1>13, <2>1 DEF CandidatesForTrigger
  <2>3. QED
    BY <1>7, <1>12, <2>2
<1>14. CASE trigger = <<"SELECT">>
  <2>1. trigger \notin {<<k>> : k \in TableTriggers}
    BY <1>14 DEF TableTriggers
  <2>2. trigger \notin {<<"WHERE">>, <<"SET">>, <<"BY">>}
    BY <1>14
  <2>3. a = IF r = <<>> THEN tables ELSE QualifiedColumnCompletions(r, map, o)
    BY <1>5, <1>12, <1>14, <2>1, <2>2 DEF CandidatesForTrigger
  <2>4. b = IF q = <<>> THEN tables ELSE QualifiedColumnCompletions(q, map, p)
    BY <1>5, <1>12, <1>14, <2>1, <2>2 DEF CandidatesForTrigger
  <2>5. QED
    BY <1>3, <1>7, <1>10, <1>12, <2>3, <2>4
<1>15. CASE trigger \in {<<"WHERE">>, <<"SET">>, <<"BY">>}
  <2>1. trigger \notin {<<k>> : k \in TableTriggers}
    BY <1>15 DEF TableTriggers
  <2>2. trigger # <<"SELECT">>
    BY <1>15
  <2>3. a = IF r \o Sorted = <<>> THEN keywords
            ELSE QualifiedColumnCompletions(IF r = <<>> THEN Sorted ELSE r, map, o)
    BY <1>5, <1>12, <1>15, <2>1, <2>2 DEF CandidatesForTrigger
  <2>4. b = IF q \o Sorted = <<>> THEN keywords
            ELSE QualifiedColumnCompletions(IF q = <<>> THEN Sorted ELSE q, map, p)
    BY <1>5, <1>12, <1>15, <2>1, <2>2 DEF CandidatesForTrigger
  <2>5. QED
    BY <1>3, <1>4, <1>8, <1>10, <1>11, <1>12, <2>3, <2>4
<1>16. CASE /\ trigger \notin {<<k>> : k \in TableTriggers} /\ trigger # <<"SELECT">>
            /\ trigger \notin {<<"WHERE">>, <<"SET">>, <<"BY">>}
  <2>1. a = keywords /\ b = keywords
    BY <1>5, <1>12, <1>16 DEF CandidatesForTrigger
  <2>2. QED
    BY <1>8, <1>12, <2>1
<1>17. QED
  BY <1>13, <1>14, <1>15, <1>16

\* A sequence without repetitions, all of whose elements are one, has at most one.
LEMMA AtMostOne ==
  ASSUME NEW S, NEW a \in Seq(S), IsInjective(a), \A t, u \in ToSet(a) : t = u
  PROVE  Len(a) <= 1
<1>1. PICK n \in Nat : n = Len(a) /\ DOMAIN a = 1 .. n
  BY LenProperties
<1>2. SUFFICES ASSUME ~(n <= 1) PROVE FALSE
  BY <1>1
<1>3. 1 \in DOMAIN a /\ 2 \in DOMAIN a
  BY <1>1, <1>2
<1>4. a[1] \in ToSet(a) /\ a[2] \in ToSet(a)
  BY <1>3 DEF ToSet
<1>5. a[1] = a[2]
  BY <1>4
<1>6. QED
  BY <1>3, <1>5 DEF IsInjective

\* If the alias map has at most one table that the text does not name, its order does not show.
LEMMA RefsEqual ==
  ASSUME NEW s, NEW map, NEW r, NEW e, Refs(r, s, map, e), NEW q, NEW f, Refs(q, s, map, f),
         \A t, u \in Aliased(map) \ ToSet(NamedIn(s)) : t = u
  PROVE  r = q
<1>1. PICK A : A = Aliased(map) \ ToSet(NamedIn(s))
  OBVIOUS
<1>2. e \in Seq(Word) /\ IsInjective(e) /\ ToSet(e) = A
  BY <1>1 DEF Refs
<1>3. f \in Seq(Word) /\ IsInjective(f) /\ ToSet(f) = A
  BY <1>1 DEF Refs
<1>4. PICK n \in Nat : n = Len(e) /\ DOMAIN e = 1 .. n
  BY <1>2, LenProperties
<1>5. PICK m \in Nat : m = Len(f) /\ DOMAIN f = 1 .. m
  BY <1>3, LenProperties
<1>6. n <= 1 /\ m <= 1
  BY <1>1, <1>2, <1>3, <1>4, <1>5, AtMostOne
<1>7. (\A x \in A : \E i \in 1 .. n : x = e[i]) /\ \A i \in 1 .. n : e[i] \in A
  BY <1>2, <1>4 DEF ToSet
<1>8. (\A x \in A : \E i \in 1 .. m : x = f[i]) /\ \A i \in 1 .. m : f[i] \in A
  BY <1>3, <1>5 DEF ToSet
<1>9. n = m
  <2>1. \A i \in 1 .. n : \E j \in 1 .. m : e[i] = f[j]
    BY <1>7, <1>8
  <2>2. \A i \in 1 .. m : \E j \in 1 .. n : f[i] = e[j]
    BY <1>7, <1>8
  <2>3. n = 1 => 1 \in 1 .. n
    OBVIOUS
  <2>4. m = 1 => 1 \in 1 .. m
    OBVIOUS
  <2>5. n \in {0, 1} /\ m \in {0, 1}
    BY <1>6
  <2>6. QED
    BY <2>1, <2>2, <2>3, <2>4, <2>5
<1>10. \A i \in 1 .. n : e[i] = f[i]
  BY <1>1, <1>7, <1>8, <1>9
<1>11. e = f
  BY <1>2, <1>3, <1>4, <1>5, <1>9, <1>10, SeqEqual
<1>12. QED
  BY <1>11 DEF Refs

\* What a text and a word ask for, in two orders of the map.
LEMMA CandidatesStable ==
  ASSUME PlainNames, NEW s \in Text, NEW input, NEW map, map = BuildAliasMap(s),
         NEW o \in Orders(s), NEW p \in Orders(s)
  PROVE  /\ \/ Unordered(s, input)
            \/ Candidates(s, input, Trigger(input), map, o) = Candidates(s, input, Trigger(input), map, p)
         /\ Dotted(Token(input)) \/ IsInjective(Candidates(s, input, Trigger(input), map, o))
<1>1. AliasMap(map)
  BY MapIs
<1>2. o \in Seq(DOMAIN map) /\ ToSet(o) = DOMAIN map /\ p \in Seq(DOMAIN map) /\ ToSet(p) = DOMAIN map
  BY OrderIs, OrdersHave
<1>3. PICK r, q, ctx : r = TableRefs(s, map, o) /\ q = TableRefs(s, map, p) /\ ctx = JoinContext(s, map)
  OBVIOUS
<1>4. PICK e : Refs(r, s, map, e)
  BY <1>1, <1>2, <1>3, RefsHave
<1>5. PICK f : Refs(q, s, map, f)
  BY <1>1, <1>2, <1>3, RefsHave
<1>6. PICK trigger, token, prefix : trigger = Trigger(input) /\ token = Token(input) /\ prefix = Prefix(input)
  OBVIOUS
<1>7. PICK a, b : /\ a = CandidatesForTrigger(trigger, r, ctx, map, o)
                  /\ b = CandidatesForTrigger(trigger, q, ctx, map, p)
  OBVIOUS
<1>8. /\ Candidates(s, input, trigger, map, o) = QueryCompletions(trigger, token, prefix, a, map)
      /\ Candidates(s, input, trigger, map, p) = QueryCompletions(trigger, token, prefix, b, map)
  BY <1>3, <1>6, <1>7 DEF Candidates
<1>9. CASE Dotted(token)
  <2>1. \A x : QueryCompletions(trigger, token, prefix, x, map) = CompleteQualified(token, map)
    BY <1>9 DEF QueryCompletions
  <2>2. QED
    BY <1>6, <1>8, <1>9, <2>1
<1>10. CASE ~Dotted(token) /\ trigger = <<"ON">>
  <2>1. /\ a = IF ctx # <<>> THEN OnCompletions(ctx[1])
               ELSE IF r = <<>> THEN KeywordCompletions ELSE ColumnCompletions(r)
        /\ b = IF ctx # <<>> THEN OnCompletions(ctx[1])
               ELSE IF q = <<>> THEN KeywordCompletions ELSE ColumnCompletions(q)
    <3>1. trigger \notin {<<k>> : k \in TableTriggers} /\ trigger # <<"SELECT">>
      BY <1>10 DEF TableTriggers
    <3>2. trigger \notin {<<"WHERE">>, <<"SET">>, <<"BY">>}
      BY <1>10
    <3>3. QED
      BY <1>7, <1>10, <3>1, <3>2 DEF CandidatesForTrigger
  <2>2. Unordered(s, input) \/ a = b
    <3>1. SUFFICES ASSUME ~Unordered(s, input) PROVE a = b
      OBVIOUS
    <3>2. CASE ctx # <<>>
      BY <2>1, <3>2
    <3>3. CASE ctx = <<>>
      <4>1. \A t, u \in OnlyAliased(s) : t = u
        BY <1>3, <1>6, <1>10, <3>1, <3>3 DEF Unordered
      <4>2. OnlyAliased(s) = Aliased(map) \ ToSet(NamedIn(s))
        BY DEF OnlyAliased, Aliased, NamedIn
      <4>3. r = q
        BY <1>4, <1>5, <4>1, <4>2, RefsEqual
      <4>4. QED
        BY <2>1, <4>3
    <3>4. QED
      BY <3>2, <3>3
  <2>3. a \in Seq(Candidate)
    <3>1. r \in Seq(Word)
      BY <1>1, <1>2, <1>3, RefsAre
    <3>2. QED
      BY <1>1, <1>2, <1>3, <1>7, <3>1, OfferedIs
  <2>4. PICK x : x = Where(a, LAMBDA c : IsPrefix(prefix, c.value))
    OBVIOUS
  <2>5. x \in Seq(Candidate)
    <3>1. PICK n \in Nat : n = Len(a) /\ DOMAIN a = 1 .. n
      BY <2>3, LenProperties
    <3>2. PICK parts : parts = [i \in DOMAIN a |-> IF IsPrefix(prefix, a[i].value) THEN <<a[i]>> ELSE <<>>]
      OBVIOUS
    <3>3. x = FlattenSeq(parts)
      BY <2>4, <3>2 DEF Where, Flat, Each
    <3>4. parts = [i \in 1 .. n |-> parts[i]] /\ \A i \in 1 .. n : parts[i] = <<>> \/ parts[i] = <<a[i]>>
      BY <3>1, <3>2
    <3>5. QED
      BY <2>3, <3>1, <3>3, <3>4, Sources
  <2>6. IsInjective(Distinct(x))
    BY <2>5, DistinctHas
  <2>7. QueryCompletions(trigger, token, prefix, a, map) = Distinct(x)
    BY <1>10, <2>4 DEF QueryCompletions
  <2>8. QED
    BY <1>6, <1>8, <2>2, <2>6, <2>7
<1>11. CASE ~Dotted(token) /\ trigger # <<"ON">>
  <2>1. Same(a, b)
    BY <1>1, <1>2, <1>4, <1>5, <1>7, <1>11, FoundSame
  <2>2. \A x : QueryCompletions(trigger, token, prefix, x, map) = Dedup(Rank(Filter(x, prefix)))
    BY <1>11 DEF QueryCompletions
  <2>3. /\ Dedup(Rank(Filter(a, prefix))) = Dedup(Rank(Filter(b, prefix)))
        /\ IsInjective(Dedup(Rank(Filter(a, prefix))))
    BY <2>1, RankedSame
  <2>4. QED
    BY <1>6, <1>8, <2>2, <2>3
<1>12. QED
  BY <1>9, <1>10, <1>11

\* Tables are offered once, as the schema has them.
LEMMA TablesOnce ==
  ASSUME NEW prefix
  PROVE  IsInjective(TableCompletions(prefix))
<1>1. Sorted \in Seq(DOMAIN Schema) /\ IsInjective(Sorted)
  BY CompletionAssumption
<1>2. PICK n \in Nat : n = Len(Sorted) /\ DOMAIN Sorted = 1 .. n
  BY <1>1, LenProperties
<1>3. PICK parts : parts = [i \in DOMAIN Sorted |-> IF IsPrefix(prefix, Sorted[i]) THEN <<Sorted[i]>> ELSE <<>>]
  OBVIOUS
<1>4. PICK r : r = StartingWith(Sorted, prefix)
  OBVIOUS
<1>5. r = FlattenSeq(parts)
  BY <1>3, <1>4 DEF StartingWith, Where, Flat, Each
<1>6. parts = [i \in 1 .. n |-> parts[i]] /\ \A i \in 1 .. n : parts[i] = <<>> \/ parts[i] = <<Sorted[i]>>
  BY <1>2, <1>3
<1>7. PICK at : From(at, r, Sorted, parts, n)
  BY <1>1, <1>2, <1>5, <1>6, Sources
<1>8. r \in Seq(DOMAIN Schema)
  BY <1>1, <1>2, <1>5, <1>6, Sources
<1>9. PICK m \in Nat : m = Len(r) /\ DOMAIN r = 1 .. m
  BY <1>8, LenProperties
<1>10. ASSUME NEW k \in 1 .. m, NEW l \in 1 .. m, k < l PROVE r[k] # r[l]
  <2>1. at[k] \in 1 .. n /\ at[l] \in 1 .. n /\ r[k] = Sorted[at[k]] /\ r[l] = Sorted[at[l]] /\ at[k] < at[l]
    BY <1>7, <1>9, <1>10 DEF From
  <2>2. QED
    BY <1>1, <1>2, <2>1 DEF IsInjective
<1>11. ASSUME NEW k \in 1 .. m, NEW l \in 1 .. m, r[k] = r[l] PROVE k = l
  <2>1. ~(k < l) /\ ~(l < k)
    BY <1>10, <1>11
  <2>2. QED
    BY <2>1
<1>12. PICK c : c = [i \in DOMAIN r |-> [value |-> r[i], kind |-> "Table"]]
  OBVIOUS
<1>13. TableCompletions(prefix) = c
  BY <1>4, <1>12 DEF TableCompletions, As
<1>14. DOMAIN c = 1 .. m /\ \A i \in 1 .. m : c[i].value = r[i]
  BY <1>9, <1>12
<1>15. IsInjective(c)
  BY <1>11, <1>14 DEF IsInjective
<1>16. QED
  BY <1>13, <1>15

\* What is offered at a cursor.
LEMMA CompletionsStable ==
  ASSUME PlainNames, NEW s \in Text, NEW at, NEW input, input = SubSeq(s, 1, at)
  PROVE  /\ Unordered(s, input) \/ Cardinality(Completions(s, at)) = 1
         /\ Dotted(Token(input)) \/ \A l \in Completions(s, at) : IsInjective(l)
<1>1. CASE IsPrefix(<<"\\d", Blank>>, input)
  <2>1. Completions(s, at) = {TableCompletions(SubSeq(input, 3, at))}
    BY <1>1 DEF Completions
  <2>2. QED
    BY <2>1, FS_Singleton, TablesOnce
<1>2. CASE ~IsPrefix(<<"\\d", Blank>>, input)
  <2>1. PICK map : map = BuildAliasMap(s)
    OBVIOUS
  <2>2. Completions(s, at) = {Candidates(s, input, Trigger(input), map, order) : order \in Orders(s)}
    BY <1>2, <2>1 DEF Completions
  <2>3. PICK o : o \in Orders(s)
    BY OrdersHave
  <2>4. PICK l : l = Candidates(s, input, Trigger(input), map, o)
    OBVIOUS
  <2>5. ASSUME ~Unordered(s, input) PROVE Cardinality(Completions(s, at)) = 1
    <3>1. ASSUME NEW order \in Orders(s) PROVE Candidates(s, input, Trigger(input), map, order) = l
      BY <2>1, <2>3, <2>4, <2>5, CandidatesStable
    <3>2. Completions(s, at) = {l}
      BY <2>2, <2>3, <3>1
    <3>3. QED
      BY <3>2, FS_Singleton
  <2>6. ASSUME ~Dotted(Token(input)), NEW k \in Completions(s, at) PROVE IsInjective(k)
    <3>1. PICK order \in Orders(s) : k = Candidates(s, input, Trigger(input), map, order)
      BY <2>2
    <3>2. QED
      BY <2>1, <2>6, <3>1, CandidatesStable
  <2>7. QED
    BY <2>5, <2>6
<1>3. QED
  BY <1>1, <1>2

\* What is offered does not depend on the order of the alias map, but after an ON without a
\* JOIN, and has no repetitions but after a qualifier, whatever the line, the cursor, the
\* alphabet and the frequencies, for a schema of plain names (completion_ranker.rs,
\* query_completion.rs).
THEOREM MenuIsStable ==
  ASSUME PlainNames
  PROVE  CompletionSpec => []StableAndDistinct
<1>1. CompletionInit => PromptInv
  BY PromptInit
<1>2. PromptInv /\ [CompletionNext]_completionVars => PromptInv'
  BY PromptStep
<1>3. PromptInv => StableAndDistinct
  <2>1. SUFFICES ASSUME PromptInv PROVE StableAndDistinct
    OBVIOUS
  <2>2. line \in Text /\ Input = SubSeq(line, 1, pos)
    BY <2>1 DEF PromptInv, LineIs, Input
  <2>3. QED
    BY <2>2, CompletionsStable DEF StableAndDistinct
<1>4. QED
  BY <1>1, <1>2, <1>3, PTL DEF CompletionSpec
-----------------------------------------------------------------------------
(***************************************************************************)
(* The scope.  The code looks for the words after keywords, the property   *)
(* at the clauses of the text and their items.  Both go by the places where *)
(* words begin: there the two scans meet, also after the dangling dots are *)
(* fixed.                                                                  *)
(***************************************************************************)

\* A rising sequence of numbers, and one whose numbers are all in another.
Rises(f, m) == (\A i \in 1 .. m : f[i] \in Int) /\ \A i, j \in 1 .. m : i < j => f[i] < f[j]
Within(f, m, g, n) == \A i \in 1 .. m : \E j \in 1 .. n : f[i] = g[j]

\* Of two rising sequences with the same numbers the one agrees with the other.
LEMMA PlacesAgree ==
  ASSUME NEW m \in Nat, NEW n \in Nat, NEW f, NEW g, Rises(f, m), Rises(g, n), Within(f, m, g, n), Within(g, n, f, m)
  PROVE  m <= n /\ \A i \in 1 .. m : f[i] = g[i]
<1> DEFINE T == {i \in 1 .. m : ~(i <= n /\ f[i] = g[i])}
<1>0. /\ \A i \in 1 .. m : f[i] \in Int
      /\ \A i \in 1 .. n : g[i] \in Int
      /\ \A i, j \in 1 .. m : i < j => f[i] < f[j]
      /\ \A i, j \in 1 .. n : i < j => g[i] < g[j]
      /\ \A i \in 1 .. m : \E j \in 1 .. n : f[i] = g[j]
      /\ \A j \in 1 .. n : \E i \in 1 .. m : g[j] = f[i]
  BY DEF Rises, Within
<1>1. T = {}
  <2>1. SUFFICES ASSUME T # {} PROVE FALSE
    OBVIOUS
  <2>2. PICK i \in T : \A j \in T : i <= j
    <3>1. T \subseteq Nat
      OBVIOUS
    <3>2. QED
      BY <2>1, <3>1, LeastPlace
  <2>3. i \in 1 .. m /\ ~(i <= n /\ f[i] = g[i])
    OBVIOUS
  <2>4. ASSUME NEW j \in 1 .. m, j < i PROVE j <= n /\ f[j] = g[j]
    BY <2>2, <2>4
  <2>5. PICK j \in 1 .. n : f[i] = g[j]
    BY <1>0, <2>3
  <2>6. ~(j < i)
    <3>1. SUFFICES ASSUME j < i PROVE FALSE
      OBVIOUS
    <3>2. j \in 1 .. m /\ f[j] < f[i] /\ f[j] = g[j]
      BY <1>0, <2>3, <2>4, <3>1
    <3>3. QED
      BY <1>0, <2>3, <2>5, <3>2
  <2>7. i \in 1 .. n
    BY <2>3, <2>6
  <2>8. PICK k \in 1 .. m : g[i] = f[k]
    BY <1>0, <2>7
  <2>9. ~(k < i)
    <3>1. SUFFICES ASSUME k < i PROVE FALSE
      OBVIOUS
    <3>2. k \in 1 .. n /\ f[k] = g[k]
      BY <2>3, <2>4, <3>1
    <3>3. g[k] < g[i]
      BY <1>0, <2>7, <3>1, <3>2
    <3>4. QED
      BY <1>0, <2>7, <2>8, <3>2, <3>3
  <2>10. f[i] <= f[k] /\ g[i] <= g[j]
    <3>1. f[i] \in Int /\ g[i] \in Int
      BY <1>0, <2>3, <2>7
    <3>2. i = k \/ i < k
      BY <2>3, <2>9
    <3>3. i = j \/ i < j
      BY <2>3, <2>6
    <3>4. f[i] <= f[k]
      BY <1>0, <2>3, <3>1, <3>2
    <3>5. g[i] <= g[j]
      BY <1>0, <2>7, <3>1, <3>3
    <3>6. QED
      BY <3>4, <3>5
  <2>11. f[i] = g[i]
    BY <1>0, <2>3, <2>5, <2>7, <2>8, <2>10
  <2>12. QED
    BY <2>3, <2>7, <2>11
<1>2. \A i \in 1 .. m : i <= n /\ f[i] = g[i]
  BY <1>1
<1>3. m <= n
  <2>1. m = 0 \/ m \in 1 .. m
    OBVIOUS
  <2>2. QED
    BY <1>2, <2>1
<1>4. QED
  BY <1>2, <1>3

\* They are the same sequence.
LEMMA SamePlaces ==
  ASSUME NEW m \in Nat, NEW n \in Nat, NEW f, NEW g, Rises(f, m), Rises(g, n), Within(f, m, g, n), Within(g, n, f, m)
  PROVE  m = n /\ \A i \in 1 .. m : f[i] = g[i]
<1>1. m <= n /\ \A i \in 1 .. m : f[i] = g[i]
  BY PlacesAgree
<1>2. n <= m
  BY PlacesAgree
<1>3. QED
  BY <1>1, <1>2

\* Where a word begins, and where one that begins there ends.
Opens(s, i) == s[i] # Blank /\ (i = 1 \/ s[i-1] = Blank)
Closes(s, n, i, e) ==
  e \in i .. n /\ (\A k \in i .. e : s[k] # Blank) /\ (e = n \/ s[e+1] = Blank)
Spelled(w, s, i, e) == w \in Word /\ Len(w) = e - i + 1 /\ \A k \in 1 .. e - i + 1 : w[k] = s[i+k-1]

\* The word from a place ends somewhere.
LEMMA WordFromHas ==
  ASSUME NEW s \in Text, NEW n \in Nat, n = Len(s), NEW i \in 1 .. n, s[i] # Blank
  PROVE  \E e : Closes(s, n, i, e) /\ Spelled(WordFrom(s, i), s, i, e)
<1>1. i \in Nat
  OBVIOUS
<1>2. PICK ends : ends = {j \in i .. n : j = n \/ s[j+1] = Blank}
  OBVIOUS
<1>3. n \in ends /\ ends \subseteq Nat
  BY <1>1, <1>2
<1>4. \E m \in ends : \A k \in ends : m <= k
  BY <1>3, LeastPlace
<1>5. PICK e : e = Min(ends)
  OBVIOUS
<1>6. e \in ends /\ \A k \in ends : e <= k
  BY <1>4, <1>5 DEF Min
<1>7. WordFrom(s, i) = SubSeq(s, i, e)
  BY <1>1, <1>2, <1>5 DEF WordFrom
<1>8. e \in i .. n /\ (e = n \/ s[e+1] = Blank)
  BY <1>2, <1>6
<1>9. \A k \in i .. e : s[k] \in Letters /\ s[k] # Blank
  <2>1. ASSUME NEW k \in i .. e PROVE s[k] \in Letters /\ s[k] # Blank
    <3>1. k \in 1 .. n
      BY <1>1, <1>8
    <3>2. s[k] \in Letters
      BY <1>1, <3>1, ElementOfSeq DEF Text, Letters
    <3>3. CASE k = i
      BY <3>2, <3>3
    <3>4. CASE k # i
      <4>1. k - 1 \in i .. n /\ ~(e <= k - 1) /\ (k - 1) + 1 = k
        BY <1>1, <1>8, <3>4
      <4>2. k - 1 \notin ends
        BY <1>6, <4>1
      <4>3. QED
        BY <1>2, <3>2, <4>1, <4>2
    <3>5. QED
      BY <3>3, <3>4
  <2>2. QED
    BY <2>1
<1>10. PICK w : w = SubSeq(s, i, e)
  OBVIOUS
<1>11. i \in Int /\ e \in Int /\ i <= e
  BY <1>1, <1>8
<1>12. Len(w) = e - i + 1 /\ \A k \in 1 .. e - i + 1 : w[k] = s[i+k-1]
  <2>1. \A k \in i .. e : s[k] \in Letters
    BY <1>9
  <2>2. QED
    BY <1>10, <1>11, <2>1, SubSeqProperties
<1>13. WordFrom(s, i) \in Word
  BY WordFromIs
<1>14. Closes(s, n, i, e)
  BY <1>8, <1>9 DEF Closes
<1>15. Spelled(WordFrom(s, i), s, i, e)
  BY <1>7, <1>10, <1>12, <1>13 DEF Spelled
<1>16. QED
  BY <1>14, <1>15

\* It ends nowhere else.
LEMMA ClosesOnce ==
  ASSUME NEW s, NEW n \in Nat, NEW i \in Nat, NEW e, Closes(s, n, i, e), NEW d, Closes(s, n, i, d)
  PROVE  d = e
<1>1. e \in i .. n /\ (\A k \in i .. e : s[k] # Blank) /\ (e = n \/ s[e+1] = Blank)
  BY DEF Closes
<1>2. d \in i .. n /\ (\A k \in i .. d : s[k] # Blank) /\ (d = n \/ s[d+1] = Blank)
  BY DEF Closes
<1>3. ~(d < e)
  <2>1. SUFFICES ASSUME d < e PROVE FALSE
    OBVIOUS
  <2>2. d + 1 \in i .. e /\ d # n
    BY <1>1, <1>2, <2>1
  <2>3. QED
    BY <1>1, <1>2, <2>2
<1>4. ~(e < d)
  <2>1. SUFFICES ASSUME e < d PROVE FALSE
    OBVIOUS
  <2>2. e + 1 \in i .. d /\ e # n
    BY <1>1, <1>2, <2>1
  <2>3. QED
    BY <1>1, <1>2, <2>2
<1>5. QED
  BY <1>1, <1>2, <1>3, <1>4

\* So a text that stands between is that word.
LEMMA WordFromGiven ==
  ASSUME NEW s \in Text, NEW n \in Nat, n = Len(s), NEW i \in 1 .. n, NEW e, Closes(s, n, i, e),
         NEW w, Spelled(w, s, i, e)
  PROVE  WordFrom(s, i) = w
<1>1. e \in i .. n /\ \A k \in i .. e : s[k] # Blank
  BY DEF Closes
<1>2. i \in Nat /\ i \in i .. e
  BY <1>1
<1>3. PICK d : Closes(s, n, i, d) /\ Spelled(WordFrom(s, i), s, i, d)
  BY <1>1, <1>2, WordFromHas
<1>4. d = e
  BY <1>2, <1>3, ClosesOnce
<1>5. PICK v : v = WordFrom(s, i)
  OBVIOUS
<1>6. v \in Seq(Letters) /\ w \in Seq(Letters) /\ Len(v) = Len(w) /\ \A k \in 1 .. Len(v) : v[k] = w[k]
  BY <1>3, <1>4, <1>5 DEF Spelled, Word, Text, Letters
<1>7. QED
  BY <1>5, <1>6, SeqEqual

\* The places of the words of a text: where words begin, in order.
WordsAt(f, s, n, m) ==
  /\ \A k \in 1 .. m : f[k] \in 1 .. n /\ Opens(s, f[k]) /\ Words(s)[k] = WordFrom(s, f[k])
  /\ \A k, l \in 1 .. m : k < l => f[k] < f[l]
  /\ \A i \in 1 .. n : Opens(s, i) => \E k \in 1 .. m : f[k] = i

\* There are such.
LEMMA WordPlaces ==
  ASSUME NEW s \in Text, NEW n \in Nat, n = Len(s), NEW m \in Nat, m = Len(Words(s))
  PROVE  \E f : WordsAt(f, s, n, m)
<1>2. PICK d : d = Indices(s)
  OBVIOUS
<1>3. DOMAIN d = 1 .. n /\ \A i \in 1 .. n : d[i] = i
  BY <1>2, LenProperties DEF Indices, Text, Letters
<1>4. PICK parts : parts = [i \in DOMAIN d |->
                              IF s[d[i]] # Blank /\ (d[i] = 1 \/ s[d[i]-1] = Blank) THEN <<d[i]>> ELSE <<>>]
  OBVIOUS
<1>5. PICK starts : starts = Where(d, LAMBDA i : s[i] # Blank /\ (i = 1 \/ s[i-1] = Blank))
  OBVIOUS
<1>6. starts = FlattenSeq(parts)
  BY <1>4, <1>5 DEF Where, Flat, Each
<1>7. parts = [i \in 1 .. n |-> parts[i]]
  BY <1>3, <1>4
<1>8. \A i \in 1 .. n : parts[i] = IF Opens(s, i) THEN <<i>> ELSE <<>>
  BY <1>3, <1>4 DEF Opens
<1>9. \A i \in 1 .. n : parts[i] = <<>> \/ parts[i] = <<i>>
  BY <1>8
<1>10. Kept(starts, parts, n)
  BY <1>6, <1>7, <1>9, PlacesKept
<1>11. \A i \in 1 .. n : parts[i] # <<>> <=> Opens(s, i)
  <2>1. \A i \in 1 .. n : <<i>> # <<>>
    OBVIOUS
  <2>2. QED
    BY <1>8, <2>1, Zenon
<1>12. starts \in Seq(1 .. n)
  BY <1>10 DEF Kept
<1>13. PICK l \in Nat : l = Len(starts) /\ DOMAIN starts = 1 .. l
  BY <1>12, LenProperties
<1>14. \A k \in 1 .. l : starts[k] \in 1 .. n
  BY <1>12, <1>13, ElementOfSeq
<1>15. Words(s) = [k \in DOMAIN starts |-> WordFrom(s, starts[k])]
  BY <1>2, <1>5 DEF Words, Each
<1>16. DOMAIN Words(s) = 1 .. l /\ \A k \in 1 .. l : Words(s)[k] = WordFrom(s, starts[k])
  BY <1>13, <1>15
<1>17. l = m
  <2>1. Words(s) \in Seq(Word)
    BY WordsAre
  <2>2. DOMAIN Words(s) = 1 .. m
    BY <2>1, LenProperties
  <2>3. 1 .. l = 1 .. m
    BY <1>16, <2>2
  <2>4. (l \in 1 .. l \/ l = 0) /\ (m \in 1 .. m \/ m = 0)
    OBVIOUS
  <2>5. QED
    BY <2>3, <2>4
<1>18. WordsAt(starts, s, n, m)
  BY <1>10, <1>11, <1>13, <1>14, <1>16, <1>17 DEF WordsAt, Kept
<1>19. QED
  BY <1>18

\* A keyword by itself, as a place in a text and as a word.
KeyAt(s, n, i) ==
  s[i] \in Keywords /\ (i = 1 \/ s[i-1] = Blank) /\ (i = n \/ s[i+1] = Blank)
KeyWords == {<<k>> : k \in Keywords}

\* The two are the same.
LEMMA KeyIsWord ==
  ASSUME NEW s \in Text, NEW n \in Nat, n = Len(s), NEW i \in 1 .. n
  PROVE  /\ KeyAt(s, n, i) => Opens(s, i) /\ WordFrom(s, i) = <<s[i]>>
         /\ Opens(s, i) /\ WordFrom(s, i) \in KeyWords => KeyAt(s, n, i)
<1>1. Blank \notin Keywords
  BY CompletionAssumption
<1>2. ASSUME KeyAt(s, n, i) PROVE Opens(s, i) /\ WordFrom(s, i) = <<s[i]>>
  <2>1. s[i] # Blank /\ Opens(s, i)
    BY <1>1, <1>2 DEF KeyAt, Opens
  <2>2. Closes(s, n, i, i)
    <3>1. i \in i .. n /\ \A k \in i .. i : k = i
      OBVIOUS
    <3>2. QED
      BY <1>2, <2>1, <3>1 DEF KeyAt, Closes
  <2>3. PICK x : x = s[i]
    OBVIOUS
  <2>4. x \in Letters
    BY <2>3, ElementOfSeq DEF Text, Letters
  <2>5. PICK w : w = <<x>>
    OBVIOUS
  <2>6. w \in Seq(Letters) /\ Len(w) = 1 /\ w[1] = x
    BY <2>4, <2>5
  <2>7. Spelled(w, s, i, i)
    <3>1. i - i + 1 = 1 /\ i + 1 - 1 = i /\ \A k \in 1 .. 1 : k = 1
      OBVIOUS
    <3>2. w \in Word
      BY <2>1, <2>3, <2>6, <3>1 DEF Word, Text, Letters
    <3>3. QED
      BY <2>3, <2>6, <3>1, <3>2 DEF Spelled
  <2>8. QED
    BY <2>1, <2>2, <2>3, <2>5, <2>7, WordFromGiven
<1>3. ASSUME Opens(s, i), WordFrom(s, i) \in KeyWords PROVE KeyAt(s, n, i)
  <2>1. PICK e : Closes(s, n, i, e) /\ Spelled(WordFrom(s, i), s, i, e)
    BY <1>3, WordFromHas DEF Opens
  <2>2. PICK k \in Keywords : WordFrom(s, i) = <<k>>
    BY <1>3 DEF KeyWords
  <2>3. Len(<<k>>) = 1 /\ <<k>>[1] = k
    OBVIOUS
  <2>4. e \in i .. n /\ (e = n \/ s[e+1] = Blank)
    BY <2>1 DEF Closes
  <2>5. e - i + 1 = 1 /\ \A j \in 1 .. e - i + 1 : <<k>>[j] = s[i+j-1]
    BY <2>1, <2>2, <2>3 DEF Spelled
  <2>6. e = i /\ i + 1 - 1 = i /\ 1 \in 1 .. 1
    BY <2>4, <2>5
  <2>7. s[i] = k
    BY <2>3, <2>5, <2>6
  <2>8. QED
    BY <1>3, <2>4, <2>6, <2>7 DEF KeyAt, Opens
<1>4. QED
  BY <1>2, <1>3

\* Where a clause ends that begins at a place: before the next keyword.
ClauseEnds(s, n, i, b) ==
  /\ b \in i .. n /\ (b = n \/ KeyAt(s, n, b + 1))
  /\ \A j \in i + 1 .. b : ~KeyAt(s, n, j)
ItemsOf(t) == Each(SplitOn(t, ","), Words)

\* A clause of a text.
ClauseAt(s, n, i, c) ==
  /\ i \in 1 .. n /\ KeyAt(s, n, i) /\ c.key = s[i]
  /\ \E b : ClauseEnds(s, n, i, b) /\ c.items = ItemsOf(SubSeq(s, i + 1, b))

\* There is one for each keyword by itself, and no other.
LEMMA ClausesHave ==
  ASSUME NEW s \in Text, NEW n \in Nat, n = Len(s)
  PROVE  /\ \A c \in ToSet(Clauses(s)) : \E i : ClauseAt(s, n, i, c)
         /\ \A i \in 1 .. n : KeyAt(s, n, i) => \E c \in ToSet(Clauses(s)) : ClauseAt(s, n, i, c)
<1>2. PICK d : d = Indices(s)
  OBVIOUS
<1>3. DOMAIN d = 1 .. n /\ \A i \in 1 .. n : d[i] = i
  BY <1>2, LenProperties DEF Indices, Text, Letters
<1>4. PICK parts : parts = [i \in DOMAIN d |->
         IF /\ s[d[i]] \in Keywords
            /\ d[i] = 1 \/ s[d[i]-1] = Blank
            /\ d[i] = Len(s) \/ s[d[i]+1] = Blank
         THEN <<d[i]>> ELSE <<>>]
  OBVIOUS
<1>5. PICK starts : starts = Where(d, LAMBDA i : /\ s[i] \in Keywords
                                                 /\ i = 1 \/ s[i-1] = Blank
                                                 /\ i = Len(s) \/ s[i+1] = Blank)
  OBVIOUS
<1>6. starts = FlattenSeq(parts)
  BY <1>4, <1>5 DEF Where, Flat, Each
<1>7. parts = [i \in 1 .. n |-> parts[i]]
  BY <1>3, <1>4
<1>8. \A i \in 1 .. n : parts[i] = IF KeyAt(s, n, i) THEN <<i>> ELSE <<>>
  BY <1>3, <1>4 DEF KeyAt
<1>9. \A i \in 1 .. n : parts[i] = <<>> \/ parts[i] = <<i>>
  BY <1>8
<1>10. Kept(starts, parts, n)
  BY <1>6, <1>7, <1>9, PlacesKept
<1>11. \A i \in 1 .. n : parts[i] # <<>> <=> KeyAt(s, n, i)
  <2>1. \A i \in 1 .. n : <<i>> # <<>>
    OBVIOUS
  <2>2. QED
    BY <1>8, <2>1, Zenon
<1>12. starts \in Seq(1 .. n)
  BY <1>10 DEF Kept
<1>13. PICK m \in Nat : m = Len(starts) /\ DOMAIN starts = 1 .. m
  BY <1>12, LenProperties
<1>14. \A k \in 1 .. m : starts[k] \in 1 .. n /\ KeyAt(s, n, starts[k])
  BY <1>10, <1>11, <1>12, <1>13, ElementOfSeq DEF Kept
<1>15. \A k, l \in 1 .. m : k < l => starts[k] < starts[l]
  BY <1>10, <1>13 DEF Kept
<1>16. \A i \in 1 .. n : KeyAt(s, n, i) => \E k \in 1 .. m : starts[k] = i
  BY <1>10, <1>11, <1>13 DEF Kept
<1>17. Clauses(s) = [k \in DOMAIN starts |->
                       [key |-> s[starts[k]],
                        items |-> ItemsOf(SubSeq(s, starts[k] + 1,
                                    IF k = Len(starts) THEN Len(s) ELSE starts[k+1] - 1))]]
  BY <1>2, <1>5, Zenon DEF Clauses, ItemsOf
<1>18. PICK e : e = [k \in 1 .. m |-> IF k = m THEN n ELSE starts[k+1] - 1]
  OBVIOUS
<1>19. Clauses(s) = [k \in 1 .. m |-> [key |-> s[starts[k]], items |-> ItemsOf(SubSeq(s, starts[k] + 1, e[k]))]]
  BY <1>13, <1>17, <1>18
<1>20. ASSUME NEW k \in 1 .. m PROVE ClauseEnds(s, n, starts[k], e[k])
  <2>1. PICK i \in 1 .. n : i = starts[k]
    BY <1>14
  <2>2. CASE k = m
    <3>1. e[k] = n
      BY <1>18, <2>2
    <3>2. ASSUME NEW j \in i + 1 .. n, KeyAt(s, n, j) PROVE FALSE
      <4>1. j \in 1 .. n /\ i < j
        BY <3>2
      <4>2. PICK l \in 1 .. m : starts[l] = j
        BY <1>16, <3>2, <4>1
      <4>3. l = k \/ l < k
        BY <2>2
      <4>4. QED
        BY <1>15, <2>1, <4>1, <4>2, <4>3
    <3>3. QED
      BY <2>1, <3>1, <3>2 DEF ClauseEnds
  <2>3. CASE k # m
    <3>1. k + 1 \in 1 .. m /\ k < k + 1
      BY <2>3
    <3>2. PICK q \in 1 .. n : q = starts[k+1] /\ KeyAt(s, n, q)
      BY <1>14, <3>1
    <3>3. i < q /\ e[k] = q - 1
      BY <1>15, <1>18, <2>1, <2>3, <3>1, <3>2
    <3>4. ASSUME NEW j \in i + 1 .. q - 1, KeyAt(s, n, j) PROVE FALSE
      <4>1. j \in 1 .. n /\ i < j /\ j < q
        BY <3>4
      <4>2. PICK l \in 1 .. m : starts[l] = j
        BY <1>16, <3>4, <4>1
      <4>3. l = k \/ l < k \/ l = k + 1 \/ k + 1 < l
        OBVIOUS
      <4>4. l < k => starts[l] < i
        BY <1>15, <2>1
      <4>5. k + 1 < l => q < starts[l]
        BY <1>15, <3>1, <3>2
      <4>6. starts[l] \in 1 .. n
        BY <1>14
      <4>7. QED
        BY <2>1, <3>2, <4>1, <4>2, <4>3, <4>4, <4>5, <4>6
    <3>5. q - 1 \in i .. n /\ q - 1 + 1 = q
      BY <3>3
    <3>6. QED
      BY <2>1, <3>2, <3>3, <3>4, <3>5 DEF ClauseEnds
  <2>4. QED
    BY <2>2, <2>3
<1>21. ASSUME NEW k \in 1 .. m PROVE ClauseAt(s, n, starts[k], Clauses(s)[k])
  BY <1>14, <1>19, <1>20 DEF ClauseAt
<1>22. DOMAIN Clauses(s) = 1 .. m
  BY <1>19
<1>23. ASSUME NEW c \in ToSet(Clauses(s)) PROVE \E i : ClauseAt(s, n, i, c)
  BY <1>21, <1>22 DEF ToSet
<1>24. ASSUME NEW i \in 1 .. n, KeyAt(s, n, i) PROVE \E c \in ToSet(Clauses(s)) : ClauseAt(s, n, i, c)
  <2>1. PICK k \in 1 .. m : starts[k] = i
    BY <1>16, <1>24
  <2>2. Clauses(s)[k] \in ToSet(Clauses(s))
    BY <1>22 DEF ToSet
  <2>3. QED
    BY <1>21, <2>1, <2>2
<1>25. QED
  BY <1>23, <1>24

\* A text without a comma is one item, any other is more.
LEMMA OneItem ==
  ASSUME NEW s \in Text, NEW n \in Nat, n = Len(s), NEW c, c = Comma
  PROVE  IF \E i \in 1 .. n : s[i] = c THEN Len(ItemsOf(s)) # 1
                                       ELSE Len(ItemsOf(s)) = 1 /\ ItemsOf(s) = <<Words(s)>>
<1>1. PICK d : d = Indices(s)
  OBVIOUS
<1>2. DOMAIN d = 1 .. n /\ \A i \in 1 .. n : d[i] = i
  BY <1>1, LenProperties DEF Indices, Text, Letters
<1>3. PICK parts : parts = [i \in DOMAIN d |-> IF s[d[i]] = c THEN <<d[i]>> ELSE <<>>]
  OBVIOUS
<1>4. PICK found : found = Where(d, LAMBDA i : s[i] = c)
  OBVIOUS
<1>5. found = FlattenSeq(parts)
  BY <1>3, <1>4 DEF Where, Flat, Each
<1>6. parts = [i \in 1 .. n |-> parts[i]]
  BY <1>2, <1>3
<1>7. \A i \in 1 .. n : parts[i] = IF s[i] = c THEN <<i>> ELSE <<>>
  BY <1>2, <1>3
<1>8. Kept(found, parts, n)
  BY <1>5, <1>6, <1>7, PlacesKept
<1>9. found \in Seq(1 .. n)
  BY <1>8 DEF Kept
<1>10. PICK l \in Nat : l = Len(found)
  BY <1>9, LenProperties
<1>11. l = 0 <=> ~\E i \in 1 .. n : s[i] = c
  <2>1. ASSUME NEW i \in 1 .. n, s[i] = c PROVE l # 0
    <3>1. parts[i] = <<i>> /\ <<i>> # <<>>
      BY <1>7, <2>1
    <3>2. PICK k \in 1 .. l : found[k] = i
      BY <1>8, <1>10, <3>1 DEF Kept
    <3>3. QED
      OBVIOUS
  <2>2. ASSUME l # 0 PROVE \E i \in 1 .. n : s[i] = c
    <3>1. 1 \in 1 .. l
      BY <2>2
    <3>2. found[1] \in 1 .. n /\ parts[found[1]] # <<>>
      BY <1>8, <1>9, <1>10, <3>1, ElementOfSeq DEF Kept
    <3>3. QED
      BY <1>7, <3>2
  <2>3. QED
    BY <2>1, <2>2
<1>12. PICK cuts : cuts = <<0>> \o found \o <<n + 1>>
  OBVIOUS
<1>13. Cuts(s, c) = cuts
  BY <1>1, <1>4, <1>12 DEF Cuts
<1>14. Len(<<0>> \o found) = 1 + l /\ <<0>> \o found \in Seq(0 .. n + 1)
  <2>1. <<0>> \in Seq(0 .. n + 1) /\ Len(<<0>>) = 1 /\ found \in Seq(0 .. n + 1)
    BY <1>9
  <2>2. QED
    BY <1>10, <2>1, ConcatProperties
<1>15. Len(cuts) = l + 2
  <2>1. <<n + 1>> \in Seq(0 .. n + 1) /\ Len(<<n + 1>>) = 1
    OBVIOUS
  <2>2. Len(cuts) = 1 + l + 1
    BY <1>12, <1>14, <2>1, ConcatProperties
  <2>3. QED
    BY <2>2
<1>16. PICK split : split = [k \in 1 .. Len(cuts) - 1 |-> SubSeq(s, cuts[k] + 1, cuts[k+1] - 1)]
  OBVIOUS
<1>17. SplitOn(s, c) = split
  BY <1>13, <1>16 DEF SplitOn
<1>18. DOMAIN split = 1 .. l + 1
  <2>1. Len(cuts) - 1 = l + 1
    BY <1>15
  <2>2. QED
    BY <1>16, <2>1
<1>19. ItemsOf(s) = [k \in 1 .. l + 1 |-> Words(split[k])]
  <2>1. ItemsOf(s) = [k \in DOMAIN SplitOn(s, c) |-> Words(SplitOn(s, c)[k])]
    BY Zenon DEF ItemsOf, Each, Comma
  <2>2. QED
    BY <1>17, <1>18, <2>1
<1>20. Len(ItemsOf(s)) = l + 1
  <2>1. ItemsOf(s) \in Seq(Seq(Word))
    BY ItemsAre, Zenon DEF ItemsOf
  <2>2. QED
    BY <1>19, <2>1, LenProperties
<1>21. CASE l # 0
  BY <1>11, <1>20, <1>21
<1>22. CASE l = 0
  <2>1. found = <<>>
    BY <1>9, <1>10, <1>22, EmptySeq
  <2>2. <<0>> \o found = <<0>>
    BY <2>1
  <2>3. cuts[1] = 0 /\ cuts[1+1] = n + 1
    <3>1. PICK z \in Nat : z = n + 1
      OBVIOUS
    <3>2. /\ <<0>> \in Seq(Nat) /\ Len(<<0>>) = 1 /\ <<0>>[1] = 0
          /\ <<z>> \in Seq(Nat) /\ Len(<<z>>) = 1 /\ <<z>>[1] = z
      OBVIOUS
    <3>3. cuts = <<0>> \o <<z>>
      BY <1>12, <2>2, <3>1
    <3>4. \A i \in 1 .. 1 + 1 : cuts[i] = IF i <= 1 THEN <<0>>[i] ELSE <<z>>[i-1]
      BY <3>2, <3>3, ConcatProperties
    <3>5. cuts[1] = <<0>>[1] /\ cuts[1+1] = <<z>>[1]
      <4>1. 1 \in 1 .. 1 + 1 /\ 1 + 1 \in 1 .. 1 + 1 /\ 1 <= 1 /\ ~(1 + 1 <= 1) /\ 1 + 1 - 1 = 1
        OBVIOUS
      <4>2. QED
        BY <3>4, <4>1
    <3>6. QED
      BY <3>1, <3>2, <3>5
  <2>4. split[1] = SubSeq(s, 1, n)
    <3>1. 1 \in 1 .. Len(cuts) - 1
      BY <1>15, <1>22
    <3>2. split[1] = SubSeq(s, cuts[1] + 1, cuts[1+1] - 1)
      BY <1>16, <3>1
    <3>3. cuts[1] + 1 = 1 /\ cuts[1+1] - 1 = n
      BY <2>3
    <3>4. QED
      BY <3>2, <3>3
  <2>5. split[1] = s
    BY <2>4, SubSeqFull DEF Text, Letters
  <2>6. ItemsOf(s) = [k \in 1 .. 1 |-> Words(s)]
    <3>1. l + 1 = 1 /\ \A k \in 1 .. 1 : k = 1
      BY <1>22
    <3>2. QED
      BY <1>19, <2>5, <3>1
  <2>7. PICK w : w = Words(s)
    OBVIOUS
  <2>8. [k \in 1 .. 1 |-> w] = <<w>>
    OBVIOUS
  <2>9. QED
    BY <1>11, <1>20, <1>22, <2>6, <2>7, <2>8
<1>23. QED
  BY <1>21, <1>22

\* The words of a text after one of them and before the next keyword.
Section(W, p, it) ==
  /\ p \in 1 .. Len(W) /\ it \in Seq(Word) /\ p + Len(it) <= Len(W)
  /\ \A j \in 1 .. Len(it) : it[j] = W[p+j] /\ it[j] \notin KeyWords
  /\ p + Len(it) = Len(W) \/ W[p+Len(it)+1] \in KeyWords

\* The text between two keywords has the words between them.
LEMMA SegmentIs ==
  ASSUME NEW s \in Text, NEW n \in Nat, n = Len(s), NEW W, W = Words(s), NEW m \in Nat, m = Len(W),
         NEW f, WordsAt(f, s, n, m), NEW i \in 1 .. n, KeyAt(s, n, i), NEW b, ClauseEnds(s, n, i, b),
         NEW p \in 1 .. m, f[p] = i
  PROVE  Section(W, p, Words(SubSeq(s, i + 1, b)))
<1>1. b \in i .. n /\ (b = n \/ KeyAt(s, n, b + 1)) /\ \A j \in i + 1 .. b : ~KeyAt(s, n, j)
  BY DEF ClauseEnds
<1>2. i \in Nat /\ b \in Nat /\ i <= b /\ b <= n /\ 1 <= i
  BY <1>1
<1>3. PICK len \in Nat : len = b - i
  BY <1>2
<1>4. PICK t : t = SubSeq(s, i + 1, b)
  OBVIOUS
<1>5. t \in Text /\ Len(t) = len /\ \A j \in 1 .. len : t[j] = s[i+j]
  <2>1. \A k \in i + 1 .. b : k \in 1 .. n
    BY <1>2
  <2>2. \A k \in i + 1 .. b : s[k] \in Letters
    BY <2>1, ElementOfSeq DEF Text, Letters
  <2>3. i + 1 \in Int /\ b \in Int
    BY <1>2
  <2>4. /\ t \in Seq(Letters) /\ Len(t) = IF i + 1 <= b THEN b - (i + 1) + 1 ELSE 0
        /\ \A j \in 1 .. b - (i + 1) + 1 : t[j] = s[i+1+j-1]
    BY <1>4, <2>2, <2>3, SubSeqProperties
  <2>5. Len(t) = len
    BY <1>2, <1>3, <2>4
  <2>6. \A j \in 1 .. len : j \in 1 .. b - (i + 1) + 1 /\ i + 1 + j - 1 = i + j
    BY <1>2, <1>3
  <2>7. QED
    BY <2>4, <2>5, <2>6 DEF Text, Letters
<1>6. i < b => s[i+1] = Blank
  BY <1>2 DEF KeyAt
<1>7. b < n => s[b] = Blank
  <2>1. ASSUME b < n PROVE s[b] = Blank
    <3>1. PICK x : x = b + 1
      OBVIOUS
    <3>2. x # 1 /\ x - 1 = b /\ KeyAt(s, n, x)
      BY <1>1, <1>2, <2>1, <3>1
    <3>3. s[x-1] = Blank
      BY <3>2 DEF KeyAt
    <3>4. QED
      BY <3>2, <3>3
  <2>2. QED
    BY <2>1
<1>8. ASSUME NEW j \in 1 .. len PROVE Opens(t, j) <=> Opens(s, i + j)
  <2>1. t[j] = s[i+j] /\ i + j # 1
    BY <1>2, <1>5
  <2>2. CASE j = 1
    <3>1. t[j] = Blank
      BY <1>2, <1>3, <1>6, <2>1, <2>2
    <3>2. QED
      BY <2>1, <3>1 DEF Opens
  <2>3. CASE j # 1
    <3>1. j - 1 \in 1 .. len /\ i + (j - 1) = i + j - 1
      BY <1>2, <2>3
    <3>2. t[j-1] = s[i+j-1]
      BY <1>5, <3>1
    <3>3. QED
      BY <2>1, <2>3, <3>2 DEF Opens
  <2>4. QED
    BY <2>2, <2>3
<1>9. ASSUME NEW j \in 1 .. len, Opens(t, j) PROVE WordFrom(t, j) = WordFrom(s, i + j)
  <2>1. PICK w : w = WordFrom(t, j)
    OBVIOUS
  <2>2. PICK e : Closes(t, len, j, e) /\ Spelled(w, t, j, e)
    BY <1>5, <1>9, <2>1, WordFromHas DEF Opens
  <2>3. e \in j .. len /\ (\A k \in j .. e : t[k] # Blank) /\ (e = len \/ t[e+1] = Blank)
    BY <2>2 DEF Closes
  <2>4. e \in Nat /\ j \in Nat /\ j <= e /\ e <= len /\ 1 <= j
    BY <2>3
  <2>5. i + e = n \/ s[i+e+1] = Blank
    <3>1. CASE e = len
      <4>1. t[e] # Blank /\ t[e] = s[i+e] /\ i + e = b
        BY <1>2, <1>3, <1>5, <2>3, <2>4, <3>1
      <4>2. QED
        BY <1>2, <1>7, <4>1
    <3>2. CASE e # len
      <4>1. e + 1 \in 1 .. len /\ i + (e + 1) = i + e + 1
        BY <1>2, <2>4, <3>2
      <4>2. QED
        BY <1>5, <2>3, <3>2, <4>1
    <3>3. QED
      BY <3>1, <3>2
  <2>6. ASSUME NEW k \in i + j .. i + e PROVE s[k] # Blank
    <3>1. k - i \in j .. e /\ k - i \in 1 .. len /\ i + (k - i) = k
      BY <1>2, <2>4
    <3>2. t[k-i] = s[i+(k-i)] /\ t[k-i] # Blank
      BY <1>5, <2>3, <3>1
    <3>3. QED
      BY <3>1, <3>2
  <2>7. i + e \in i + j .. n /\ i + j \in 1 .. n
    BY <1>2, <1>3, <2>4
  <2>8. Closes(s, n, i + j, i + e)
    BY <2>5, <2>6, <2>7 DEF Closes
  <2>9. Spelled(w, s, i + j, i + e)
    <3>1. w \in Word /\ Len(w) = e - j + 1 /\ \A k \in 1 .. e - j + 1 : w[k] = t[j+k-1]
      BY <2>2 DEF Spelled
    <3>2. (i + e) - (i + j) + 1 = e - j + 1
      BY <1>2, <2>4
    <3>3. ASSUME NEW k \in 1 .. e - j + 1 PROVE w[k] = s[i+j+k-1]
      <4>1. j + k - 1 \in 1 .. len /\ i + (j + k - 1) = i + j + k - 1
        BY <1>2, <2>4
      <4>2. QED
        BY <1>5, <3>1, <4>1
    <3>4. QED
      BY <3>1, <3>2, <3>3 DEF Spelled
  <2>10. QED
    BY <2>1, <2>7, <2>8, <2>9, WordFromGiven
<1>10. PICK V : V = Words(t)
  OBVIOUS
<1>11. V \in Seq(Word)
  BY <1>5, <1>10, WordsAre
<1>12. PICK l \in Nat : l = Len(V)
  BY <1>11, LenProperties
<1>13. PICK g : WordsAt(g, t, len, l)
  BY <1>5, <1>10, <1>12, WordPlaces
<1>14. /\ \A k \in 1 .. m : f[k] \in 1 .. n /\ Opens(s, f[k]) /\ W[k] = WordFrom(s, f[k])
       /\ \A k, j \in 1 .. m : k < j => f[k] < f[j]
       /\ \A k \in 1 .. n : Opens(s, k) => \E j \in 1 .. m : f[j] = k
  BY DEF WordsAt
<1>15. /\ \A k \in 1 .. l : g[k] \in 1 .. len /\ Opens(t, g[k]) /\ V[k] = WordFrom(t, g[k])
       /\ \A k, j \in 1 .. l : k < j => g[k] < g[j]
       /\ \A k \in 1 .. len : Opens(t, k) => \E j \in 1 .. l : g[j] = k
  BY <1>10, <1>13 DEF WordsAt
<1>16. PICK r \in p .. m : f[r] <= b /\ \A k \in p .. m : f[k] <= b => k <= r
  <2>1. PICK T : T = {k \in p .. m : f[k] <= b}
    OBVIOUS
  <2>2. T \subseteq 0 .. m /\ p \in T
    BY <1>2, <2>1
  <2>3. PICK r \in T : \A k \in T : k <= r
    BY <2>2, GreatestPlace
  <2>4. QED
    BY <2>1, <2>3
<1>17. r \in 1 .. m /\ p <= r
  OBVIOUS
<1>18. PICK q \in Nat : q = r - p
  BY <1>17
<1>19. PICK h, u : h = [k \in 1 .. l |-> i + g[k]] /\ u = [k \in 1 .. q |-> f[p+k]]
  OBVIOUS
<1>20. \A k \in 1 .. q : p + k \in 1 .. m /\ p + k <= r /\ p < p + k
  BY <1>17, <1>18
<1>21. ASSUME NEW k \in 1 .. q PROVE u[k] \in i + 1 .. b
  <2>1. f[p+k] \in Nat /\ i < f[p+k]
    <3>1. p + k \in 1 .. m /\ p < p + k
      BY <1>20
    <3>2. f[p+k] \in 1 .. n /\ f[p] < f[p+k]
      BY <1>14, <3>1
    <3>3. QED
      BY <3>2
  <2>2. f[p+k] <= f[r]
    <3>1. p + k \in 1 .. m /\ (p + k = r \/ p + k < r)
      BY <1>17, <1>20
    <3>2. f[r] \in Nat /\ f[p+k] \in Nat
      BY <1>14, <1>17, <3>1
    <3>3. p + k < r => f[p+k] < f[r]
      BY <1>14, <1>17, <3>1
    <3>4. QED
      BY <3>1, <3>2, <3>3
  <2>3. f[r] \in Nat
    BY <1>14, <1>17
  <2>4. f[r] <= b /\ u[k] = f[p+k]
    BY <1>16, <1>19
  <2>5. QED
    BY <1>2, <2>1, <2>2, <2>3, <2>4
<1>22. Rises(h, l)
  <2>1. ASSUME NEW k \in 1 .. l PROVE h[k] = i + g[k] /\ g[k] \in Int
    <3>1. g[k] \in 1 .. len
      BY <1>15
    <3>2. QED
      BY <1>19, <3>1
  <2>2. ASSUME NEW k \in 1 .. l PROVE h[k] \in Int
    <3>1. PICK y \in Int : y = g[k] /\ h[k] = i + y
      BY <2>1
    <3>2. QED
      BY <1>2, <3>1
  <2>3. ASSUME NEW k \in 1 .. l, NEW j \in 1 .. l, k < j PROVE h[k] < h[j]
    <3>1. g[k] < g[j]
      BY <1>15, <2>3
    <3>2. QED
      BY <1>2, <2>1, <3>1
  <2>4. QED
    BY <2>2, <2>3 DEF Rises
<1>23. Rises(u, q)
  <2>1. ASSUME NEW k \in 1 .. q PROVE u[k] = f[p+k] /\ u[k] \in Int
    <3>1. u[k] \in i + 1 .. b
      BY <1>21
    <3>2. u[k] \in Int
      BY <1>2, <3>1
    <3>3. QED
      BY <1>19, <3>2
  <2>2. ASSUME NEW k \in 1 .. q, NEW j \in 1 .. q, k < j PROVE u[k] < u[j]
    <3>1. p + k < p + j
      BY <2>2
    <3>2. QED
      BY <1>14, <1>20, <2>1, <3>1
  <2>3. QED
    BY <2>1, <2>2 DEF Rises
<1>24. Within(h, l, u, q)
  <2>1. ASSUME NEW k \in 1 .. l PROVE \E j \in 1 .. q : h[k] = u[j]
    <3>1. PICK x \in 1 .. len : x = g[k] /\ Opens(t, x)
      BY <1>15
    <3>2. i + x \in 1 .. n /\ Opens(s, i + x) /\ i < i + x /\ i + x <= b
      <4>1. Opens(s, i + x)
        BY <1>8, <3>1
      <4>2. i + x \in 1 .. n /\ i < i + x /\ i + x <= b
        BY <1>2, <1>3
      <4>3. QED
        BY <4>1, <4>2
    <3>3. PICK j \in 1 .. m : f[j] = i + x
      BY <1>14, <3>2
    <3>4. ~(j <= p)
      <4>1. SUFFICES ASSUME j <= p PROVE FALSE
        OBVIOUS
      <4>2. j = p \/ f[j] < f[p]
        BY <1>14, <4>1
      <4>3. QED
        BY <1>2, <3>2, <3>3, <4>2
    <3>5. j \in p .. m
      BY <3>4
    <3>6. j <= r
      BY <1>16, <3>2, <3>3, <3>5
    <3>7. j - p \in 1 .. q /\ p + (j - p) = j
      BY <1>18, <3>4, <3>6
    <3>8. u[j-p] = f[j] /\ h[k] = i + x
      BY <1>19, <3>1, <3>7
    <3>9. QED
      BY <3>3, <3>7, <3>8
  <2>2. QED
    BY <2>1 DEF Within
<1>25. Within(u, q, h, l)
  <2>1. ASSUME NEW k \in 1 .. q PROVE \E j \in 1 .. l : u[k] = h[j]
    <3>1. PICK y \in i + 1 .. b : y = u[k]
      BY <1>21
    <3>2. y - i \in 1 .. len /\ i + (y - i) = y
      BY <1>2, <1>3
    <3>3. Opens(s, y)
      BY <1>14, <1>19, <1>20, <3>1
    <3>4. Opens(t, y - i)
      BY <1>8, <3>2, <3>3
    <3>5. PICK j \in 1 .. l : g[j] = y - i
      BY <1>15, <3>2, <3>4
    <3>6. h[j] = y
      BY <1>19, <3>2, <3>5
    <3>7. QED
      BY <3>1, <3>6
  <2>2. QED
    BY <2>1 DEF Within
<1>26. l = q /\ \A k \in 1 .. l : h[k] = u[k]
  BY <1>22, <1>23, <1>24, <1>25, SamePlaces
<1>27. ASSUME NEW k \in 1 .. l PROVE V[k] = W[p+k] /\ V[k] \notin KeyWords
  <2>1. PICK x \in 1 .. len : x = g[k] /\ Opens(t, x) /\ V[k] = WordFrom(t, x)
    BY <1>15
  <2>2. f[p+k] = i + x /\ p + k \in 1 .. m
    BY <1>19, <1>20, <1>26, <2>1
  <2>3. WordFrom(t, x) = WordFrom(s, i + x)
    BY <1>9, <2>1
  <2>4. W[p+k] = WordFrom(s, i + x) /\ Opens(s, i + x) /\ i + x \in 1 .. n
    BY <1>14, <2>2
  <2>5. i + x \in i + 1 .. b
    BY <1>2, <1>3
  <2>6. ~KeyAt(s, n, i + x)
    BY <1>1, <2>5
  <2>7. WordFrom(s, i + x) \notin KeyWords
    BY <2>4, <2>6, KeyIsWord
  <2>8. QED
    BY <2>1, <2>3, <2>4, <2>7
<1>28. p + l = r
  BY <1>17, <1>18, <1>26
<1>29. ASSUME r # m PROVE W[r+1] \in KeyWords
  <2>1. r + 1 \in p .. m /\ r + 1 \in 1 .. m /\ ~(r + 1 <= r)
    BY <1>17, <1>29
  <2>2. f[r+1] \in 1 .. n /\ ~(f[r+1] <= b)
    BY <1>14, <1>16, <2>1
  <2>3. b < n /\ b + 1 \in 1 .. n
    BY <1>2, <2>2
  <2>4. KeyAt(s, n, b + 1)
    BY <1>1, <2>3
  <2>5. Opens(s, b + 1) /\ WordFrom(s, b + 1) = <<s[b+1]>>
    BY <2>3, <2>4, KeyIsWord
  <2>6. PICK k \in 1 .. m : f[k] = b + 1
    BY <1>14, <2>3, <2>5
  <2>7. ~(k <= r)
    <3>1. SUFFICES ASSUME k <= r PROVE FALSE
      OBVIOUS
    <3>2. k = r \/ f[k] < f[r]
      BY <1>14, <1>17, <3>1
    <3>3. f[r] \in Nat
      BY <1>14, <1>17
    <3>4. QED
      BY <1>2, <1>16, <2>6, <3>2, <3>3
  <2>8. ~(r + 1 < k)
    <3>1. SUFFICES ASSUME r + 1 < k PROVE FALSE
      OBVIOUS
    <3>2. f[r+1] < f[k]
      BY <1>14, <2>1, <3>1
    <3>3. QED
      BY <1>2, <2>2, <2>6, <3>2
  <2>9. k = r + 1
    BY <1>17, <2>7, <2>8
  <2>10. W[r+1] = <<s[b+1]>>
    BY <1>14, <2>5, <2>6, <2>9
  <2>11. s[b+1] \in Keywords
    BY <2>4 DEF KeyAt
  <2>12. QED
    BY <2>10, <2>11 DEF KeyWords
<1>30. Section(W, p, V)
  BY <1>11, <1>12, <1>17, <1>27, <1>28, <1>29, SMTT(30) DEF Section
<1>31. QED
  BY <1>4, <1>10, <1>30

\* A character that is in one of some words.
In(W, c) == \E k \in 1 .. Len(W) : \E j \in 1 .. Len(W[k]) : W[k][j] = c

\* The words of a text have its characters but the blanks.
LEMMA WordsCover ==
  ASSUME NEW s \in Text, NEW n \in Nat, n = Len(s), NEW c, c # Blank
  PROVE  (\E i \in 1 .. n : s[i] = c) <=> In(Words(s), c)
<1>1. PICK W : W = Words(s)
  OBVIOUS
<1>2. PICK m \in Nat : m = Len(W)
  BY <1>1, WordsAre, LenProperties
<1>3. PICK f : WordsAt(f, s, n, m)
  BY <1>1, <1>2, WordPlaces
<1>4. /\ \A k \in 1 .. m : f[k] \in 1 .. n /\ Opens(s, f[k]) /\ W[k] = WordFrom(s, f[k])
      /\ \A k \in 1 .. n : Opens(s, k) => \E j \in 1 .. m : f[j] = k
  BY <1>1, <1>3 DEF WordsAt
<1>5. ASSUME NEW i \in 1 .. n, s[i] = c PROVE In(W, c)
  <2>1. PICK T : T = {k \in 0 .. i : k = 0 \/ s[k] = Blank}
    OBVIOUS
  <2>2. T \subseteq 0 .. i /\ 0 \in T /\ i \in Nat
    BY <2>1
  <2>3. PICK a \in T : \A k \in T : k <= a
    BY <2>2, GreatestPlace
  <2>4. a \in Nat /\ a < i /\ a + 1 \in 1 .. n /\ (a = 0 \/ s[a] = Blank)
    <3>1. a \in 0 .. i /\ (a = 0 \/ s[a] = Blank)
      BY <2>1
    <3>2. a # i
      BY <1>5, <3>1
    <3>3. QED
      BY <3>1, <3>2
  <2>5. ASSUME NEW k \in a + 1 .. i PROVE s[k] # Blank
    <3>1. k \in 0 .. i /\ ~(k <= a)
      BY <2>4
    <3>2. k \notin T
      BY <2>3, <3>1
    <3>3. QED
      BY <2>1, <3>1, <3>2
  <2>6. Opens(s, a + 1)
    <3>1. a + 1 \in a + 1 .. i /\ a + 1 - 1 = a /\ (a + 1 = 1 <=> a = 0)
      BY <2>4
    <3>2. QED
      BY <2>4, <2>5, <3>1 DEF Opens
  <2>7. PICK k \in 1 .. m : f[k] = a + 1 /\ W[k] = WordFrom(s, a + 1)
    BY <1>4, <2>4, <2>6
  <2>8. PICK e : Closes(s, n, a + 1, e) /\ Spelled(W[k], s, a + 1, e)
    BY <2>4, <2>6, <2>7, WordFromHas DEF Opens
  <2>9. e \in a + 1 .. n /\ (e = n \/ s[e+1] = Blank)
    BY <2>8 DEF Closes
  <2>10. i <= e
    <3>1. SUFFICES ASSUME e < i PROVE FALSE
      BY <2>9
    <3>2. e + 1 \in a + 1 .. i /\ e # n
      BY <2>4, <2>9, <3>1
    <3>3. QED
      BY <2>5, <2>9, <3>2
  <2>11. i - a \in 1 .. e - (a + 1) + 1 /\ a + 1 + (i - a) - 1 = i
    BY <2>4, <2>9, <2>10
  <2>12. Len(W[k]) = e - (a + 1) + 1 /\ W[k][i-a] = s[a+1+(i-a)-1]
    BY <2>8, <2>11 DEF Spelled
  <2>13. i - a \in 1 .. Len(W[k]) /\ W[k][i-a] = c
    BY <1>5, <2>11, <2>12
  <2>14. QED
    BY <1>2, <2>13 DEF In
<1>6. ASSUME NEW k \in 1 .. m, NEW j \in 1 .. Len(W[k]), W[k][j] = c PROVE \E i \in 1 .. n : s[i] = c
  <2>1. PICK i \in 1 .. n : i = f[k] /\ Opens(s, i) /\ W[k] = WordFrom(s, i)
    BY <1>4
  <2>2. PICK e : Closes(s, n, i, e) /\ Spelled(W[k], s, i, e)
    BY <2>1, WordFromHas DEF Opens
  <2>3. e \in i .. n
    BY <2>2 DEF Closes
  <2>4. j \in 1 .. e - i + 1 /\ W[k][j] = s[i+j-1]
    BY <1>6, <2>2 DEF Spelled
  <2>5. i + j - 1 \in 1 .. n
    BY <2>3, <2>4
  <2>6. QED
    BY <1>6, <2>4, <2>5
<1>7. QED
  BY <1>1, <1>2, <1>5, <1>6 DEF In

\* A clause as the words of the text have it.
Scanned(W, p, it, c) ==
  /\ Section(W, p, it) /\ c.key \in Keywords /\ W[p] = <<c.key>>
  /\ IF In(it, Comma) THEN Len(c.items) # 1 ELSE Len(c.items) = 1 /\ c.items = <<it>>

\* A clause at a place is one of the words from there.
LEMMA ClauseScanned ==
  ASSUME NEW s \in Text, NEW n \in Nat, n = Len(s), NEW W, W = Words(s), NEW m \in Nat, m = Len(W),
         NEW f, WordsAt(f, s, n, m), NEW i, NEW c, ClauseAt(s, n, i, c), NEW p \in 1 .. m, f[p] = i
  PROVE  \E it : Scanned(W, p, it, c)
<1>1. i \in 1 .. n /\ KeyAt(s, n, i) /\ c.key = s[i]
  BY DEF ClauseAt
<1>2. PICK b : ClauseEnds(s, n, i, b) /\ c.items = ItemsOf(SubSeq(s, i + 1, b))
  BY DEF ClauseAt
<1>3. PICK t : t = SubSeq(s, i + 1, b)
  OBVIOUS
<1>4. b \in i .. n
  BY <1>2 DEF ClauseEnds
<1>5. t \in Text
  <2>1. \A k \in i + 1 .. b : k \in 1 .. n
    BY <1>1, <1>4
  <2>2. \A k \in i + 1 .. b : s[k] \in Letters
    BY <2>1, ElementOfSeq DEF Text, Letters
  <2>3. i + 1 \in Int /\ b \in Int
    BY <1>1, <1>4
  <2>4. t \in Seq(Letters)
    BY <1>3, <2>2, <2>3, SubSeqProperties
  <2>5. QED
    BY <2>4 DEF Text, Letters
<1>6. PICK V : V = Words(t)
  OBVIOUS
<1>7. Section(W, p, V)
  BY <1>1, <1>2, <1>3, <1>6, SegmentIs
<1>8. PICK l \in Nat : l = Len(t)
  BY <1>5, LenProperties DEF Text, Letters
<1>9. PICK comma : comma = Comma
  OBVIOUS
<1>10. comma # Blank
  BY <1>9, Zenon DEF Comma, Blank
<1>11. (\E k \in 1 .. l : t[k] = comma) <=> In(V, comma)
  BY <1>5, <1>6, <1>8, <1>10, WordsCover
<1>12. IF In(V, comma) THEN Len(ItemsOf(t)) # 1 ELSE Len(ItemsOf(t)) = 1 /\ ItemsOf(t) = <<V>>
  BY <1>5, <1>6, <1>8, <1>9, <1>11, OneItem
<1>13. W[p] = <<c.key>> /\ c.key \in Keywords
  <2>1. W[p] = WordFrom(s, i)
    BY DEF WordsAt
  <2>2. QED
    BY <1>1, <2>1, KeyIsWord DEF KeyAt
<1>14. Scanned(W, p, V, c)
  BY <1>2, <1>3, <1>7, <1>9, <1>12, <1>13 DEF Scanned
<1>15. QED
  BY <1>14

\* The clauses of a text are those of its words, one for each keyword among them.
LEMMA ClauseWords ==
  ASSUME NEW s \in Text, NEW W, W = Words(s)
  PROVE  /\ \A c \in ToSet(Clauses(s)) : \E p, it : Scanned(W, p, it, c)
         /\ \A p \in 1 .. Len(W) : W[p] \in KeyWords => \E c \in ToSet(Clauses(s)) : \E it : Scanned(W, p, it, c)
<1>1. PICK n \in Nat : n = Len(s)
  BY LenProperties DEF Text, Letters
<1>2. PICK m \in Nat : m = Len(W)
  BY WordsAre, LenProperties
<1>3. PICK f : WordsAt(f, s, n, m)
  BY <1>1, <1>2, WordPlaces
<1>4. /\ \A k \in 1 .. m : f[k] \in 1 .. n /\ Opens(s, f[k]) /\ W[k] = WordFrom(s, f[k])
      /\ \A k \in 1 .. n : Opens(s, k) => \E j \in 1 .. m : f[j] = k
  BY <1>3 DEF WordsAt
<1>5. ASSUME NEW c \in ToSet(Clauses(s)) PROVE \E p, it : Scanned(W, p, it, c)
  <2>1. PICK i : ClauseAt(s, n, i, c)
    BY <1>1, ClausesHave
  <2>2. i \in 1 .. n /\ KeyAt(s, n, i)
    BY <2>1 DEF ClauseAt
  <2>3. Opens(s, i)
    BY <1>1, <2>2, KeyIsWord
  <2>4. PICK p \in 1 .. m : f[p] = i
    BY <1>4, <2>2, <2>3
  <2>5. QED
    BY <1>1, <1>2, <1>3, <2>1, <2>4, ClauseScanned
<1>6. ASSUME NEW p \in 1 .. m, W[p] \in KeyWords PROVE \E c \in ToSet(Clauses(s)) : \E it : Scanned(W, p, it, c)
  <2>1. PICK i \in 1 .. n : i = f[p] /\ Opens(s, i) /\ W[p] = WordFrom(s, i)
    BY <1>4
  <2>2. KeyAt(s, n, i)
    BY <1>1, <1>6, <2>1, KeyIsWord
  <2>3. PICK c \in ToSet(Clauses(s)) : ClauseAt(s, n, i, c)
    BY <1>1, <2>2, ClausesHave
  <2>4. QED
    BY <1>1, <1>2, <1>3, <2>1, <2>3, ClauseScanned
<1>7. QED
  BY <1>2, <1>5, <1>6

\* A word, and the same one with a dangling dot fixed.
DanglingDot(v) == Len(v) \in 1 .. Len(v) /\ v[Len(v)] = "."
FixedWord(v, w) ==
  \/ w = v
  \/ DanglingDot(v) /\ Len(w) = Len(v) + 1 /\ w[Len(v)+1] = "x" /\ \A j \in 1 .. Len(v) : w[j] = v[j]

\* Where a dot dangles; where each character of a text is after it is fixed.
Dangles(s, n, i) == s[i] = "." /\ (i = n \/ s[i+1] = Blank)
Moved(h, s, n, t, l) ==
  /\ h[n+1] = l + 1 /\ \A i \in 1 .. n + 1 : h[i] \in Nat /\ 1 <= h[i]
  /\ n # 0 => h[1] = 1
  /\ \A i \in 1 .. n : /\ h[i+1] = h[i] + (IF Dangles(s, n, i) THEN 2 ELSE 1) /\ h[i+1] <= l + 1
                       /\ t[h[i]] = s[i] /\ (Dangles(s, n, i) => t[h[i]+1] = "x")
  /\ \A k \in 1 .. l : \E i \in 1 .. n : h[i] = k \/ (Dangles(s, n, i) /\ k = h[i] + 1)
  /\ \A i, j \in 1 .. n : i < j => h[i] < h[j]

\* There are such places.
LEMMA FixMoves ==
  ASSUME NEW s \in Text, NEW n \in Nat, n = Len(s), NEW t, t = FixDanglingDots(s), NEW l \in Nat, l = Len(t)
  PROVE  \E h : Moved(h, s, n, t, l)
<1>1. s \in Seq(Letters) /\ \A i \in 1 .. n : s[i] \in Letters
  BY ElementOfSeq DEF Text, Letters
<1>2. PICK d : d = Indices(s)
  OBVIOUS
<1>3. DOMAIN d = 1 .. n /\ \A i \in 1 .. n : d[i] = i
  BY <1>1, <1>2, LenProperties DEF Indices
<1>4. PICK parts : parts = [i \in DOMAIN d |->
         IF s[d[i]] = "." /\ (d[i] = Len(s) \/ s[d[i]+1] = Blank) THEN <<".", "x">> ELSE <<s[d[i]]>>]
  OBVIOUS
<1>5. t = FlattenSeq(parts)
  BY <1>2, <1>4 DEF FixDanglingDots, Flat, Each
<1>6. DOMAIN parts = 1 .. n /\ \A i \in 1 .. n : parts[i] = IF Dangles(s, n, i) THEN <<".", "x">> ELSE <<s[i]>>
  BY <1>3, <1>4 DEF Dangles
<1>7. ASSUME NEW i \in 1 .. n
      PROVE  /\ parts[i] \in Seq(Letters) /\ parts[i][1] = s[i]
             /\ \E q \in 1 .. 2 : q = Len(parts[i]) /\ (q = 2 <=> Dangles(s, n, i))
             /\ Dangles(s, n, i) => parts[i][2] = "x"
  <2>1. PICK dot, ex : dot = "." /\ ex = "x"
    OBVIOUS
  <2>2. dot \in Letters /\ ex \in Letters
    BY <2>1, CompletionAssumption DEF Letters
  <2>3. <<dot, ex>> \in Seq(Letters) /\ Len(<<dot, ex>>) = 2 /\ <<dot, ex>>[1] = dot /\ <<dot, ex>>[2] = ex
    BY <2>2
  <2>4. PICK x \in Letters : x = s[i]
    BY <1>1
  <2>5. <<x>> \in Seq(Letters) /\ Len(<<x>>) = 1 /\ <<x>>[1] = x
    OBVIOUS
  <2>6. CASE Dangles(s, n, i)
    <3>1. s[i] = dot
      BY <2>1, <2>6 DEF Dangles
    <3>2. parts[i] = <<dot, ex>>
      BY <1>6, <2>1, <2>6
    <3>3. 2 \in 1 .. 2 /\ Len(parts[i]) = 2 /\ parts[i][1] = s[i] /\ parts[i][2] = "x"
      BY <2>1, <2>3, <3>1, <3>2
    <3>4. QED
      BY <2>3, <2>6, <3>2, <3>3
  <2>7. CASE ~Dangles(s, n, i)
    <3>1. parts[i] = <<x>>
      BY <1>6, <2>4, <2>7
    <3>2. 1 \in 1 .. 2 /\ 1 # 2 /\ Len(parts[i]) = 1
      BY <2>5, <3>1
    <3>3. QED
      BY <2>4, <2>5, <2>7, <3>1, <3>2
  <2>8. QED
    BY <2>6, <2>7
<1>8. parts \in Seq(Seq(Letters)) /\ n = Len(parts)
  <2>1. parts = [i \in 1 .. n |-> parts[i]]
    BY <1>4, <1>6
  <2>2. parts \in [1 .. n -> Seq(Letters)]
    BY <1>7, <2>1
  <2>3. QED
    BY <2>2, FunctionIsSeq, LenProperties
<1>9. PICK e : t \in Seq(Letters) /\ Places(e, t, parts)
  BY <1>5, <1>8, FlattenIs
<1>10. e[0] = 0 /\ e[n] = l
  BY <1>8, <1>9 DEF Places
<1>11. ASSUME NEW i \in 1 .. n PROVE e[i-1] \in Nat /\ e[i] = e[i-1] + Len(parts[i]) /\ Stands(t, e[i-1], parts[i])
  BY <1>8, <1>9 DEF Places
<1>12. \A i \in 0 .. n : e[i] \in Nat
  <2>1. ASSUME NEW i \in 0 .. n PROVE e[i] \in Nat
    <3>1. CASE i = n
      BY <1>10, <3>1
    <3>2. CASE i # n
      <4>1. i + 1 \in 1 .. n /\ i + 1 - 1 = i
        BY <3>2
      <4>2. QED
        BY <1>11, <4>1
    <3>3. QED
      BY <3>1, <3>2
  <2>2. QED
    BY <2>1
<1>13. PICK h : h = [i \in 1 .. n + 1 |-> e[i-1] + 1]
  OBVIOUS
<1>14. ASSUME NEW i \in 1 .. n + 1 PROVE h[i] = e[i-1] + 1 /\ e[i-1] \in Nat /\ h[i] \in Nat /\ 1 <= h[i]
  <2>1. i - 1 \in 0 .. n
    OBVIOUS
  <2>2. e[i-1] \in Nat
    BY <1>12, <2>1
  <2>3. QED
    BY <1>13, <2>2
<1>15. h[n+1] = l + 1 /\ h[1] = 1
  <2>1. n + 1 \in 1 .. n + 1 /\ n + 1 - 1 = n /\ 1 \in 1 .. n + 1 /\ 1 - 1 = 0
    OBVIOUS
  <2>2. QED
    BY <1>10, <1>13, <2>1
<1>16. ASSUME NEW i \in 1 .. n
       PROVE  /\ h[i+1] = h[i] + (IF Dangles(s, n, i) THEN 2 ELSE 1) /\ h[i+1] <= l + 1
              /\ t[h[i]] = s[i] /\ (Dangles(s, n, i) => t[h[i]+1] = "x")
  <2>1. i \in 1 .. n + 1 /\ i + 1 \in 1 .. n + 1 /\ i + 1 - 1 = i
    OBVIOUS
  <2>2. h[i] = e[i-1] + 1 /\ h[i+1] = e[i] + 1 /\ e[i-1] \in Nat
    BY <1>13, <1>14, <2>1
  <2>3. PICK a \in Nat, q \in 1 .. 2 : a = e[i-1] /\ q = Len(parts[i]) /\ (q = 2 <=> Dangles(s, n, i))
    BY <1>7, <2>2
  <2>4. e[i] = a + q /\ Stands(t, a, parts[i])
    BY <1>11, <2>3
  <2>5. a + q <= l /\ \A k \in 1 .. q : t[a+k] = parts[i][k]
    BY <2>3, <2>4 DEF Stands
  <2>6. t[a+1] = s[i]
    BY <1>7, <2>5
  <2>7. Dangles(s, n, i) => t[a+2] = "x"
    BY <1>7, <2>3, <2>5
  <2>8. h[i] = a + 1 /\ h[i+1] = a + q + 1 /\ h[i] + 1 = a + 2
    BY <2>2, <2>3, <2>4
  <2>9. h[i+1] <= l + 1
    BY <2>5, <2>8
  <2>10. CASE Dangles(s, n, i)
    <3>1. q = 2
      BY <2>3, <2>10
    <3>2. h[i+1] = h[i] + 2 /\ t[h[i]] = s[i] /\ t[h[i]+1] = "x"
      BY <2>6, <2>7, <2>8, <2>10, <3>1
    <3>3. QED
      BY <2>9, <2>10, <3>2
  <2>11. CASE ~Dangles(s, n, i)
    <3>1. q = 1
      BY <2>3, <2>11
    <3>2. h[i+1] = h[i] + 1 /\ t[h[i]] = s[i]
      BY <2>6, <2>8, <3>1
    <3>3. QED
      BY <2>9, <2>11, <3>2
  <2>12. QED
    BY <2>10, <2>11
<1>17. ASSUME NEW k \in 1 .. l PROVE \E i \in 1 .. n : h[i] = k \/ (Dangles(s, n, i) /\ k = h[i] + 1)
  <2>1. PICK i : Holder(e, parts, t, n, k, i)
    BY <1>8, <1>9, InPart
  <2>2. i \in 1 .. n /\ e[i-1] < k /\ k <= e[i]
    BY <2>1 DEF Holder
  <2>3. PICK a \in Nat, q \in 1 .. 2 : a = e[i-1] /\ q = Len(parts[i]) /\ (q = 2 <=> Dangles(s, n, i))
    BY <1>7, <1>11, <2>2
  <2>4. e[i] = a + q /\ h[i] = a + 1
    <3>1. i \in 1 .. n + 1
      BY <2>2
    <3>2. QED
      BY <1>11, <1>13, <2>2, <2>3, <3>1
  <2>5. a < k /\ k <= a + q
    BY <2>2, <2>3, <2>4
  <2>6. h[i] = k \/ (q = 2 /\ k = h[i] + 1)
    <3>1. q = 1 \/ q = 2
      OBVIOUS
    <3>2. k \in Nat
      OBVIOUS
    <3>3. k = a + 1 \/ (q = 2 /\ k = a + 2)
      BY <2>5, <3>1, <3>2
    <3>4. h[i] = a + 1 /\ h[i] + 1 = a + 2
      BY <2>4
    <3>5. QED
      BY <3>3, <3>4
  <2>7. h[i] = k \/ (Dangles(s, n, i) /\ k = h[i] + 1)
    BY <2>3, <2>6
  <2>8. QED
    BY <2>2, <2>7
<1>18. ASSUME NEW i \in 1 .. n, NEW j \in 1 .. n, i < j PROVE h[i] < h[j]
  <2>1. PICK T : T = {k \in i + 1 .. n : ~(h[i] < h[k])}
    OBVIOUS
  <2>2. SUFFICES ASSUME ~(h[i] < h[j]) PROVE FALSE
    OBVIOUS
  <2>3. j \in T /\ T \subseteq Nat
    BY <1>18, <2>1, <2>2
  <2>4. PICK k \in T : \A z \in T : k <= z
    BY <2>3, LeastPlace
  <2>5. k \in i + 1 .. n /\ ~(h[i] < h[k])
    BY <2>1
  <2>6. k - 1 \in 1 .. n /\ k - 1 + 1 = k /\ k \in 1 .. n + 1 /\ k - 1 \in 1 .. n + 1 /\ i \in 1 .. n + 1
    BY <2>5
  <2>7. h[k-1] < h[k]
    <3>1. h[k] = h[k-1] + 2 \/ h[k] = h[k-1] + 1
      BY <1>16, <2>6
    <3>2. h[k-1] \in Nat
      BY <1>14, <2>6
    <3>3. QED
      BY <3>1, <3>2
  <2>8. h[i] <= h[k-1]
    <3>1. CASE k - 1 = i
      BY <1>14, <2>6, <3>1
    <3>2. CASE k - 1 # i
      <4>1. k - 1 \in i + 1 .. n /\ ~(k <= k - 1)
        BY <2>5, <3>2
      <4>2. k - 1 \notin T
        BY <2>4, <4>1
      <4>3. h[i] < h[k-1]
        BY <2>1, <4>1, <4>2
      <4>4. h[i] \in Nat /\ h[k-1] \in Nat
        BY <1>14, <2>6
      <4>5. QED
        BY <4>3, <4>4
    <3>3. QED
      BY <3>1, <3>2
  <2>9. h[i] \in Nat /\ h[k-1] \in Nat /\ h[k] \in Nat
    BY <1>14, <2>6
  <2>10. QED
    BY <2>5, <2>7, <2>8, <2>9
<1>19. Moved(h, s, n, t, l)
  BY <1>14, <1>15, <1>16, <1>17, <1>18 DEF Moved
<1>20. QED
  BY <1>19

\* Sums over places that move together.
LEMMA Shifts ==
  ASSUME NEW a \in Int, NEW i \in Int, NEW j \in Int, NEW k \in Int, j = k - a + i
  PROVE  a + (j - i) = k
OBVIOUS

LEMMA Covers ==
  ASSUME NEW a \in Int, NEW i \in Int, NEW e \in Int, NEW z \in Int, z = a + (e - i), i <= e
  PROVE  /\ a <= z
         /\ \A q \in Int : q = e - i + 1 => z + 1 - a + 1 = q + 1 /\ a + (q + 1) - 1 = z + 1 /\ i + q - 1 = e
OBVIOUS

\* A blank is no dot and no letter.
LEMMA BlankIsNone == Blank # "." /\ Blank # "x"
  BY Zenon DEF Blank

\* A word of a text begins where it did, and is itself or has its dot fixed.
LEMMA FixedFrom ==
  ASSUME NEW s \in Text, NEW n \in Nat, n = Len(s), NEW t \in Text, NEW l \in Nat, l = Len(t),
         NEW h, Moved(h, s, n, t, l), NEW i \in 1 .. n, Opens(s, i)
  PROVE  h[i] \in 1 .. l /\ Opens(t, h[i]) /\ FixedWord(WordFrom(s, i), WordFrom(t, h[i]))
<1>1. ASSUME NEW j \in 1 .. n + 1 PROVE h[j] \in Nat /\ 1 <= h[j]
  BY DEF Moved
<1>2. ASSUME NEW j \in 1 .. n
      PROVE  /\ h[j+1] = h[j] + (IF Dangles(s, n, j) THEN 2 ELSE 1) /\ h[j+1] <= l + 1
             /\ t[h[j]] = s[j] /\ (Dangles(s, n, j) => t[h[j]+1] = "x")
  BY DEF Moved
<1>3. h[n+1] = l + 1 /\ h[1] = 1
  BY DEF Moved
<1>4. ASSUME NEW j \in 1 .. n
      PROVE  /\ j \in 1 .. n + 1 /\ j + 1 \in 1 .. n + 1 /\ h[j] \in Nat /\ h[j+1] \in Nat
             /\ IF Dangles(s, n, j) THEN h[j+1] = h[j] + 2 ELSE h[j+1] = h[j] + 1
  BY <1>1, <1>2
<1>5. i \in Nat /\ 1 <= i /\ i <= n /\ s[i] # Blank /\ (i = 1 \/ s[i-1] = Blank)
  BY DEF Opens
<1>6. h[i] \in 1 .. l
  <2>1. h[i] < h[i+1]
    <3>1. PICK a \in Nat, b \in Nat : a = h[i] /\ b = h[i+1]
      BY <1>4
    <3>2. CASE Dangles(s, n, i)
      <4>1. h[i+1] = h[i] + 2
        BY <1>4, <3>2
      <4>2. QED
        BY <3>1, <4>1
    <3>3. CASE ~Dangles(s, n, i)
      <4>1. h[i+1] = h[i] + 1
        BY <1>4, <3>3
      <4>2. QED
        BY <3>1, <4>1
    <3>4. QED
      BY <3>2, <3>3
  <2>2. h[i] \in Nat /\ h[i+1] \in Nat /\ 1 <= h[i] /\ h[i+1] <= l + 1
    BY <1>1, <1>2, <1>4
  <2>3. QED
    BY <2>1, <2>2
<1>7. Opens(t, h[i])
  <2>1. t[h[i]] # Blank
    BY <1>2, <1>5
  <2>2. CASE i = 1
    BY <1>3, <2>1, <2>2 DEF Opens
  <2>3. CASE i # 1
    <3>1. i - 1 \in 1 .. n /\ i - 1 + 1 = i
      BY <1>5, <2>3
    <3>2. s[i-1] = Blank /\ Blank # "."
      BY <1>5, <2>3, BlankIsNone
    <3>3. ~Dangles(s, n, i - 1)
      BY <3>2 DEF Dangles
    <3>4. h[i] = h[i-1] + 1 /\ h[i-1] \in Nat
      BY <1>4, <3>1, <3>3
    <3>5. h[i] - 1 = h[i-1]
      BY <3>4
    <3>6. t[h[i]-1] = Blank
      BY <1>2, <3>1, <3>2, <3>5
    <3>7. QED
      BY <2>1, <3>6 DEF Opens
  <2>4. QED
    BY <2>2, <2>3
<1>8. PICK v, w : v = WordFrom(s, i) /\ w = WordFrom(t, h[i])
  OBVIOUS
<1>9. PICK e : Closes(s, n, i, e) /\ Spelled(v, s, i, e)
  BY <1>5, <1>8, WordFromHas
<1>10. e \in i .. n /\ (\A k \in i .. e : s[k] # Blank) /\ (e = n \/ s[e+1] = Blank)
  BY <1>9 DEF Closes
<1>11. e \in Nat /\ i <= e /\ e <= n /\ e \in 1 .. n
  BY <1>5, <1>10
<1>12. ASSUME NEW j \in i .. e PROVE h[j] = h[i] + (j - i) /\ j \in 1 .. n
  <2>1. PICK T : T = {k \in i .. e : h[k] # h[i] + (k - i)}
    OBVIOUS
  <2>2. T = {}
    <3>1. SUFFICES ASSUME T # {} PROVE FALSE
      OBVIOUS
    <3>2. T \subseteq Nat
      BY <1>5, <2>1
    <3>3. PICK k \in T : \A z \in T : k <= z
      BY <3>1, <3>2, LeastPlace
    <3>4. k \in i .. e /\ h[k] # h[i] + (k - i)
      BY <2>1
    <3>5. k # i
      <4>1. h[i] = h[i] + (i - i)
        BY <1>5, <1>6
      <4>2. QED
        BY <3>4, <4>1
    <3>6. k - 1 \in i .. e /\ k - 1 \in 1 .. n /\ ~(k <= k - 1) /\ k - 1 + 1 = k /\ k - 1 # n
      BY <1>5, <1>11, <3>4, <3>5
    <3>7. h[k-1] = h[i] + (k - 1 - i)
      BY <2>1, <3>3, <3>6
    <3>8. s[k-1+1] # Blank
      BY <1>10, <3>4, <3>6
    <3>9. ~Dangles(s, n, k - 1)
      BY <3>6, <3>8 DEF Dangles
    <3>10. h[k] = h[k-1] + 1
      BY <1>4, <3>6, <3>9
    <3>11. h[k] = h[i] + (k - i)
      <4>1. PICK a \in Nat : a = h[i]
        BY <1>6
      <4>2. h[k-1] = a + (k - 1 - i)
        BY <3>7, <4>1
      <4>3. h[k] = a + (k - 1 - i) + 1
        BY <3>10, <4>2
      <4>4. k \in Nat /\ i \in Nat
        BY <1>5, <3>4
      <4>5. a + (k - 1 - i) + 1 = a + (k - i)
        BY <4>1, <4>4
      <4>6. QED
        BY <4>1, <4>3, <4>5
    <3>12. QED
      BY <3>4, <3>11
  <2>3. j \in 1 .. n
    BY <1>5, <1>11
  <2>4. QED
    BY <2>1, <2>2, <2>3
<1>13. PICK z \in Nat : z = h[e] /\ z = h[i] + (e - i)
  <2>1. e \in i .. e
    BY <1>5, <1>11
  <2>2. h[e] = h[i] + (e - i)
    BY <1>12, <2>1
  <2>3. h[e] \in Nat
    BY <1>4, <1>11
  <2>4. QED
    BY <2>2, <2>3
<1>14. ASSUME NEW k \in h[i] .. z PROVE \E j \in i .. e : k = h[j] /\ t[k] = s[j] /\ k = h[i] + (j - i)
  <2>0. PICK a \in Nat : a = h[i] /\ z = a + (e - i) /\ k \in a .. z
    BY <1>6, <1>13
  <2>1. PICK j \in i .. e : j = k - a + i
    BY <1>5, <1>11, <2>0
  <2>2. h[j] = h[i] + (j - i) /\ j \in 1 .. n
    BY <1>12
  <2>3. h[j] = k /\ k = h[i] + (j - i)
    <3>1. h[j] = a + (j - i)
      BY <2>0, <2>2
    <3>2. k \in Int /\ j \in Int /\ i \in Int /\ a \in Int
      BY <1>5, <2>0
    <3>4. a + (j - i) = k
      BY <2>1, <3>2, Shifts
    <3>3. QED
      BY <2>0, <3>1, <3>4
  <2>4. t[k] = s[j]
    BY <1>2, <2>2, <2>3
  <2>5. QED
    BY <2>2, <2>3, <2>4
<1>15. PICK b : Closes(t, l, h[i], b) /\ Spelled(w, t, h[i], b)
  <2>1. t[h[i]] # Blank
    BY <1>7 DEF Opens
  <2>2. QED
    BY <1>6, <1>8, <2>1, WordFromHas
<1>16. e = n \/ e + 1 \in 1 .. n
  BY <1>11
<1>17. Len(v) = e - i + 1 /\ (\A k \in 1 .. e - i + 1 : v[k] = s[i+k-1]) /\ v \in Word
  BY <1>9 DEF Spelled
<1>18. ASSUME NEW k \in 1 .. e - i + 1 PROVE t[h[i]+k-1] = v[k]
  <2>1. i + k - 1 \in i .. e
    BY <1>5, <1>11
  <2>2. h[i+k-1] = h[i] + (i + k - 1 - i) /\ i + k - 1 \in 1 .. n
    BY <1>12, <2>1
  <2>3. h[i] + (i + k - 1 - i) = h[i] + k - 1
    BY <1>5, <1>6
  <2>4. t[h[i+k-1]] = s[i+k-1]
    BY <1>2, <2>2
  <2>5. QED
    BY <1>17, <2>2, <2>3, <2>4
<1>19. CASE ~Dangles(s, n, e)
  <2>1. h[e+1] = z + 1
    BY <1>4, <1>11, <1>13, <1>19
  <2>2. z <= l
    BY <1>2, <1>11, <2>1
  <2>3. z = l \/ t[z+1] = Blank
    <3>1. CASE e = n
      BY <1>3, <2>1, <3>1
    <3>2. CASE e # n
      <4>1. t[h[e+1]] = s[e+1] /\ s[e+1] = Blank
        BY <1>2, <1>10, <1>16, <3>2
      <4>2. QED
        BY <2>1, <4>1
    <3>3. QED
      BY <3>1, <3>2
  <2>4. Closes(t, l, h[i], z)
    <3>1. \A k \in h[i] .. z : t[k] # Blank
      BY <1>10, <1>14
    <3>2. z \in h[i] .. l
      BY <1>5, <1>6, <1>11, <1>13, <2>2
    <3>3. QED
      BY <2>3, <3>1, <3>2 DEF Closes
  <2>5. Spelled(v, t, h[i], z)
    <3>1. z - h[i] + 1 = e - i + 1
      BY <1>5, <1>6, <1>11, <1>13
    <3>2. QED
      BY <1>17, <1>18, <3>1 DEF Spelled
  <2>6. w = v
    BY <1>6, <1>8, <2>4, <2>5, WordFromGiven
  <2>7. QED
    BY <1>6, <1>7, <1>8, <2>6 DEF FixedWord
<1>20. CASE Dangles(s, n, e)
  <2>1. h[e+1] = z + 2 /\ t[z+1] = "x" /\ s[e] = "."
    BY <1>2, <1>4, <1>11, <1>13, <1>20 DEF Dangles
  <2>2. z + 1 <= l
    BY <1>2, <1>11, <2>1
  <2>3. z + 1 = l \/ t[z+2] = Blank
    <3>1. CASE e = n
      BY <1>3, <2>1, <3>1
    <3>2. CASE e # n
      <4>1. t[h[e+1]] = s[e+1] /\ s[e+1] = Blank
        BY <1>2, <1>10, <1>16, <3>2
      <4>2. QED
        BY <2>1, <4>1
    <3>3. QED
      BY <3>1, <3>2
  <2>4. Closes(t, l, h[i], z + 1)
    <3>1. ASSUME NEW k \in h[i] .. z + 1 PROVE t[k] # Blank
      <4>1. CASE k = z + 1
        <5>1. "x" # Blank
          BY BlankIsNone
        <5>2. QED
          BY <2>1, <4>1, <5>1
      <4>2. CASE k # z + 1
        <5>1. k \in h[i] .. z
          BY <1>6, <4>2
        <5>2. QED
          BY <1>10, <1>14, <5>1
      <4>3. QED
        BY <4>1, <4>2
    <3>2. z + 1 \in h[i] .. l /\ z + 1 + 1 = z + 2
      <4>1. PICK a \in Nat : a = h[i] /\ z = a + (e - i)
        BY <1>6, <1>13
      <4>2. z + 1 \in a .. l
        <5>1. a \in Int /\ e \in Int /\ i \in Int /\ i <= e /\ z + 1 <= l
          BY <1>5, <1>11, <2>2, <4>1
        <5>2. a <= z
          BY <4>1, <5>1, Covers
        <5>3. QED
          BY <4>1, <5>1, <5>2
      <4>3. QED
        BY <4>1, <4>2
    <3>3. QED
      BY <2>3, <3>1, <3>2 DEF Closes
  <2>5. b = z + 1
    BY <1>6, <1>15, <2>4, ClosesOnce
  <2>6. PICK q \in Nat : q = e - i + 1 /\ q = Len(v) /\ q \in 1 .. q
    <3>1. e - i + 1 \in Nat /\ e - i + 1 \in 1 .. e - i + 1
      BY <1>5, <1>11
    <3>2. QED
      BY <1>17, <3>1
  <2>7. b - h[i] + 1 = q + 1 /\ h[i] + (q + 1) - 1 = z + 1 /\ i + q - 1 = e
    <3>1. PICK a \in Nat : a = h[i] /\ z = a + (e - i)
      BY <1>6, <1>13
    <3>2. a \in Int /\ e \in Int /\ i \in Int
      BY <1>5, <1>11, <3>1
    <3>3. z + 1 - a + 1 = q + 1 /\ a + (q + 1) - 1 = z + 1 /\ i + q - 1 = e
      BY <2>6, <3>1, <3>2, Covers
    <3>4. b = z + 1
      BY <2>5
    <3>5. b - a + 1 = z + 1 - a + 1
      BY <3>4
    <3>6. a = h[i]
      BY <3>1
    <3>7. QED
      BY <3>3, <3>5, <3>6
  <2>8. Len(w) = q + 1 /\ \A k \in 1 .. q + 1 : w[k] = t[h[i]+k-1]
    BY <1>15, <2>7 DEF Spelled
  <2>9. \A k \in 1 .. q : k \in 1 .. q + 1
    OBVIOUS
  <2>10. \A k \in 1 .. q : w[k] = v[k]
    BY <1>18, <2>6, <2>8, <2>9
  <2>11. w[q+1] = "x"
    <3>1. q + 1 \in 1 .. q + 1
      OBVIOUS
    <3>2. QED
      BY <2>1, <2>7, <2>8, <3>1
  <2>12. v[q] = "."
    BY <1>17, <2>1, <2>6, <2>7
  <2>13. FixedWord(v, w)
    BY <2>6, <2>8, <2>10, <2>11, <2>12 DEF FixedWord, DanglingDot
  <2>14. QED
    BY <1>6, <1>7, <1>8, <2>13
<1>21. QED
  BY <1>19, <1>20

\* Fixing the dangling dots of a text fixes its words.
LEMMA FixedWords ==
  ASSUME NEW s \in Text, NEW W, W = Words(s), NEW V, V = Words(FixDanglingDots(s))
  PROVE  Len(V) = Len(W) /\ \A p \in 1 .. Len(W) : FixedWord(W[p], V[p])
<1>1. PICK n \in Nat : n = Len(s)
  BY LenProperties DEF Text, Letters
<1>2. PICK t \in Text : t = FixDanglingDots(s)
  BY FixedIs
<1>3. PICK l \in Nat : l = Len(t)
  BY LenProperties DEF Text, Letters
<1>4. PICK m \in Nat, k \in Nat : m = Len(W) /\ k = Len(V)
  BY <1>2, WordsAre, LenProperties
<1>5. PICK f : WordsAt(f, s, n, m)
  BY <1>1, <1>4, WordPlaces
<1>6. PICK g : WordsAt(g, t, l, k)
  BY <1>2, <1>3, <1>4, WordPlaces
<1>7. /\ \A p \in 1 .. m : f[p] \in 1 .. n /\ Opens(s, f[p]) /\ W[p] = WordFrom(s, f[p])
      /\ \A p, q \in 1 .. m : p < q => f[p] < f[q]
      /\ \A i \in 1 .. n : Opens(s, i) => \E p \in 1 .. m : f[p] = i
  BY <1>5 DEF WordsAt
<1>8. /\ \A p \in 1 .. k : g[p] \in 1 .. l /\ Opens(t, g[p]) /\ V[p] = WordFrom(t, g[p])
      /\ \A p, q \in 1 .. k : p < q => g[p] < g[q]
      /\ \A i \in 1 .. l : Opens(t, i) => \E p \in 1 .. k : g[p] = i
  BY <1>2, <1>6 DEF WordsAt
<1>9. PICK h : Moved(h, s, n, t, l)
  BY <1>1, <1>2, <1>3, FixMoves
<1>10. ASSUME NEW i \in 1 .. n, Opens(s, i)
       PROVE  h[i] \in 1 .. l /\ Opens(t, h[i]) /\ FixedWord(WordFrom(s, i), WordFrom(t, h[i]))
  BY <1>1, <1>3, <1>9, <1>10, FixedFrom
<1>11. ASSUME NEW j \in 1 .. l, Opens(t, j) PROVE \E i \in 1 .. n : h[i] = j /\ Opens(s, i)
  <2>1. PICK i \in 1 .. n : h[i] = j \/ (Dangles(s, n, i) /\ j = h[i] + 1)
    BY <1>9 DEF Moved
  <2>2. t[h[i]] = s[i] /\ h[i] \in Nat /\ 1 <= h[i]
    <3>1. i \in 1 .. n + 1
      OBVIOUS
    <3>2. QED
      BY <1>9, <3>1 DEF Moved
  <2>3. h[i] = j
    <3>1. SUFFICES ASSUME Dangles(s, n, i), j = h[i] + 1 PROVE FALSE
      BY <2>1
    <3>2. j # 1 /\ j - 1 = h[i]
      BY <2>2, <3>1
    <3>3. t[j-1] = "." /\ "." # Blank
      BY <2>2, <3>1, <3>2, BlankIsNone DEF Dangles
    <3>4. QED
      BY <1>11, <3>2, <3>3 DEF Opens
  <2>4. i = 1 \/ s[i-1] = Blank
    <3>1. SUFFICES ASSUME i # 1 PROVE s[i-1] = Blank
      OBVIOUS
    <3>2. i - 1 \in 1 .. n /\ i - 1 \in 1 .. n + 1 /\ i - 1 + 1 = i
      BY <3>1
    <3>3. /\ h[i-1] \in Nat /\ 1 <= h[i-1] /\ t[h[i-1]] = s[i-1] /\ (Dangles(s, n, i - 1) => t[h[i-1]+1] = "x")
          /\ h[i-1+1] = h[i-1] + (IF Dangles(s, n, i - 1) THEN 2 ELSE 1)
      BY <1>9, <3>2 DEF Moved
    <3>4. CASE Dangles(s, n, i - 1)
      <4>1. j = h[i-1] + 2
        BY <2>3, <3>2, <3>3, <3>4
      <4>2. j - 1 = h[i-1] + 1 /\ j # 1
        BY <3>3, <4>1
      <4>3. t[j-1] = "x" /\ "x" # Blank
        BY <3>3, <3>4, <4>2, BlankIsNone
      <4>4. QED
        BY <1>11, <4>2, <4>3 DEF Opens
    <3>5. CASE ~Dangles(s, n, i - 1)
      <4>1. j = h[i-1] + 1
        BY <2>3, <3>2, <3>3, <3>5
      <4>2. j - 1 = h[i-1] /\ j # 1
        BY <3>3, <4>1
      <4>3. t[j-1] = Blank
        BY <1>11, <4>2 DEF Opens
      <4>4. QED
        BY <3>3, <4>2, <4>3
    <3>6. QED
      BY <3>4, <3>5
  <2>5. s[i] # Blank
    BY <1>11, <2>2, <2>3 DEF Opens
  <2>6. QED
    BY <2>3, <2>4, <2>5 DEF Opens
<1>12. PICK u : u = [p \in 1 .. m |-> h[f[p]]]
  OBVIOUS
<1>13. ASSUME NEW p \in 1 .. m PROVE u[p] = h[f[p]] /\ u[p] \in 1 .. l /\ Opens(t, u[p]) /\ f[p] \in 1 .. n
  BY <1>7, <1>10, <1>12
<1>14. Rises(u, m)
  <2>1. ASSUME NEW p \in 1 .. m PROVE u[p] \in Int
    <3>1. u[p] \in 1 .. l
      BY <1>13
    <3>2. QED
      BY <3>1
  <2>2. ASSUME NEW p \in 1 .. m, NEW q \in 1 .. m, p < q PROVE u[p] < u[q]
    <3>1. f[p] \in 1 .. n /\ f[q] \in 1 .. n /\ f[p] < f[q]
      BY <1>7, <2>2
    <3>2. h[f[p]] < h[f[q]]
      BY <1>9, <3>1 DEF Moved
    <3>3. QED
      BY <1>12, <3>2
  <2>3. QED
    BY <2>1, <2>2 DEF Rises
<1>15. Rises(g, k)
  <2>1. ASSUME NEW p \in 1 .. k PROVE g[p] \in Int
    <3>1. g[p] \in 1 .. l
      BY <1>8
    <3>2. QED
      BY <3>1
  <2>2. QED
    BY <1>8, <2>1 DEF Rises
<1>16. Within(u, m, g, k)
  <2>1. ASSUME NEW p \in 1 .. m PROVE \E q \in 1 .. k : u[p] = g[q]
    BY <1>8, <1>13
  <2>2. QED
    BY <2>1 DEF Within
<1>17. Within(g, k, u, m)
  <2>1. ASSUME NEW q \in 1 .. k PROVE \E p \in 1 .. m : g[q] = u[p]
    <3>1. PICK i \in 1 .. n : h[i] = g[q] /\ Opens(s, i)
      BY <1>8, <1>11
    <3>2. PICK p \in 1 .. m : f[p] = i
      BY <1>7, <3>1
    <3>3. QED
      BY <1>12, <3>1, <3>2
  <2>2. QED
    BY <2>1 DEF Within
<1>18. m = k /\ \A p \in 1 .. m : u[p] = g[p]
  BY <1>14, <1>15, <1>16, <1>17, SamePlaces
<1>19. ASSUME NEW p \in 1 .. m PROVE FixedWord(W[p], V[p])
  <2>1. f[p] \in 1 .. n /\ Opens(s, f[p]) /\ W[p] = WordFrom(s, f[p])
    BY <1>7
  <2>2. FixedWord(WordFrom(s, f[p]), WordFrom(t, h[f[p]]))
    BY <1>10, <2>1
  <2>3. V[p] = WordFrom(t, h[f[p]])
    BY <1>8, <1>13, <1>18
  <2>4. QED
    BY <2>1, <2>2, <2>3
<1>20. QED
  BY <1>4, <1>18, <1>19
\* The words after some keywords, as the code walks them.
Follower(W, p) == [at |-> p, name |-> LastPart(W[p+1])]
LEMMA AfterHas ==
  ASSUME NEW s \in Text, NEW keys, NEW W, W = Words(s), NEW m \in Nat, m = Len(W), NEW x
  PROVE  x \in ToSet(After(s, keys)) <=> \E p \in 1 .. m : p < m /\ W[p] \in keys /\ x = Follower(W, p)
<1>1. DOMAIN W = 1 .. m
  BY WordsAre, LenProperties
<1>2. PICK d : d = Indices(W)
  OBVIOUS
<1>3. DOMAIN d = 1 .. m /\ \A i \in 1 .. m : d[i] = i
  BY <1>1, <1>2 DEF Indices
<1>4. PICK parts : parts = [i \in DOMAIN d |-> IF d[i] < Len(W) /\ W[d[i]] \in keys THEN <<d[i]>> ELSE <<>>]
  OBVIOUS
<1>5. PICK f : f = Where(d, LAMBDA i : i < Len(Words(s)) /\ Words(s)[i] \in keys)
  OBVIOUS
<1>6. f = FlattenSeq(parts)
  <2>1. parts = [i \in DOMAIN d |-> IF d[i] < Len(Words(s)) /\ Words(s)[d[i]] \in keys THEN <<d[i]>> ELSE <<>>]
    BY <1>4
  <2>2. QED
    BY <1>5, <2>1, Zenon DEF Where, Flat, Each
<1>7. \A i \in 1 .. m : parts[i] = IF i < m /\ W[i] \in keys THEN <<i>> ELSE <<>>
  BY <1>3, <1>4, Zenon
<1>8. parts = [i \in 1 .. m |-> parts[i]]
  BY <1>3, <1>4, Zenon
<1>9. \A i \in 1 .. m : parts[i] = <<>> \/ parts[i] = <<i>>
  BY <1>7, Zenon
<1>10. \A i \in 1 .. m : parts[i] # <<>> <=> i < m /\ W[i] \in keys
  <2>1. \A i \in 1 .. m : <<i>> # <<>>
    OBVIOUS
  <2>2. QED
    BY <1>7, <2>1, Zenon
<1>11. Kept(f, parts, m)
  BY <1>6, <1>8, <1>9, PlacesKept
<1>12. PICK l \in Nat : l = Len(f) /\ DOMAIN f = 1 .. l /\ \A k \in 1 .. l : f[k] \in 1 .. m
  BY <1>11, LenProperties, ElementOfSeq DEF Kept
<1>13. PICK r : r = [k \in DOMAIN f |-> Follower(W, f[k])]
  OBVIOUS
<1>14. After(s, keys) = r
  <2>1. f = Where(d, LAMBDA i : i < Len(Words(s)) /\ Words(s)[i] \in keys) /\ d = Indices(Words(s))
    BY <1>2, <1>5, Zenon
  <2>2. r = [k \in DOMAIN f |-> [at |-> f[k], name |-> LastPart(Words(s)[f[k]+1])]]
    BY <1>13 DEF Follower
  <2>3. QED
    BY <2>1, <2>2, Zenon DEF After, Each
<1>15. DOMAIN r = 1 .. l /\ \A k \in 1 .. l : r[k] = Follower(W, f[k])
  BY <1>12, <1>13
<1>16. \A k \in 1 .. l : f[k] < m /\ W[f[k]] \in keys
  BY <1>10, <1>11, <1>12 DEF Kept
<1>17. \A p \in 1 .. m : p < m /\ W[p] \in keys => \E k \in 1 .. l : f[k] = p
  BY <1>10, <1>11, <1>12 DEF Kept
<1>18. ASSUME x \in ToSet(r) PROVE \E p \in 1 .. m : p < m /\ W[p] \in keys /\ x = Follower(W, p)
  <2>1. PICK k \in 1 .. l : x = r[k]
    BY <1>15, <1>18 DEF ToSet
  <2>2. QED
    BY <1>12, <1>15, <1>16, <2>1
<1>19. ASSUME NEW p \in 1 .. m, p < m, W[p] \in keys, x = Follower(W, p) PROVE x \in ToSet(r)
  <2>1. PICK k \in 1 .. l : f[k] = p
    BY <1>17, <1>19
  <2>2. r[k] = x
    BY <1>15, <1>19, <2>1
  <2>3. QED
    BY <1>15, <2>2 DEF ToSet
<1>20. QED
  BY <1>14, <1>18, <1>19

\* The keywords before a table, and the tables named after them.
TableWords == {<<"FROM">>, <<"JOIN">>, <<"UPDATE">>}
LEMMA NamedHas ==
  ASSUME NEW s \in Text, NEW W, W = Words(s), NEW m \in Nat, m = Len(W), NEW x
  PROVE  x \in ToSet(NamedIn(s)) <=> \E p \in 1 .. m : p < m /\ W[p] \in TableWords /\ x = LastPart(W[p+1])
<1>1. PICK after : after = After(s, TableWords)
  OBVIOUS
<1>2. NamedIn(s) = [i \in DOMAIN after |-> after[i].name]
  BY <1>1 DEF NamedIn, TablesNamed, Each, TableWords
<1>3. x \in ToSet(NamedIn(s)) <=> \E y \in ToSet(after) : x = y.name
  BY <1>2 DEF ToSet
<1>4. ASSUME NEW y PROVE y \in ToSet(after) <=> \E p \in 1 .. m : p < m /\ W[p] \in TableWords /\ y = Follower(W, p)
  BY <1>1, AfterHas
<1>5. \A p : Follower(W, p).name = LastPart(W[p+1])
  BY DEF Follower
<1>6. QED
  BY <1>3, <1>4, <1>5

\* A section ends before the first keyword: of texts with keywords in the same
\* places the sections are of one length.
LEMMA SectionsEnd ==
  ASSUME NEW W, NEW V, NEW m \in Nat, m = Len(W), m = Len(V),
         \A q \in 1 .. m : W[q] \in KeyWords <=> V[q] \in KeyWords,
         NEW p, NEW it, Section(W, p, it), NEW iv, Section(V, p, iv)
  PROVE  Len(it) = Len(iv)
<1>1. PICK k \in Nat, l \in Nat : k = Len(it) /\ l = Len(iv)
  BY LenProperties DEF Section
<1>2. /\ p \in 1 .. m /\ p + k <= m /\ (p + k = m \/ W[p+k+1] \in KeyWords)
      /\ \A j \in 1 .. k : it[j] = W[p+j] /\ it[j] \notin KeyWords
  BY <1>1 DEF Section
<1>3. /\ p + l <= m /\ (p + l = m \/ V[p+l+1] \in KeyWords)
      /\ \A j \in 1 .. l : iv[j] = V[p+j] /\ iv[j] \notin KeyWords
  BY <1>1 DEF Section
<1>4. ~(k < l)
  <2>1. SUFFICES ASSUME k < l PROVE FALSE
    OBVIOUS
  <2>2. k + 1 \in 1 .. l /\ p + k # m /\ p + k + 1 \in 1 .. m /\ p + (k + 1) = p + k + 1
    BY <1>2, <1>3, <2>1
  <2>3. W[p+k+1] \in KeyWords /\ V[p+k+1] \notin KeyWords
    BY <1>2, <1>3, <2>2
  <2>4. QED
    BY <2>2, <2>3
<1>5. ~(l < k)
  <2>1. SUFFICES ASSUME l < k PROVE FALSE
    OBVIOUS
  <2>2. l + 1 \in 1 .. k /\ p + l # m /\ p + l + 1 \in 1 .. m /\ p + (l + 1) = p + l + 1
    BY <1>2, <1>3, <2>1
  <2>3. V[p+l+1] \in KeyWords /\ W[p+l+1] \notin KeyWords
    BY <1>2, <1>3, <2>2
  <2>4. QED
    BY <2>2, <2>3
<1>6. QED
  BY <1>1, <1>4, <1>5

\* There is one from each place.
LEMMA SectionOnce ==
  ASSUME NEW W, NEW m \in Nat, m = Len(W), NEW p, NEW it, Section(W, p, it), NEW iv, Section(W, p, iv)
  PROVE  it = iv
<1>1. Len(it) = Len(iv)
  BY SectionsEnd
<1>2. PICK k \in Nat : k = Len(it) /\ k = Len(iv)
  BY <1>1, LenProperties DEF Section
<1>3. it \in Seq(Word) /\ iv \in Seq(Word) /\ \A j \in 1 .. k : it[j] = W[p+j] /\ iv[j] = W[p+j]
  BY <1>2 DEF Section
<1>4. QED
  BY <1>2, <1>3, SeqEqual

\* Names that need no quotes: no table is called like a keyword, no column has a dot.
ScopeNames ==
  /\ {"FROM", "JOIN", "UPDATE"} \subseteq Keywords /\ "." \notin Keywords
  /\ <<>> \notin DOMAIN Schema /\ DOMAIN Schema \intersect KeyWords = {}
  /\ \A t \in DOMAIN Schema : \A col \in ToSet(Schema[t]) : ~Dotted(col)

\* The last part of a keyword is the keyword.
LEMMA KeywordWhole ==
  ASSUME ScopeNames, NEW w \in KeyWords
  PROVE  LastPart(w) = w
<1>1. PICK k \in Keywords : w = <<k>>
  BY DEF KeyWords
<1>2. k # "." /\ w \in Seq(Keywords) /\ 1 = Len(w) /\ w[1] = k
  BY <1>1 DEF ScopeNames
<1>3. LastAt(w, ".", 0)
  BY <1>2 DEF LastAt
<1>4. PICK v : v = Behind(w, ".")
  OBVIOUS
<1>5. v \in Seq(Keywords) /\ Len(v) = 1 /\ \A i \in 1 .. 1 : v[i] = w[i]
  <2>1. 1 \in Nat /\ 0 \in 0 .. 1
    OBVIOUS
  <2>2. /\ v \in Seq(Keywords) /\ Len(v) = 1 - 0
        /\ \A i \in 1 .. 1 - 0 : v[i] = w[0+i]
    BY <1>2, <1>3, <1>4, <2>1, BehindText
  <2>3. 1 - 0 = 1 /\ \A i \in 1 .. 1 : 0 + i = i
    OBVIOUS
  <2>4. QED
    BY <2>2, <2>3
<1>6. v = w
  BY <1>2, <1>5, SeqEqual
<1>7. QED
  BY <1>4, <1>6 DEF LastPart

\* A word with a dangling dot has no last part.
LEMMA DanglingEmpty ==
  ASSUME NEW w \in Word, DanglingDot(w)
  PROVE  LastPart(w) = <<>>
<1>1. PICK n \in Nat : n = Len(w)
  BY LenProperties DEF Word, Text, Letters
<1>2. w \in Seq(Letters) /\ w[n] = "." /\ n \in 0 .. n
  BY <1>1 DEF Word, Text, Letters, DanglingDot
<1>3. LastAt(w, ".", n)
  BY <1>1, <1>2 DEF LastAt
<1>4. Behind(w, ".") \in Seq(Letters) /\ Len(Behind(w, ".")) = n - n
  BY <1>1, <1>2, <1>3, BehindText
<1>5. n - n = 0
  OBVIOUS
<1>6. QED
  BY <1>4, <1>5, EmptySeq DEF LastPart

\* The tables of the clauses with one each are what stands after their keywords.
LEMMA TablesScanned ==
  ASSUME line \in Text, ScopeNames, OneTableEach, NEW W, W = Words(line), NEW m \in Nat, m = Len(W), NEW x
  PROVE  x \in TablesIn <=> \E p : Section(W, p, x) /\ W[p] \in TableWords /\ x # <<>>
<1>1. ASSUME NEW c \in TableClauses, NEW p, NEW it, Scanned(W, p, it, c)
      PROVE  Section(W, p, it) /\ W[p] \in TableWords /\ ToSet(c.items) = {it}
  <2>1. Len(c.items) = 1
    BY DEF OneTableEach
  <2>2. c.items = <<it>> /\ Section(W, p, it) /\ W[p] = <<c.key>>
    BY <1>1, <2>1 DEF Scanned
  <2>3. c.key \in {"FROM", "JOIN", "UPDATE"}
    BY DEF TableClauses
  <2>4. DOMAIN <<it>> = 1 .. 1 /\ <<it>>[1] = it
    OBVIOUS
  <2>5. ToSet(<<it>>) = {it}
    BY <2>4 DEF ToSet
  <2>6. QED
    BY <2>2, <2>3, <2>5 DEF TableWords
<1>2. ASSUME x \in TablesIn PROVE \E p : Section(W, p, x) /\ W[p] \in TableWords /\ x # <<>>
  <2>1. PICK c \in TableClauses : x \in ToSet(c.items) \ {<<>>}
    BY <1>2 DEF TablesIn
  <2>2. c \in ToSet(Clauses(line))
    BY DEF TableClauses
  <2>3. PICK p, it : Scanned(W, p, it, c)
    BY <2>2, ClauseWords
  <2>4. QED
    BY <1>1, <2>1, <2>3
<1>3. ASSUME NEW p, Section(W, p, x), W[p] \in TableWords, x # <<>> PROVE x \in TablesIn
  <2>1. p \in 1 .. Len(W) /\ W[p] \in KeyWords
    BY <1>3 DEF Section, TableWords, KeyWords, ScopeNames
  <2>0. PICK c \in ToSet(Clauses(line)) : \E it : Scanned(W, p, it, c)
    BY <2>1, ClauseWords
  <2>2. PICK it : Scanned(W, p, it, c)
    BY <2>0
  <2>3. c.key \in {"FROM", "JOIN", "UPDATE"}
    <3>1. <<c.key>> \in TableWords
      BY <1>3, <2>2 DEF Scanned
    <3>2. QED
      BY <3>1 DEF TableWords
  <2>4. c \in TableClauses
    BY <2>3 DEF TableClauses
  <2>5. it = x
    BY <1>3, <2>2, SectionOnce DEF Scanned
  <2>6. QED
    BY <1>1, <1>3, <2>2, <2>4, <2>5 DEF TablesIn
<1>4. QED
  BY <1>2, <1>3

\* The tables in scope are the names there that are no keywords.
LEMMA ScopeHas ==
  ASSUME line \in Text, ScopeNames, OneTableEach, NEW W, W = Words(line), NEW m \in Nat, m = Len(W), NEW x
  PROVE  x \in InScope <=> \E p \in 1 .. m : /\ p < m /\ W[p] \in TableWords
                                             /\ W[p+1] \notin KeyWords /\ x = LastPart(W[p+1])
<1>1. ASSUME NEW p, NEW it, Section(W, p, it), it # <<>>
      PROVE  p \in 1 .. m /\ p < m /\ it[1] = W[p+1] /\ W[p+1] \notin KeyWords
  <2>1. PICK k \in Nat : k = Len(it)
    BY <1>1, LenProperties DEF Section
  <2>2. p \in 1 .. m /\ p + k <= m /\ \A j \in 1 .. k : it[j] = W[p+j] /\ it[j] \notin KeyWords
    BY <1>1, <2>1 DEF Section
  <2>3. k # 0
    BY <1>1, <2>1, EmptySeq DEF Section
  <2>4. 1 \in 1 .. k
    BY <2>3
  <2>5. QED
    BY <2>2, <2>4
<1>2. ASSUME x \in InScope
      PROVE  \E p \in 1 .. m : /\ p < m /\ W[p] \in TableWords
                               /\ W[p+1] \notin KeyWords /\ x = LastPart(W[p+1])
  <2>1. PICK it \in TablesIn : x = LastPart(it[1])
    BY <1>2 DEF InScope
  <2>2. PICK p : Section(W, p, it) /\ W[p] \in TableWords /\ it # <<>>
    BY <2>1, TablesScanned
  <2>3. QED
    BY <1>1, <2>1, <2>2
<1>3. ASSUME NEW p \in 1 .. m, p < m, W[p] \in TableWords, W[p+1] \notin KeyWords, x = LastPart(W[p+1])
      PROVE  x \in InScope
  <2>1. W[p] \in KeyWords
    BY <1>3 DEF TableWords, KeyWords, ScopeNames
  <2>0. PICK c \in ToSet(Clauses(line)) : \E it : Scanned(W, p, it, c)
    BY <2>1, ClauseWords
  <2>2. PICK it : Scanned(W, p, it, c)
    BY <2>0
  <2>3. Section(W, p, it)
    BY <2>2 DEF Scanned
  <2>4. it # <<>>
    <3>1. SUFFICES ASSUME it = <<>> PROVE FALSE
      OBVIOUS
    <3>2. Len(it) = 0
      BY <3>1
    <3>3. p + 0 = m \/ W[p+0+1] \in KeyWords
      BY <2>3, <3>2 DEF Section
    <3>4. p + 0 = p
      OBVIOUS
    <3>5. QED
      BY <1>3, <3>3, <3>4
  <2>5. it[1] = W[p+1]
    BY <1>1, <2>3, <2>4
  <2>6. it \in TablesIn
    BY <1>3, <2>3, <2>4, TablesScanned
  <2>7. QED
    BY <1>3, <2>5, <2>6 DEF InScope
<1>4. QED
  BY <1>2, <1>3

\* A keyword has no dot to fix, and none is made of another word.
LEMMA KeyFixed ==
  ASSUME ScopeNames, NEW v \in Word, NEW w, FixedWord(v, w), v \in KeyWords \/ w \in KeyWords
  PROVE  v = w
<1>1. SUFFICES ASSUME DanglingDot(v), Len(w) = Len(v) + 1 PROVE FALSE
  BY DEF FixedWord
<1>2. Len(v) \in 1 .. Len(v) /\ v[Len(v)] = "."
  BY <1>1 DEF DanglingDot
<1>3. CASE v \in KeyWords
  <2>1. PICK k \in Keywords : v = <<k>>
    BY <1>3 DEF KeyWords
  <2>2. Len(v) = 1 /\ v[1] = k
    BY <2>1
  <2>3. QED
    BY <1>2, <2>2 DEF ScopeNames
<1>4. CASE w \in KeyWords
  <2>1. PICK k \in Keywords : w = <<k>>
    BY <1>4 DEF KeyWords
  <2>2. Len(w) = 1
    BY <2>1
  <2>3. PICK n \in Nat : n = Len(v) /\ n >= 1
    <3>1. PICK n \in Nat : n = Len(v)
      BY LenProperties DEF Word, Text, Letters
    <3>2. n \in 1 .. n
      BY <1>2, <3>1
    <3>3. QED
      BY <3>1, <3>2
  <2>4. n + 1 = 1
    BY <1>1, <2>2, <2>3
  <2>5. QED
    BY <2>3, <2>4
<1>5. QED
  BY <1>3, <1>4

\* The items that are left of some are among them.
LEMMA ItemsFrom ==
  ASSUME NEW items \in Seq(Seq(Word)), NEW item \in ToSet(Where(items, LAMBDA i : i # <<>>))
  PROVE  item \in ToSet(items)
<1>1. PICK n \in Nat : n = Len(items)
  BY LenProperties
<1>2. DOMAIN items = 1 .. n
  BY <1>1, LenProperties
<1>3. PICK parts : parts = [i \in DOMAIN items |-> IF items[i] # <<>> THEN <<items[i]>> ELSE <<>>]
  OBVIOUS
<1>4. Where(items, LAMBDA i : i # <<>>) = FlattenSeq(parts)
  BY <1>3 DEF Where, Flat, Each
<1>5. \A i \in 1 .. n : parts[i] = <<>> \/ parts[i] = <<items[i]>>
  BY <1>2, <1>3
<1>6. parts = [i \in 1 .. n |-> parts[i]]
  BY <1>2, <1>3
<1>7. Passed(item, items, parts, n)
  BY <1>1, <1>4, <1>5, <1>6, FilteredSet
<1>8. QED
  BY <1>2, <1>7 DEF Passed, ToSet

\* The tables of a text are items of clauses.
LEMMA TableItemsFrom ==
  ASSUME NEW s \in Text, NEW item \in ToSet(TableItems(s))
  PROVE  \E c \in ToSet(Clauses(s)) : c.key \in {"FROM", "JOIN"} /\ item \in ToSet(c.items)
<1>1. PICK all : all = Clauses(s)
  OBVIOUS
<1>2. all \in Seq(Clause)
  BY <1>1, ClausesAre
<1>3. PICK n \in Nat : n = Len(all)
  BY <1>2, LenProperties
<1>4. DOMAIN all = 1 .. n /\ \A i \in 1 .. n : all[i] \in Clause
  BY <1>2, <1>3, LenProperties, ElementOfSeq
<1>5. PICK parts : parts = [i \in DOMAIN all |-> IF all[i].key \in {"FROM", "JOIN"} THEN <<all[i]>> ELSE <<>>]
  OBVIOUS
<1>6. PICK some : some = Where(all, LAMBDA c : c.key \in {"FROM", "JOIN"})
  OBVIOUS
<1>7. some = FlattenSeq(parts)
  BY <1>5, <1>6 DEF Where, Flat, Each
<1>8. \A i \in 1 .. n : parts[i] = <<>> \/ parts[i] = <<all[i]>>
  BY <1>4, <1>5
<1>9. parts = [i \in 1 .. n |-> parts[i]]
  BY <1>4, <1>5
<1>10. some \in Seq(Clause)
  BY <1>2, <1>3, <1>7, <1>8, <1>9, Sources
<1>11. \A c : c \in ToSet(some) <=> Passed(c, all, parts, n)
  BY <1>2, <1>3, <1>7, <1>8, <1>9, FilteredSet
<1>12. PICK m \in Nat : m = Len(some)
  BY <1>10, LenProperties
<1>13. DOMAIN some = 1 .. m /\ \A i \in 1 .. m : some[i] \in Clause
  BY <1>10, <1>12, LenProperties, ElementOfSeq
<1>14. PICK left : left = [i \in DOMAIN some |-> Where(some[i].items, LAMBDA j : j # <<>>)]
  OBVIOUS
<1>15. TableItems(s) = FlattenSeq(left)
  BY <1>1, <1>6, <1>14 DEF TableItems, Flat, Each
<1>16. \A i \in 1 .. m : some[i].items \in Seq(Seq(Word))
  BY <1>13 DEF Clause
<1>17. \A i \in 1 .. m : left[i] \in Seq(Seq(Word))
  BY <1>13, <1>14, <1>16, ItemsLeft
<1>18. left = [i \in 1 .. m |-> left[i]]
  BY <1>13, <1>14
<1>19. PICK i \in 1 .. m : item \in ToSet(left[i])
  BY <1>15, <1>17, <1>18, FlattenedSet
<1>20. item \in ToSet(some[i].items)
  <2>1. left[i] = Where(some[i].items, LAMBDA j : j # <<>>)
    BY <1>13, <1>14
  <2>2. QED
    BY <1>16, <1>19, <2>1, ItemsFrom
<1>21. some[i] \in ToSet(some)
  BY <1>13 DEF ToSet
<1>22. PICK j \in 1 .. n : parts[j] # <<>> /\ some[i] = all[j]
  BY <1>11, <1>21 DEF Passed
<1>23. all[j].key \in {"FROM", "JOIN"} /\ all[j] \in ToSet(all)
  BY <1>4, <1>5, <1>22 DEF ToSet
<1>24. QED
  BY <1>1, <1>20, <1>22, <1>23

\* An alias is the second word of an item, and stands for the first.
LEMMA AliasFrom ==
  ASSUME NEW s \in Text, NEW map, map = BuildAliasMap(s), NEW a \in DOMAIN map
  PROVE  \E item \in ToSet(TableItems(FixDanglingDots(s))) :
           Len(item) = 2 /\ item[2] = a /\ map[a] = LastPart(item[1])
<1>1. PICK fixed : fixed = FixDanglingDots(s)
  OBVIOUS
<1>2. fixed \in Text
  BY <1>1, FixedIs
<1>3. PICK all : all = TableItems(fixed)
  OBVIOUS
<1>4. all \in Seq(Seq(Word))
  BY <1>2, <1>3, TableItemsAre
<1>5. PICK n \in Nat : n = Len(all)
  BY <1>4, LenProperties
<1>6. DOMAIN all = 1 .. n
  BY <1>4, <1>5, LenProperties
<1>7. PICK parts : parts = [i \in DOMAIN all |-> IF Len(all[i]) = 2 THEN <<all[i]>> ELSE <<>>]
  OBVIOUS
<1>8. PICK aliased : aliased = Where(all, LAMBDA item : Len(item) = 2)
  OBVIOUS
<1>9. aliased = FlattenSeq(parts)
  BY <1>7, <1>8 DEF Where, Flat, Each
<1>10. \A i \in 1 .. n : parts[i] = <<>> \/ parts[i] = <<all[i]>>
  BY <1>6, <1>7
<1>11. parts = [i \in 1 .. n |-> parts[i]]
  BY <1>6, <1>7
<1>12. aliased \in Seq(Seq(Word))
  BY <1>4, <1>5, <1>9, <1>10, <1>11, Sources
<1>13. \A x : x \in ToSet(aliased) <=> Passed(x, all, parts, n)
  BY <1>4, <1>5, <1>9, <1>10, <1>11, FilteredSet
<1>14. \A x \in ToSet(aliased) : x \in ToSet(all) /\ Len(x) = 2
  <2>1. ASSUME NEW x \in ToSet(aliased) PROVE x \in ToSet(all) /\ Len(x) = 2
    <3>1. PICK i \in 1 .. n : parts[i] # <<>> /\ x = all[i]
      BY <1>13 DEF Passed
    <3>2. QED
      BY <1>6, <1>7, <3>1 DEF ToSet
  <2>2. QED
    BY <2>1
<1>15. PICK m \in Nat : m = Len(aliased) /\ DOMAIN aliased = 1 .. m
  BY <1>12, LenProperties
<1> DEFINE last(b) == SelectLastInSeq(aliased, LAMBDA item : item[2] = b)
<1>16. BuildAliasMap(s) = IF ~Parses(fixed) THEN <<>>
         ELSE [b \in {item[2] : item \in ToSet(aliased)} |-> LastPart(aliased[last(b)][1])]
  BY <1>1, <1>3, <1>8 DEF BuildAliasMap
<1>17. Parses(fixed)
  <2>1. SUFFICES ASSUME ~Parses(fixed) PROVE FALSE
    OBVIOUS
  <2>2. map = <<>>
    BY <1>16, <2>1
  <2>3. DOMAIN map = {}
    BY <2>2
  <2>4. QED
    BY <2>3
<1>18. PICK called : called = {item[2] : item \in ToSet(aliased)}
  OBVIOUS
<1>19. map = [b \in called |-> LastPart(aliased[last(b)][1])]
  BY <1>16, <1>17, <1>18
<1>20. a \in called
  <2> HIDE DEF last
  <2>1. DOMAIN map = called
    BY <1>19
  <2>2. QED
    BY <2>1
<1>21. last(a) \in 1 .. m /\ aliased[last(a)][2] = a
  <2>1. PICK T : T = {i \in 1 .. m : aliased[i][2] = a}
    OBVIOUS
  <2>2. T # {}
    BY <1>15, <1>18, <1>20, <2>1 DEF ToSet
  <2>3. T \subseteq 0 .. m
    BY <2>1
  <2>4. \E k \in T : \A i \in T : k >= i
    <3>1. PICK k \in T : \A i \in T : i <= k
      BY <2>2, <2>3, GreatestPlace
    <3>2. QED
      BY <2>3, <3>1
  <2>5. Max(T) \in T
    BY <2>4 DEF Max
  <2>6. last(a) = Max(T)
    BY <1>15, <2>1, <2>2 DEF SelectLastInSeq
  <2>7. QED
    BY <2>1, <2>5, <2>6
<1> HIDE DEF last
<1>22. PICK item : item = aliased[last(a)]
  OBVIOUS
<1>23. item \in ToSet(aliased) /\ item[2] = a
  BY <1>15, <1>21, <1>22 DEF ToSet
<1>24. map[a] = LastPart(item[1])
  BY <1>19, <1>20, <1>22
<1>25. QED
  BY <1>1, <1>3, <1>14, <1>23, <1>24

\* What a comma is not.
LEMMA CommaIsNone == Comma # "x"
  BY Zenon DEF Comma

\* An item with an alias, in the text with its dots fixed, is one of the text, each of
\* its words fixed.
LEMMA AliasScanned ==
  ASSUME line \in Text, ScopeNames, OneTableEach,
         NEW item \in ToSet(TableItems(FixDanglingDots(line))), Len(item) = 2
  PROVE  \E it \in TablesIn : /\ Len(it) = 2 /\ it[1] \in Word /\ it[2] \in Word
                              /\ FixedWord(it[1], item[1]) /\ FixedWord(it[2], item[2])
<1>1. PICK F \in Text : F = FixDanglingDots(line)
  BY FixedIs
<1>2. PICK W \in Seq(Word), V \in Seq(Word) : W = Words(line) /\ V = Words(F)
  BY <1>1, WordsAre
<1>3. PICK m \in Nat : m = Len(W)
  BY LenProperties
<1>4. Len(V) = m /\ \A q \in 1 .. m : FixedWord(W[q], V[q])
  BY <1>1, <1>2, <1>3, FixedWords
<1>5. \A q \in 1 .. m : W[q] \in Word /\ V[q] \in Word
  BY <1>3, <1>4, ElementOfSeq
<1>6. \A q \in 1 .. m : W[q] \in KeyWords \/ V[q] \in KeyWords => W[q] = V[q]
  BY <1>4, <1>5, KeyFixed
<1>7. PICK c \in ToSet(Clauses(F)) : c.key \in {"FROM", "JOIN"} /\ item \in ToSet(c.items)
  BY <1>1, TableItemsFrom
<1>8. PICK p, iv : Scanned(V, p, iv, c)
  BY <1>2, ClauseWords
<1>9. Section(V, p, iv) /\ V[p] = <<c.key>> /\ p \in 1 .. m
  BY <1>4, <1>8 DEF Scanned, Section
<1>10. V[p] \in TableWords /\ V[p] \in KeyWords /\ W[p] = V[p]
  BY <1>6, <1>7, <1>9 DEF TableWords, KeyWords, ScopeNames
<1>11. PICK d \in ToSet(Clauses(line)) : \E it : Scanned(W, p, it, d)
  BY <1>2, <1>3, <1>9, <1>10, ClauseWords
<1>12. PICK it : Scanned(W, p, it, d)
  BY <1>11
<1>13. Section(W, p, it) /\ W[p] = <<d.key>>
  BY <1>12 DEF Scanned
<1>14. d \in TableClauses
  <2>1. <<d.key>> = <<c.key>>
    BY <1>9, <1>10, <1>13
  <2>2. d.key = c.key
    BY <2>1
  <2>3. QED
    BY <1>7, <2>2 DEF TableClauses
<1>15. ~In(it, Comma)
  BY <1>12, <1>14 DEF OneTableEach, Scanned
<1>16. PICK k \in Nat : k = Len(it) /\ k = Len(iv)
  <2>1. Len(it) = Len(iv)
    BY <1>3, <1>4, <1>6, <1>9, <1>13, SectionsEnd
  <2>2. QED
    BY <1>13, <2>1, LenProperties DEF Section
<1>17. ASSUME NEW j \in 1 .. k PROVE FixedWord(it[j], iv[j]) /\ it[j] \in Word
  <2>1. p + k <= m /\ it[j] = W[p+j] /\ iv[j] = V[p+j]
    BY <1>3, <1>9, <1>13, <1>16 DEF Section
  <2>2. p + j \in 1 .. m
    BY <1>9, <2>1
  <2>3. QED
    BY <1>4, <1>5, <2>1, <2>2
<1>18. ~In(iv, Comma)
  <2>1. SUFFICES ASSUME NEW q \in 1 .. k, NEW j \in 1 .. Len(iv[q]), iv[q][j] = Comma PROVE FALSE
    BY <1>16 DEF In
  <2>2. PICK l \in Nat : l = Len(it[q])
    BY <1>17, LenProperties DEF Word, Text, Letters
  <2>3. ASSUME NEW i \in 1 .. l, it[q][i] = Comma PROVE FALSE
    BY <1>15, <1>16, <2>2, <2>3 DEF In
  <2>4. CASE iv[q] = it[q]
    BY <2>1, <2>2, <2>3, <2>4
  <2>5. CASE iv[q] # it[q]
    <3>1. Len(iv[q]) = l + 1 /\ iv[q][l+1] = "x" /\ \A i \in 1 .. l : iv[q][i] = it[q][i]
      BY <1>17, <2>2, <2>5 DEF FixedWord
    <3>2. j \in 1 .. l + 1
      BY <3>1
    <3>3. j = l + 1 \/ j \in 1 .. l
      BY <3>2
    <3>4. j # l + 1
      BY <2>1, <3>1, CommaIsNone
    <3>5. QED
      BY <2>1, <2>3, <3>1, <3>3, <3>4
  <2>6. QED
    BY <2>4, <2>5
<1>19. item = iv
  <2>1. c.items = <<iv>>
    BY <1>8, <1>18 DEF Scanned
  <2>2. DOMAIN <<iv>> = 1 .. 1 /\ <<iv>>[1] = iv
    OBVIOUS
  <2>3. ToSet(<<iv>>) = {iv}
    BY <2>2 DEF ToSet
  <2>4. QED
    BY <1>7, <2>1, <2>3
<1>20. k = 2 /\ 1 \in 1 .. k /\ 2 \in 1 .. k
  BY <1>16, <1>19
<1>21. it # <<>>
  <2>1. it = <<>> => Len(it) = 0
    OBVIOUS
  <2>2. Len(it) = 2
    BY <1>16, <1>20
  <2>3. QED
    BY <2>1, <2>2
<1>22. it \in TablesIn
  BY <1>2, <1>3, <1>10, <1>13, <1>21, TablesScanned
<1>23. QED
  BY <1>16, <1>17, <1>19, <1>20, <1>22

\* What the code completes for is what is in scope: it looks for tables after the same
\* keywords, and aliases stand for tables in scope; where one has the name of such a
\* table, it stands for that.
LEMMA ScopeFacts ==
  ASSUME line \in Text, PlainNames, ScopeNames, InScope \subseteq DOMAIN Schema, OneTableEach, AliasesOwn,
         NEW map, map = BuildAliasMap(line)
  PROVE  /\ InScope \subseteq ToSet(NamedIn(line)) /\ ToSet(NamedIn(line)) \subseteq InScope \union KeyWords
         /\ Aliased(map) \subseteq InScope
         /\ \A a \in DOMAIN map : a \in InScope => map[a] = a
<1>1. PICK W \in Seq(Word) : W = Words(line)
  BY WordsAre
<1>2. PICK m \in Nat : m = Len(W)
  BY LenProperties
<1>3. ASSUME NEW x \in InScope PROVE x \in ToSet(NamedIn(line))
  BY <1>1, <1>2, ScopeHas, NamedHas
<1>4. ASSUME NEW x \in ToSet(NamedIn(line)) PROVE x \in InScope \union KeyWords
  <2>1. PICK p \in 1 .. m : p < m /\ W[p] \in TableWords /\ x = LastPart(W[p+1])
    BY <1>1, <1>2, NamedHas
  <2>2. CASE W[p+1] \in KeyWords
    BY <2>1, <2>2, KeywordWhole
  <2>3. CASE W[p+1] \notin KeyWords
    BY <1>1, <1>2, <2>1, <2>3, ScopeHas
  <2>4. QED
    BY <2>2, <2>3
<1>5. ASSUME NEW a \in DOMAIN map PROVE map[a] \in InScope /\ (a \in InScope => map[a] = a)
  <2>1. PICK item \in ToSet(TableItems(FixDanglingDots(line))) :
          Len(item) = 2 /\ item[2] = a /\ map[a] = LastPart(item[1])
    BY AliasFrom
  <2>2. PICK it \in TablesIn : /\ Len(it) = 2 /\ it[1] \in Word /\ it[2] \in Word
                               /\ FixedWord(it[1], item[1]) /\ FixedWord(it[2], item[2])
    BY <2>1, AliasScanned
  <2>3. LastPart(it[1]) \in InScope
    BY DEF InScope
  <2>4. LastPart(it[1]) # <<>>
    BY <2>3 DEF ScopeNames
  <2>5. item[1] = it[1]
    BY <2>2, <2>4, DanglingEmpty DEF FixedWord
  <2>6. map[a] = LastPart(it[1])
    BY <2>1, <2>5
  <2>7. ASSUME a \in InScope PROVE map[a] = a
    <3>1. a = it[2]
      <4>1. SUFFICES ASSUME a # it[2] PROVE FALSE
        OBVIOUS
      <4>2. PICK l \in Nat : l = Len(it[2])
        BY <2>2, LenProperties DEF Word, Text, Letters
      <4>3. l \in 1 .. l /\ it[2][l] = "." /\ Len(a) = l + 1 /\ \A j \in 1 .. l : a[j] = it[2][j]
        BY <2>1, <2>2, <4>1, <4>2 DEF FixedWord, DanglingDot
      <4>4. l \in 1 .. l + 1 /\ a[l] = "."
        BY <4>3
      <4>5. \A i \in 1 .. l + 1 : a[i] # "."
        BY <2>7, <4>3 DEF PlainNames
      <4>6. QED
        BY <4>4, <4>5
    <3>2. it[2] \notin InScope \ {LastPart(it[1])}
      BY <2>2 DEF AliasesOwn
    <3>3. QED
      BY <2>6, <2>7, <3>1, <3>2
  <2>8. QED
    BY <2>3, <2>6, <2>7
<1>6. Aliased(map) \subseteq InScope
  BY <1>5 DEF Aliased
<1>7. QED
  BY <1>3, <1>4, <1>5, <1>6

\* The columns of some tables.
ColumnsIn(T) == UNION {ToSet(ColumnsFor(t)) : t \in T}

\* The code strings them together.
LEMMA ColumnsHave ==
  ASSUME PlainNames, NEW S, NEW tables \in Seq(S)
  PROVE  ToSet(Flat(tables, ColumnsFor)) = ColumnsIn(ToSet(tables))
<1>1. PICK n \in Nat : n = Len(tables)
  BY LenProperties
<1>2. DOMAIN tables = 1 .. n
  BY <1>1, LenProperties
<1>3. PICK parts : parts = [i \in DOMAIN tables |-> ColumnsFor(tables[i])]
  OBVIOUS
<1>4. Flat(tables, ColumnsFor) = FlattenSeq(parts)
  BY <1>3 DEF Flat, Each
<1>5. \A i \in 1 .. n : parts[i] \in Seq(Word) /\ parts[i] = ColumnsFor(tables[i])
  BY <1>2, <1>3, ColumnsForIs
<1>6. parts = [i \in 1 .. n |-> parts[i]]
  BY <1>2, <1>3
<1>7. \A x : x \in ToSet(FlattenSeq(parts)) <=> \E i \in 1 .. n : x \in ToSet(parts[i])
  BY <1>5, <1>6, FlattenedSet
<1>8. \A x : x \in ColumnsIn(ToSet(tables)) <=> \E i \in 1 .. n : x \in ToSet(ColumnsFor(tables[i]))
  <2>1. \A t : t \in ToSet(tables) <=> \E i \in 1 .. n : t = tables[i]
    BY <1>2 DEF ToSet
  <2>2. \A x : x \in ColumnsIn(ToSet(tables)) <=> \E t \in ToSet(tables) : x \in ToSet(ColumnsFor(t))
    BY DEF ColumnsIn
  <2>3. QED
    BY <2>1, <2>2
<1>9. ASSUME NEW x PROVE x \in ToSet(FlattenSeq(parts)) <=> x \in ColumnsIn(ToSet(tables))
  BY <1>5, <1>7, <1>8
<1>10. QED
  BY <1>4, <1>9

\* After ON: those of the joined table and of the others.
LEMMA OnHas ==
  ASSUME PlainNames, NEW ctx, NEW S, ctx.left \in Seq(S)
  PROVE  ToSet(OnCompletions(ctx))
           = {[value |-> v, kind |-> "Column"] : v \in ColumnsIn({ctx.right} \union ToSet(ctx.left))}
<1>1. PICK right : right = ColumnsFor(ctx.right)
  OBVIOUS
<1>2. PICK left : left = Flat(ctx.left, ColumnsFor)
  OBVIOUS
<1>3. right \in Seq(Word) /\ left \in Seq(Word)
  BY <1>1, <1>2, ColumnsForIs, ColumnsOfAll
<1>4. PICK n \in Nat : n = Len(right)
  BY <1>3, LenProperties
<1>5. DOMAIN right = 1 .. n
  BY <1>3, <1>4, LenProperties
<1>6. PICK shared, own : /\ shared = Where(right, LAMBDA c : Contains(left, c))
                         /\ own = Where(right, LAMBDA c : ~Contains(left, c))
  OBVIOUS
<1>7. shared \in Seq(Word) /\ \A x : x \in ToSet(shared) <=> \E i \in 1 .. n : x = right[i] /\ Contains(left, x)
  <2>1. PICK parts : parts = [i \in DOMAIN right |-> IF Contains(left, right[i]) THEN <<right[i]>> ELSE <<>>]
    OBVIOUS
  <2>2. shared = FlattenSeq(parts)
    BY <1>6, <2>1 DEF Where, Flat, Each
  <2>3. \A i \in 1 .. n : parts[i] = <<>> \/ parts[i] = <<right[i]>>
    BY <1>5, <2>1
  <2>4. parts = [i \in 1 .. n |-> parts[i]]
    BY <1>5, <2>1
  <2>5. shared \in Seq(Word)
    BY <1>3, <1>4, <2>2, <2>3, <2>4, Sources
  <2>6. \A x : x \in ToSet(shared) <=> Passed(x, right, parts, n)
    BY <1>3, <1>4, <2>2, <2>3, <2>4, FilteredSet
  <2>7. \A i \in 1 .. n : parts[i] # <<>> <=> Contains(left, right[i])
    BY <1>5, <2>1
  <2>8. QED
    BY <2>5, <2>6, <2>7 DEF Passed
<1>8. own \in Seq(Word) /\ \A x : x \in ToSet(own) <=> \E i \in 1 .. n : x = right[i] /\ ~Contains(left, x)
  <2>1. PICK parts : parts = [i \in DOMAIN right |-> IF ~Contains(left, right[i]) THEN <<right[i]>> ELSE <<>>]
    OBVIOUS
  <2>2. own = FlattenSeq(parts)
    BY <1>6, <2>1 DEF Where, Flat, Each
  <2>3. \A i \in 1 .. n : parts[i] = <<>> \/ parts[i] = <<right[i]>>
    BY <1>5, <2>1
  <2>4. parts = [i \in 1 .. n |-> parts[i]]
    BY <1>5, <2>1
  <2>5. own \in Seq(Word)
    BY <1>3, <1>4, <2>2, <2>3, <2>4, Sources
  <2>6. \A x : x \in ToSet(own) <=> Passed(x, right, parts, n)
    BY <1>3, <1>4, <2>2, <2>3, <2>4, FilteredSet
  <2>7. \A i \in 1 .. n : parts[i] # <<>> <=> ~Contains(left, right[i])
    BY <1>5, <2>1
  <2>8. QED
    BY <2>5, <2>6, <2>7 DEF Passed
<1>9. ToSet(shared \o own \o left) = ToSet(right) \union ToSet(left)
  <2>1. PICK q : q = shared \o own
    OBVIOUS
  <2>2. q \in Seq(Word) /\ ToSet(q) = ToSet(shared) \union ToSet(own) /\ ToSet(q \o left) = ToSet(q) \union ToSet(left)
    <3>1. q \in Seq(Word)
      BY <1>7, <1>8, <2>1, ConcatProperties
    <3>2. ToSet(q) = ToSet(shared) \union ToSet(own)
      BY <1>7, <1>8, <2>1, ConcatSet
    <3>3. ToSet(q \o left) = ToSet(q) \union ToSet(left)
      BY <1>3, <3>1, ConcatSet
    <3>4. QED
      BY <3>1, <3>2, <3>3
  <2>3. ASSUME NEW x PROVE x \in ToSet(right) <=> x \in ToSet(shared) \/ x \in ToSet(own)
    <3>1. x \in ToSet(right) <=> \E i \in 1 .. n : x = right[i]
      BY <1>5 DEF ToSet
    <3>2. QED
      BY <1>7, <1>8, <3>1
  <2>4. QED
    BY <2>1, <2>2, <2>3
<1>10. OnCompletions(ctx) = As("Column", shared \o own \o left)
  BY <1>1, <1>2, <1>6 DEF OnCompletions
<1>11. ToSet(left) = ColumnsIn(ToSet(ctx.left))
  BY <1>2, ColumnsHave
<1>12. ColumnsIn({ctx.right} \union ToSet(ctx.left)) = ToSet(right) \union ToSet(left)
  <2>1. ASSUME NEW x PROVE x \in ColumnsIn({ctx.right} \union ToSet(ctx.left)) <=> x \in ToSet(right) \union ToSet(left)
    BY <1>1, <1>11 DEF ColumnsIn
  <2>2. QED
    BY <2>1
<1>13. QED
  BY <1>9, <1>10, <1>12, AsHas

\* The joined table and the others are the tables named, for what they stand.
LEMMA JoinHas ==
  ASSUME NEW s \in Text, NEW map, JoinContext(s, map) # <<>>
  PROVE  \E c : /\ JoinContext(s, map) = <<c>> /\ \E S : c.left \in Seq(S)
                /\ {c.right} \union ToSet(c.left) = {ResolveAlias(map, x) : x \in ToSet(NamedIn(s))}
<1>1. PICK words \in Seq(Word) : words = Words(s)
  BY WordsAre
<1>2. PICK last : last = SelectLastInSeq(words, LAMBDA w : w = <<"JOIN">>)
  OBVIOUS
<1>3. PICK right : right = ResolveAlias(map, LastPart(words[last+1]))
  OBVIOUS
<1>4. PICK after : after = After(s, TableWords)
  OBVIOUS
<1> DEFINE A == [at : Nat, name : Word]
<1>5. after \in Seq(A)
  BY <1>4, AfterIs
<1> HIDE DEF A
<1>6. PICK n \in Nat : n = Len(after)
  BY <1>5, LenProperties
<1>7. DOMAIN after = 1 .. n
  BY <1>5, <1>6, LenProperties
<1>8. PICK others : others = Where(after, LAMBDA w : w.at # last)
  OBVIOUS
<1>9. others \in Seq(A) /\ \A w : w \in ToSet(others) <=> w \in ToSet(after) /\ w.at # last
  <2>1. PICK parts : parts = [i \in DOMAIN after |-> IF after[i].at # last THEN <<after[i]>> ELSE <<>>]
    OBVIOUS
  <2>2. others = FlattenSeq(parts)
    BY <1>8, <2>1 DEF Where, Flat, Each
  <2>3. \A i \in 1 .. n : parts[i] = <<>> \/ parts[i] = <<after[i]>>
    BY <1>7, <2>1
  <2>4. parts = [i \in 1 .. n |-> parts[i]]
    BY <1>7, <2>1
  <2>5. others \in Seq(A)
    BY <1>5, <1>6, <2>2, <2>3, <2>4, Sources
  <2>6. \A w : w \in ToSet(others) <=> Passed(w, after, parts, n)
    BY <1>5, <1>6, <2>2, <2>3, <2>4, FilteredSet
  <2>7. \A i \in 1 .. n : parts[i] # <<>> <=> after[i].at # last
    BY <1>7, <2>1
  <2>8. ASSUME NEW w PROVE w \in ToSet(others) <=> w \in ToSet(after) /\ w.at # last
    <3>1. w \in ToSet(after) <=> \E i \in 1 .. n : w = after[i]
      BY <1>7 DEF ToSet
    <3>2. QED
      BY <2>6, <2>7, <3>1 DEF Passed
  <2>9. QED
    BY <2>5, <2>8
<1>10. PICK m \in Nat : m = Len(others)
  BY <1>9, LenProperties
<1>11. DOMAIN others = 1 .. m
  BY <1>9, <1>10, LenProperties
<1>12. PICK tables : tables = [i \in DOMAIN others |-> ResolveAlias(map, others[i].name)]
  OBVIOUS
<1>13. PICK S : S = {tables[i] : i \in 1 .. m}
  OBVIOUS
<1>14. tables \in Seq(S) /\ Len(tables) = m /\ DOMAIN tables = 1 .. m
  <2>1. tables \in [1 .. m -> S]
    BY <1>11, <1>12, <1>13
  <2>2. QED
    BY <2>1, FunctionIsSeq, LenProperties
<1>15. PICK left : left = Where(tables, LAMBDA t : t # right)
  OBVIOUS
<1>16. left \in Seq(S) /\ \A t : t \in ToSet(left) <=> t \in ToSet(tables) /\ t # right
  <2>1. PICK parts : parts = [i \in DOMAIN tables |-> IF tables[i] # right THEN <<tables[i]>> ELSE <<>>]
    OBVIOUS
  <2>2. left = FlattenSeq(parts)
    BY <1>15, <2>1 DEF Where, Flat, Each
  <2>3. \A i \in 1 .. m : parts[i] = <<>> \/ parts[i] = <<tables[i]>>
    BY <1>14, <2>1
  <2>4. parts = [i \in 1 .. m |-> parts[i]]
    BY <1>14, <2>1
  <2>5. left \in Seq(S)
    BY <1>14, <2>2, <2>3, <2>4, Sources
  <2>6. \A t : t \in ToSet(left) <=> Passed(t, tables, parts, m)
    BY <1>14, <2>2, <2>3, <2>4, FilteredSet
  <2>7. \A i \in 1 .. m : parts[i] # <<>> <=> tables[i] # right
    BY <1>14, <2>1
  <2>8. ASSUME NEW t PROVE t \in ToSet(left) <=> t \in ToSet(tables) /\ t # right
    <3>1. t \in ToSet(tables) <=> \E i \in 1 .. m : t = tables[i]
      BY <1>14 DEF ToSet
    <3>2. QED
      BY <2>6, <2>7, <3>1 DEF Passed
  <2>9. QED
    BY <2>5, <2>8
<1>17. \A t : t \in ToSet(tables) <=> \E w \in ToSet(others) : t = ResolveAlias(map, w.name)
  BY <1>11, <1>12 DEF ToSet
<1>18. JoinContext(s, map) = IF last = 0 \/ last = Len(words) THEN <<>> ELSE <<[right |-> right, left |-> left]>>
  BY <1>1, <1>2, <1>3, <1>4, <1>8, <1>12, <1>15 DEF JoinContext, Each, TableWords
<1>19. JoinContext(s, map) = <<[right |-> right, left |-> left]>> /\ last # 0 /\ last # Len(words)
  BY <1>18
<1>20. PICK l \in Nat : l = Len(words) /\ DOMAIN words = 1 .. l
  BY LenProperties
<1>21. last \in 1 .. l /\ last < l /\ words[last] \in TableWords
  <2>1. PICK T : T = {i \in 1 .. l : words[i] = <<"JOIN">>}
    OBVIOUS
  <2>2. last = IF T # {} THEN Max(T) ELSE 0
    BY <1>2, <1>20, <2>1 DEF SelectLastInSeq
  <2>3. T # {} /\ T \subseteq 0 .. l /\ last = Max(T)
    BY <1>19, <2>1, <2>2
  <2>4. \E k \in T : \A i \in T : k >= i
    <3>1. PICK k \in T : \A i \in T : i <= k
      BY <2>3, GreatestPlace
    <3>2. QED
      BY <2>3, <3>1
  <2>5. last \in T
    BY <2>3, <2>4 DEF Max
  <2>6. QED
    BY <1>19, <1>20, <2>1, <2>5 DEF TableWords
<1>22. \A w : w \in ToSet(after) <=> \E p \in 1 .. l : p < l /\ words[p] \in TableWords /\ w = Follower(words, p)
  BY <1>1, <1>4, <1>20, AfterHas
<1>23. \A x : x \in ToSet(NamedIn(s)) <=> \E p \in 1 .. l : p < l /\ words[p] \in TableWords /\ x = LastPart(words[p+1])
  BY <1>1, <1>20, NamedHas
<1>24. \A p : Follower(words, p).at = p /\ Follower(words, p).name = LastPart(words[p+1])
  BY DEF Follower
<1>25. ASSUME NEW t PROVE (t = right \/ t \in ToSet(left)) <=> \E x \in ToSet(NamedIn(s)) : t = ResolveAlias(map, x)
  <2>1. LastPart(words[last+1]) \in ToSet(NamedIn(s))
    BY <1>21, <1>23
  <2>2. ASSUME t \in ToSet(left) PROVE \E x \in ToSet(NamedIn(s)) : t = ResolveAlias(map, x)
    <3>1. PICK w \in ToSet(others) : t = ResolveAlias(map, w.name)
      BY <1>16, <1>17, <2>2
    <3>2. PICK p \in 1 .. l : p < l /\ words[p] \in TableWords /\ w = Follower(words, p)
      BY <1>9, <1>22, <3>1
    <3>3. w.name \in ToSet(NamedIn(s))
      BY <1>23, <1>24, <3>2
    <3>4. QED
      BY <3>1, <3>3
  <2>3. ASSUME NEW x \in ToSet(NamedIn(s)), t = ResolveAlias(map, x), t # right PROVE t \in ToSet(left)
    <3>1. PICK p \in 1 .. l : p < l /\ words[p] \in TableWords /\ x = LastPart(words[p+1])
      BY <1>23
    <3>2. p # last
      BY <1>3, <2>3, <3>1
    <3>3. PICK w : w = Follower(words, p)
      OBVIOUS
    <3>4. w \in ToSet(others) /\ w.name = x
      BY <1>9, <1>22, <1>24, <3>1, <3>2, <3>3
    <3>5. QED
      BY <1>16, <1>17, <2>3, <3>4
  <2>4. QED
    BY <1>3, <2>1, <2>2, <2>3
<1>26. PICK c : c = [right |-> right, left |-> left]
  OBVIOUS
<1>27. c.left = left /\ c.right = right
  BY <1>26
<1>28. {right} \union ToSet(left) = {ResolveAlias(map, x) : x \in ToSet(NamedIn(s))}
  BY <1>25
<1>29. QED
  BY <1>16, <1>19, <1>26, <1>27, <1>28

\* What ScopeIsExact asks of the tables of the text.
ScopeClear ==
  line \in Text /\ InScope # {} /\ InScope \subseteq DOMAIN Schema /\ OneTableEach /\ AliasesOwn

\* The tables completed for, and those they stand for, have the columns in scope.
LEMMA ScopeColumns ==
  ASSUME PlainNames, ScopeNames, ScopeClear, NEW map, map = BuildAliasMap(line),
         NEW named, named = ToSet(NamedIn(line))
  PROVE  /\ InScope \subseteq named
         /\ ColumnsIn(named \union Aliased(map)) = ColumnsIn(InScope)
         /\ ColumnsIn({ResolveAlias(map, x) : x \in named}) = ColumnsIn(InScope)
         /\ ColumnsIn(InScope) = UNION {ToSet(Schema[t]) : t \in InScope}
         /\ \A v \in ColumnsIn(InScope) : ~Dotted(v)
<1>1. line \in Text /\ InScope \subseteq DOMAIN Schema /\ OneTableEach /\ AliasesOwn
  BY DEF ScopeClear
<1>2. /\ InScope \subseteq named /\ named \subseteq InScope \union KeyWords
      /\ Aliased(map) \subseteq InScope
      /\ \A a \in DOMAIN map : a \in InScope => map[a] = a
  BY <1>1, ScopeFacts
<1>3. ASSUME NEW T, NEW v PROVE v \in ColumnsIn(T) <=> \E t \in T : v \in ToSet(ColumnsFor(t))
  BY DEF ColumnsIn
<1>4. ASSUME NEW t \in KeyWords, NEW v PROVE v \notin ToSet(ColumnsFor(t))
  <2>1. t \notin DOMAIN Schema
    BY DEF ScopeNames
  <2>2. ColumnsFor(t) = <<>>
    BY <2>1 DEF ColumnsFor
  <2>3. DOMAIN ColumnsFor(t) = {}
    BY <2>2
  <2>4. QED
    BY <2>3 DEF ToSet
<1>5. ColumnsIn(named \union Aliased(map)) = ColumnsIn(InScope)
  <2>1. ASSUME NEW v PROVE v \in ColumnsIn(named \union Aliased(map)) <=> v \in ColumnsIn(InScope)
    BY <1>2, <1>3, <1>4
  <2>2. QED
    BY <2>1
<1>6. ASSUME NEW v PROVE v \in ColumnsIn({ResolveAlias(map, x) : x \in named}) <=> v \in ColumnsIn(InScope)
  <2>1. ASSUME v \in ColumnsIn({ResolveAlias(map, x) : x \in named}) PROVE v \in ColumnsIn(InScope)
    <3>1. PICK x \in named : v \in ToSet(ColumnsFor(ResolveAlias(map, x)))
      BY <1>3, <2>1
    <3>2. CASE x \in DOMAIN map
      <4>1. ResolveAlias(map, x) = map[x] /\ map[x] \in Aliased(map)
        BY <3>2 DEF ResolveAlias, Aliased
      <4>2. QED
        BY <1>2, <1>3, <3>1, <4>1
    <3>3. CASE x \notin DOMAIN map
      <4>1. ResolveAlias(map, x) = x
        BY <3>3 DEF ResolveAlias
      <4>2. QED
        BY <1>2, <1>3, <1>4, <3>1, <4>1
    <3>4. QED
      BY <3>2, <3>3
  <2>2. ASSUME v \in ColumnsIn(InScope) PROVE v \in ColumnsIn({ResolveAlias(map, x) : x \in named})
    <3>1. PICK t \in InScope : v \in ToSet(ColumnsFor(t))
      BY <1>3, <2>2
    <3>2. ResolveAlias(map, t) = t
      BY <1>2 DEF ResolveAlias
    <3>3. t \in {ResolveAlias(map, x) : x \in named}
      BY <1>2, <3>2
    <3>4. QED
      BY <1>3, <3>1, <3>3
  <2>3. QED
    BY <2>1, <2>2
<1>7. \A t \in InScope : ColumnsFor(t) = Schema[t]
  BY <1>1 DEF ColumnsFor
<1>8. ColumnsIn(InScope) = UNION {ToSet(Schema[t]) : t \in InScope}
  BY <1>7 DEF ColumnsIn
<1>9. \A v \in ColumnsIn(InScope) : ~Dotted(v)
  BY <1>1, <1>8 DEF ScopeNames
<1>10. QED
  BY <1>2, <1>5, <1>6, <1>8, <1>9

\* A name behind a qualifier has a dot.
LEMMA QualifiedDotted ==
  ASSUME NEW q \in Word, NEW col \in Word
  PROVE  Dotted(q \o <<".">> \o col)
<1>1. PICK m \in Nat, n \in Nat : m = Len(q) /\ n = Len(col)
  BY LenProperties DEF Word, Text, Letters
<1>2. q \in Seq(Letters) /\ col \in Seq(Letters)
  BY DEF Word, Text, Letters
<1>3. PICK dot : dot = <<".">>
  OBVIOUS
<1>4. dot \in Seq(Letters) /\ Len(dot) = 1 /\ dot[1] = "."
  BY <1>3, CompletionAssumption DEF Letters
<1>5. PICK u : u = q \o dot
  OBVIOUS
<1>6. u \in Seq(Letters) /\ Len(u) = Len(q) + Len(dot) /\ Stands(u, Len(q), dot)
  BY <1>2, <1>4, <1>5, Joined
<1>7. Len(u) = m + 1 /\ u[m+1] = "."
  BY <1>1, <1>4, <1>6 DEF Stands
<1>8. PICK w : w = u \o col
  OBVIOUS
<1>9. w \in Seq(Letters) /\ Len(w) = Len(u) + Len(col) /\ Stands(w, 0, u)
  BY <1>2, <1>6, <1>8, Joined
<1>10. m + 1 \in 1 .. Len(w) /\ w[m+1] = "."
  BY <1>1, <1>7, <1>9 DEF Stands
<1>11. Dotted(w)
  BY <1>10 DEF Dotted, Contains
<1>12. QED
  BY <1>3, <1>5, <1>8, <1>11

\* Of the names of columns, those without a dot are the columns.
LEMMA NamesPlain ==
  ASSUME PlainNames, NEW map, AliasMap(map), NEW t, NEW v, ~Dotted(v)
  PROVE  v \in NamesOf(t, map) <=> v \in ToSet(ColumnsFor(t))
<1>1. ColumnsFor(t) \in Seq(Word) /\ (ColumnsFor(t) # <<>> => t \in Word)
  BY ColumnsForIs
<1>2. ASSUME NEW col \in ToSet(ColumnsFor(t)) PROVE col \in Word /\ t \in Word
  <2>1. PICK n \in Nat : n = Len(ColumnsFor(t)) /\ DOMAIN ColumnsFor(t) = 1 .. n
    BY <1>1, LenProperties
  <2>2. PICK i \in 1 .. n : col = ColumnsFor(t)[i]
    BY <2>1 DEF ToSet
  <2>3. ColumnsFor(t) # <<>>
    BY <2>1, <2>2
  <2>4. QED
    BY <1>1, <2>1, <2>2, <2>3, ElementOfSeq
<1>3. v \in NamesOf(t, map) <=> \E col \in ToSet(ColumnsFor(t)) : v \in FormsOf(t, col, map)
  BY DEF NamesOf
<1>4. ASSUME NEW col \in ToSet(ColumnsFor(t)) PROVE v \in FormsOf(t, col, map) <=> v = col
  <2>1. v # t \o <<".">> \o col
    BY <1>2, QualifiedDotted
  <2>2. \A a \in DOMAIN map : v # a \o <<".">> \o col
    BY <1>2, QualifiedDotted DEF AliasMap
  <2>3. QED
    BY <2>1, <2>2 DEF FormsOf
<1>5. QED
  BY <1>3, <1>4

\* The test of a beginning leaves the candidates that begin with it.
Begins(prefix, c) == IsPrefix(prefix, c.value)
WithPrefix(s, prefix) == Where(s, LAMBDA c : IsPrefix(prefix, c.value))
LEMMA BeginningHas ==
  ASSUME NEW S, NEW s \in Seq(S), NEW prefix, NEW r, r = WithPrefix(s, prefix)
  PROVE  r \in Seq(S) /\ ToSet(r) = {c \in ToSet(s) : Begins(prefix, c)}
<1>1. PICK n \in Nat : n = Len(s)
  BY LenProperties
<1>2. DOMAIN s = 1 .. n
  BY <1>1, LenProperties
<1>3. PICK parts : parts = [i \in DOMAIN s |-> IF Begins(prefix, s[i]) THEN <<s[i]>> ELSE <<>>]
  OBVIOUS
<1>4. r = FlattenSeq(parts)
  BY <1>3 DEF WithPrefix, Where, Flat, Each, Begins
<1>5. \A i \in 1 .. n : parts[i] = <<>> \/ parts[i] = <<s[i]>>
  BY <1>2, <1>3
<1>6. parts = [i \in 1 .. n |-> parts[i]]
  BY <1>2, <1>3
<1>7. FlattenSeq(parts) \in Seq(S)
  BY <1>1, <1>5, <1>6, Sources
<1>8. ASSUME NEW x PROVE x \in ToSet(FlattenSeq(parts)) <=> Passed(x, s, parts, n)
  BY <1>1, <1>5, <1>6, FilteredSet
<1>9. \A i \in 1 .. n : parts[i] # <<>> <=> Begins(prefix, s[i])
  BY <1>2, <1>3
<1>10. ASSUME NEW x PROVE x \in ToSet(FlattenSeq(parts)) <=> x \in ToSet(s) /\ Begins(prefix, x)
  <2>1. x \in ToSet(s) <=> \E i \in 1 .. n : x = s[i]
    BY <1>2 DEF ToSet
  <2>2. x \in ToSet(FlattenSeq(parts)) <=> \E i \in 1 .. n : parts[i] # <<>> /\ x = s[i]
    BY <1>8 DEF Passed
  <2>3. QED
    BY <1>9, <2>1, <2>2
<1>11. QED
  BY <1>4, <1>7, <1>10

\* Columns are of one kind.
LEMMA QualifiedAlike ==
  ASSUME NEW tables, NEW map, NEW order
  PROVE  Alike(QualifiedColumnCompletions(tables, map, order))
<1>1. "Column" \in Kinds
  BY DEF Kinds
<1>2. \E names : QualifiedColumnCompletions(tables, map, order) = As("Column", names)
  BY Zenon DEF QualifiedColumnCompletions
<1>3. QED
  BY <1>1, <1>2, AsAlike

\* Behind a word for columns, the plain names of what is found are the columns in scope.
PlainAre(found, T) == \A v : ~Dotted(v) => ((\E c \in ToSet(found) : c.value = v) <=> v \in T)
LEMMA FoundInScope ==
  ASSUME PlainNames, ScopeNames, ScopeClear, NEW map, map = BuildAliasMap(line), NEW order \in Orders(line),
         NEW trigger, trigger \in {<<k>> : k \in ColumnTriggers}, NEW found,
         found = CandidatesForTrigger(trigger, TableRefs(line, map, order), JoinContext(line, map), map, order)
  PROVE  /\ found \in Seq(Candidate) /\ PlainAre(found, ColumnsIn(InScope))
         /\ trigger # <<"ON">> => Alike(found)
<1>1. line \in Text /\ InScope # {}
  BY DEF ScopeClear
<1>2. AliasMap(map) /\ order \in Seq(DOMAIN map) /\ ToSet(order) = DOMAIN map
  BY <1>1, MapIs, OrderIs, OrdersHave
<1>3. PICK r, ctx, named : r = TableRefs(line, map, order) /\ ctx = JoinContext(line, map) /\ named = ToSet(NamedIn(line))
  OBVIOUS
<1>4. /\ InScope \subseteq named
      /\ ColumnsIn(named \union Aliased(map)) = ColumnsIn(InScope)
      /\ ColumnsIn({ResolveAlias(map, x) : x \in named}) = ColumnsIn(InScope)
  BY <1>3, ScopeColumns
<1>5. r \in Seq(Word) /\ ToSet(r) = named \union Aliased(map)
  <2>1. PICK e : Refs(r, line, map, e)
    BY <1>1, <1>2, <1>3, RefsHave
  <2>2. PICK names \in Seq(Word) : names = NamedIn(line)
    BY <2>1 DEF Refs
  <2>3. r = names \o e /\ e \in Seq(Word) /\ ToSet(e) = Aliased(map) \ named
    BY <1>3, <2>1, <2>2 DEF Refs
  <2>4. r \in Seq(Word) /\ ToSet(r) = ToSet(names) \union ToSet(e)
    BY <2>3, ConcatProperties, ConcatSet
  <2>5. QED
    BY <1>3, <2>2, <2>3, <2>4
<1>6. PICK n \in Nat : n = Len(r) /\ DOMAIN r = 1 .. n /\ n # 0
  <2>1. PICK n \in Nat : n = Len(r) /\ DOMAIN r = 1 .. n
    BY <1>5, LenProperties
  <2>2. ToSet(r) # {}
    BY <1>1, <1>4, <1>5
  <2>3. DOMAIN r # {}
    BY <2>2 DEF ToSet
  <2>4. QED
    BY <2>1, <2>3
<1>7. r # <<>>
  BY <1>5, <1>6, EmptySeq
<1>8. found = CandidatesForTrigger(trigger, r, ctx, map, order)
  BY <1>3
<1>9. found \in Seq(Candidate)
  BY <1>1, <1>2, <1>3, <1>5, <1>8, OfferedIs
<1>10. trigger \notin {<<k>> : k \in TableTriggers}
  BY DEF ColumnTriggers, TableTriggers
<1>11. ASSUME NEW T, ToSet(found) = {[value |-> v, kind |-> "Column"] : v \in T}, NEW v
       PROVE  (\E c \in ToSet(found) : c.value = v) <=> v \in T
  <2>1. ASSUME v \in T PROVE \E c \in ToSet(found) : c.value = v
    <3>1. PICK c : c = [value |-> v, kind |-> "Column"]
      OBVIOUS
    <3>2. c \in ToSet(found) /\ c.value = v
      BY <1>11, <2>1, <3>1
    <3>3. QED
      BY <3>2
  <2>2. ASSUME NEW c \in ToSet(found), c.value = v PROVE v \in T
    <3>1. PICK w \in T : c = [value |-> w, kind |-> "Column"]
      BY <1>11
    <3>2. QED
      BY <2>2, <3>1
  <2>3. QED
    BY <2>1, <2>2
<1>12. CASE trigger = <<"ON">>
  <2>1. trigger # <<"SELECT">> /\ trigger \notin {<<"WHERE">>, <<"SET">>, <<"BY">>}
    BY <1>12
  <2>2. found = IF ctx # <<>> THEN OnCompletions(ctx[1])
                ELSE IF r = <<>> THEN KeywordCompletions ELSE ColumnCompletions(r)
    BY <1>8, <1>10, <1>12, <2>1 DEF CandidatesForTrigger
  <2>3. CASE ctx # <<>>
    <3>0. JoinContext(line, map) # <<>>
      BY <1>3, <2>3
    <3>1. PICK c : /\ JoinContext(line, map) = <<c>> /\ \E S : c.left \in Seq(S)
                   /\ {c.right} \union ToSet(c.left) = {ResolveAlias(map, x) : x \in ToSet(NamedIn(line))}
      BY <1>1, <3>0, JoinHas
    <3>2. found = OnCompletions(c)
      BY <1>3, <2>2, <2>3, <3>1
    <3>3. ToSet(found) = {[value |-> v, kind |-> "Column"] : v \in ColumnsIn({c.right} \union ToSet(c.left))}
      BY <3>1, <3>2, OnHas
    <3>4. ToSet(found) = {[value |-> v, kind |-> "Column"] : v \in ColumnsIn(InScope)}
      BY <1>3, <1>4, <3>1, <3>3
    <3>5. QED
      BY <1>9, <1>11, <1>12, <3>4 DEF PlainAre
  <2>4. CASE ctx = <<>>
    <3>1. found = ColumnCompletions(r)
      BY <1>7, <2>2, <2>4
    <3>2. ToSet(Flat(r, ColumnsFor)) = ColumnsIn(InScope)
      BY <1>4, <1>5, ColumnsHave
    <3>3. ToSet(found) = {[value |-> v, kind |-> "Column"] : v \in ColumnsIn(InScope)}
      BY <3>1, <3>2, AsHas DEF ColumnCompletions
    <3>4. QED
      BY <1>9, <1>11, <1>12, <3>3 DEF PlainAre
  <2>5. QED
    BY <2>3, <2>4
<1>13. CASE trigger # <<"ON">>
  <2>1. found = QualifiedColumnCompletions(r, map, order)
    <3>1. CASE trigger = <<"SELECT">>
      <4>1. trigger \notin {<<"WHERE">>, <<"SET">>, <<"BY">>}
        BY <3>1
      <4>2. QED
        BY <1>7, <1>8, <1>10, <3>1, <4>1 DEF CandidatesForTrigger
    <3>2. CASE trigger \in {<<"WHERE">>, <<"SET">>, <<"BY">>}
      <4>1. trigger # <<"SELECT">>
        BY <3>2
      <4>2. r \o Sorted # <<>>
        <5>1. PICK S : S = Word \union DOMAIN Schema
          OBVIOUS
        <5>2. r \in Seq(S) /\ Sorted \in Seq(S)
          <6>1. Word \subseteq S /\ DOMAIN Schema \subseteq S /\ Sorted \in Seq(DOMAIN Schema)
            BY <5>1, CompletionAssumption
          <6>2. QED
            BY <1>5, <6>1, SeqMonotonic
        <5>3. PICK u : u = r \o Sorted
          OBVIOUS
        <5>4. PICK k \in Nat : k = Len(Sorted)
          BY <5>2, LenProperties
        <5>5. u \in Seq(S) /\ Len(u) = n + k
          BY <1>6, <5>2, <5>3, <5>4, ConcatProperties
        <5>6. u = <<>> => n + k = 0
          BY <5>5, EmptySeq
        <5>7. QED
          BY <1>6, <5>3, <5>6
      <4>3. found = IF r \o Sorted = <<>> THEN KeywordCompletions
                    ELSE QualifiedColumnCompletions(IF r = <<>> THEN Sorted ELSE r, map, order)
        BY <1>8, <1>10, <1>13, <3>2, <4>1 DEF CandidatesForTrigger
      <4>4. QED
        BY <1>7, <4>2, <4>3
    <3>3. QED
      BY <1>13, <3>1, <3>2 DEF ColumnTriggers
  <2>2. Alike(found)
    <3>1. "Column" \in Kinds
      BY DEF Kinds
    <3>2. QED
      BY <2>1, <3>1, QualifiedAlike
  <2>3. PICK T : T = UNION {NamesOf(t, map) : t \in ToSet(r)}
    OBVIOUS
  <2>4. ToSet(found) = {[value |-> v, kind |-> "Column"] : v \in T}
    BY <1>2, <1>5, <2>1, <2>3, QualifiedHas
  <2>5. ASSUME NEW v, ~Dotted(v) PROVE v \in T <=> v \in ColumnsIn(InScope)
    <3>1. \A t : v \in NamesOf(t, map) <=> v \in ToSet(ColumnsFor(t))
      BY <1>2, <2>5, NamesPlain
    <3>2. v \in T <=> \E t \in ToSet(r) : v \in ToSet(ColumnsFor(t))
      BY <2>3, <3>1
    <3>3. v \in T <=> v \in ColumnsIn(ToSet(r))
      BY <3>2 DEF ColumnsIn
    <3>4. QED
      BY <1>4, <1>5, <3>3
  <2>6. ASSUME NEW v, ~Dotted(v) PROVE (\E c \in ToSet(found) : c.value = v) <=> v \in ColumnsIn(InScope)
    BY <1>11, <2>4, <2>5, <2>6
  <2>7. QED
    BY <1>9, <2>2, <2>6 DEF PlainAre
<1>14. QED
  BY <1>12, <1>13

\* What is offered of it are those that begin with what was typed.
LEMMA OfferedInScope ==
  ASSUME PlainNames, ScopeNames, ScopeClear, NEW map, map = BuildAliasMap(line), NEW order \in Orders(line),
         NEW input, ~Dotted(Token(input)), NEW trigger, trigger = Trigger(input),
         trigger \in {<<k>> : k \in ColumnTriggers}, NEW list, list = Candidates(line, input, trigger, map, order),
         NEW v, ~Dotted(v)
  PROVE  v \in ToSet(Values(list)) <=> v \in ColumnsIn(InScope) /\ IsPrefix(Prefix(input), v)
<1>1. PICK found : found = CandidatesForTrigger(trigger, TableRefs(line, map, order), JoinContext(line, map), map, order)
  OBVIOUS
<1>2. PICK token, prefix : token = Token(input) /\ prefix = Prefix(input)
  OBVIOUS
<1>3. ~Dotted(token) /\ list = QueryCompletions(trigger, token, prefix, found, map)
  BY <1>1, <1>2 DEF Candidates
<1>4. found \in Seq(Candidate) /\ PlainAre(found, ColumnsIn(InScope)) /\ (trigger # <<"ON">> => Alike(found))
  BY <1>1, FoundInScope
<1>5. ASSUME NEW c, c.value = v
      PROVE  c \in ToSet(list) <=> c \in ToSet(found) /\ IsPrefix(prefix, v)
  <2>1. CASE trigger = <<"ON">>
    <3>1. PICK r : r = WithPrefix(found, prefix)
      OBVIOUS
    <3>2. r \in Seq(Candidate) /\ ToSet(r) = {d \in ToSet(found) : Begins(prefix, d)}
      BY <1>4, <3>1, BeginningHas
    <3>3. list = Distinct(r)
      BY <1>3, <2>1, <3>1 DEF QueryCompletions, WithPrefix
    <3>4. ToSet(list) = ToSet(r)
      BY <3>2, <3>3, DistinctHas
    <3>5. Begins(prefix, c) <=> IsPrefix(prefix, v)
      BY <1>5 DEF Begins
    <3>6. QED
      BY <3>2, <3>4, <3>5
  <2>2. CASE trigger # <<"ON">>
    <3>1. PICK r, k : r = Filter(found, prefix) /\ k = Rank(r)
      OBVIOUS
    <3>2. r \in Seq(Candidate) /\ ToSet(r) = {d \in ToSet(found) : Passes(prefix, d)}
      BY <1>4, <3>1, FilterHas
    <3>3. k \in Seq(Candidate) /\ Ordered(k) /\ ToSet(k) = ToSet(r)
      BY <3>1, <3>2, RankIs, RankOrders
    <3>4. Alike(k)
      BY <1>4, <2>2, <3>2, <3>3 DEF Alike
    <3>5. list = Dedup(k)
      BY <1>3, <2>2, <3>1 DEF QueryCompletions
    <3>6. ToSet(list) = ToSet(k)
      BY <3>3, <3>4, <3>5, DedupRises
    <3>7. Passes(prefix, c) <=> IsPrefix(prefix, v)
      BY <1>5 DEF Passes
    <3>8. QED
      BY <3>2, <3>3, <3>6, <3>7
  <2>3. QED
    BY <2>1, <2>2
<1>6. v \in ToSet(Values(list)) <=> \E c \in ToSet(list) : c.value = v
  BY DEF Values, Each, ToSet
<1>7. (\E c \in ToSet(list) : c.value = v) <=> (\E c \in ToSet(found) : c.value = v) /\ IsPrefix(prefix, v)
  BY <1>5
<1>8. (\E c \in ToSet(found) : c.value = v) <=> v \in ColumnsIn(InScope)
  BY <1>4 DEF PlainAre
<1>9. QED
  BY <1>2, <1>6, <1>7, <1>8

\* So it is at any cursor of any line.
LEMMA ScopeKept ==
  ASSUME PlainNames, ScopeNames, line \in Text
  PROVE  ScopeIsExact
<1>1. SUFFICES ASSUME ~IsPrefix(<<"\\d", Blank>>, Input),
                      Trigger(Input) \in {<<k>> : k \in ColumnTriggers}, ~Dotted(Token(Input)),
                      InScope # {}, InScope \subseteq DOMAIN Schema, OneTableEach, AliasesOwn,
                      NEW list \in Completions(line, pos)
               PROVE  {v \in ToSet(Values(list)) : ~Dotted(v)}
                        = {c \in UNION {ToSet(Schema[t]) : t \in InScope} : IsPrefix(Prefix(Input), c)}
  BY DEF ScopeIsExact
<1>2. ScopeClear
  BY <1>1 DEF ScopeClear
<1>3. PICK input, trigger, map : input = Input /\ trigger = Trigger(input) /\ map = BuildAliasMap(line)
  OBVIOUS
<1>4. Completions(line, pos) = {Candidates(line, input, Trigger(input), map, order) : order \in Orders(line)}
  <2>1. input = SubSeq(line, 1, pos) /\ ~IsPrefix(<<"\\d", Blank>>, input)
    BY <1>1, <1>3 DEF Input
  <2>2. QED
    BY <1>3, <2>1 DEF Completions
<1>5. PICK order \in Orders(line) : list = Candidates(line, input, trigger, map, order)
  BY <1>1, <1>3, <1>4
<1>6. ~Dotted(Token(input)) /\ trigger \in {<<k>> : k \in ColumnTriggers}
  BY <1>1, <1>3
<1>7. ASSUME NEW v, ~Dotted(v)
      PROVE  v \in ToSet(Values(list)) <=> v \in ColumnsIn(InScope) /\ IsPrefix(Prefix(input), v)
  BY <1>2, <1>3, <1>5, <1>6, <1>7, OfferedInScope
<1>8. /\ ColumnsIn(InScope) = UNION {ToSet(Schema[t]) : t \in InScope}
      /\ \A v \in ColumnsIn(InScope) : ~Dotted(v)
  <2>1. PICK named : named = ToSet(NamedIn(line))
    OBVIOUS
  <2>2. QED
    BY <1>2, <1>3, <2>1, ScopeColumns
<1>9. QED
  BY <1>3, <1>7, <1>8

\* Behind SELECT, WHERE, SET, BY and ON the columns offered are exactly those of the
\* tables in FROM, JOIN and UPDATE that begin with what was typed, when the tables are
\* no list and no alias is the name of another of them, whatever the line, the cursor,
\* the alphabet and the frequencies, for a schema of names that need no quotes
\* (completer.rs, query_completion.rs, alias.rs).
THEOREM ScopeExact ==
  ASSUME PlainNames, ScopeNames
  PROVE  CompletionSpec => []ScopeIsExact
<1>1. CompletionInit => PromptInv
  BY PromptInit
<1>2. PromptInv /\ [CompletionNext]_completionVars => PromptInv'
  BY PromptStep
<1>3. PromptInv => ScopeIsExact
  <2>1. PromptInv => line \in Text
    BY DEF PromptInv, LineIs
  <2>2. QED
    BY <2>1, ScopeKept
<1>4. QED
  BY <1>1, <1>2, <1>3, PTL DEF CompletionSpec
=============================================================================
