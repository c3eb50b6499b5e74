---------------------------- MODULE History_proofs ----------------------------
(***************************************************************************)
(* What History says of the line histories that shells share, of the query *)
(* history that is listed and saved from, and of the ranks of the tables   *)
(* holds for any shells, connections, statements, capacities, faults and   *)
(* bounds.                                                                 *)
(***************************************************************************)
EXTENDS History, FiniteSetTheorems, SequenceTheorems, WellFoundedInduction, TLAPS

-----------------------------------------------------------------------------
(* The inductive invariant                                                  *)

Lines == Queries \union {Command}

IsEditor(ed) ==
  /\ ed \in [conn : Conns, entries : Seq(Lines), onDisk : Nat,
             tables : {ed.tables}, columns : {ed.columns}, listed : {ed.listed}]
  /\ Len(ed.entries) <= Capacity /\ ed.onDisk <= Len(ed.entries)

FilesOK ==
  /\ lines \in Nat
  /\ DOMAIN file = Files /\ \A f \in Files : file[f] \in Seq(Lines) /\ Len(file[f]) <= Capacity
  /\ DOMAIN shell = Shells
  /\ \A s \in Shells : shell[s] # <<>> => shell[s] = <<shell[s][1]>> /\ IsEditor(shell[s][1])
  /\ typed \in [Shells -> SUBSET Lines] /\ left \in [Files -> SUBSET Lines]

HistoryOK ==
  /\ clock \in Nat
  /\ history \in Seq([conn : Conns, query : Queries, at : Nat])
  /\ ran \in [Conns -> [Queries -> [times : Nat, last : Nat]]]
  /\ saved \subseteq [conn : Conns, name : Names, sql : Queries]

TodoOK ==
  /\ todo \in [Shells -> [refs : SUBSET Refs, rebuild : BOOLEAN]]
  /\ \A s \in Shells : shell[s] = <<>> => todo[s] = Idle

TypeOK == FilesOK /\ HistoryOK /\ TodoOK

\* The lines that are kept somewhere: in a file, or by an editor that has still
\* to write them.  Each is a place of its own.
Slots(inFile, own) ==
  {x \in {"file"} \X Files \X (1..Capacity) : x[3] <= inFile[x[2]]}
    \union {x \in {"shell"} \X Shells \X (1..Capacity) : x[3] <= own[x[2]]}

InFile == [f \in Files |-> Len(file[f])]
OwnOf  == [s \in Shells |-> IF shell[s] = <<>> THEN 0 ELSE Len(Own(shell[s][1]))]

\* No line is kept twice: there are as many places as lines typed, or fewer.
Counted == IsFiniteSet(Slots(InFile, OwnOf)) /\ Cardinality(Slots(InFile, OwnOf)) <= lines

\* What an editor has read, or written, is in the file.
OnDisk(ed) == {ed.entries[i] : i \in 1..ed.onDisk}
DiskHolds ==
  lines <= Capacity =>
    \A s \in Shells : shell[s] # <<>> =>
      LET ed == shell[s][1]
      IN  ed.onDisk <= Len(file[FileOf[ed.conn]]) /\ OnDisk(ed) \subseteq ToSet(file[FileOf[ed.conn]])

\* The query history tells what was run, and when last.
RanAgrees ==
  /\ \A i \in DOMAIN history :
       /\ ran[history[i].conn][history[i].query].times > 0
       /\ ran[history[i].conn][history[i].query].last = history[i].at
  /\ \A c \in Conns, q \in Queries : ran[c][q].times > 0 =>
       \E i \in DOMAIN history : history[i].conn = c /\ history[i].query = q

\* What a shell has listed has not changed.
ListedTrue ==
  \A s \in Shells : shell[s] # <<>> =>
    \A id \in DOMAIN shell[s][1].listed :
      id \in DOMAIN history /\ history[id].query = shell[s][1].listed[id]

\* The pairs of an element and a number up to the one it has: as many as the sum.
Times(v, S) == {x \in S \X Nat : x[2] \in 1 .. v[x[1]]}

\* The recordings of a connection that referred to a table or a column.
Naming(r) == {q \in Queries : r \in RefsOf(q)}
Recordings(c, r) == Times([q \in Queries |-> ran[c][q].times], Naming(r))

\* The shells that have a row of a connection and a reference to write.
Writers(x) == {s \in Shells : x \in Owes(s)}

\* With the rows that are still to be written, the store has one for each of these,
\* or fewer when one was lost.
RowsFor(c, r) ==
  /\ IsFiniteSet(Writers(<<c, r>>))
  /\ access[c][r] + Cardinality(Writers(<<c, r>>)) <= Cardinality(Recordings(c, r))
  /\ <<c, r>> \notin lost => access[c][r] + Cardinality(Writers(<<c, r>>)) = Cardinality(Recordings(c, r))
UsesCounted ==
  /\ access \in [Conns -> [Refs -> Nat]]
  /\ \A c \in Conns, r \in Refs : RowsFor(c, r)

IInv ==
  /\ TypeOK /\ Counted /\ DiskHolds /\ LinesReachTheFile
  /\ RanAgrees /\ ListedTrue /\ UsesCounted

-----------------------------------------------------------------------------
(* Lemmas about the operators of the model                                  *)

\* LastN keeps the whole of what is short enough, and no more than n otherwise.
LEMMA LastNType ==
  ASSUME NEW S, NEW s \in Seq(S), NEW n \in Nat
  PROVE  /\ LastN(s, n) \in Seq(S)
         /\ Len(LastN(s, n)) <= n /\ Len(LastN(s, n)) <= Len(s)
         /\ Len(s) <= n => LastN(s, n) = s
<1>1. CASE Len(s) <= n
  BY <1>1 DEF LastN
<1>2. CASE Len(s) > n
  <2>1. Len(s) \in Nat /\ Len(s) - n + 1 \in Int /\ \A i \in Len(s) - n + 1 .. Len(s) : s[i] \in S
    BY <1>2
  <2>2. /\ SubSeq(s, Len(s) - n + 1, Len(s)) \in Seq(S)
        /\ Len(SubSeq(s, Len(s) - n + 1, Len(s))) =
             IF Len(s) - n + 1 <= Len(s) THEN Len(s) - (Len(s) - n + 1) + 1 ELSE 0
    BY <2>1, SubSeqProperties
  <2>3. QED
    BY <1>2, <2>1, <2>2 DEF LastN
<1>3. QED
  BY <1>1, <1>2, LenProperties

\* What an editor has still to write is the end of what it recalls.
LEMMA OwnType ==
  ASSUME NEW ed, IsEditor(ed)
  PROVE  /\ Own(ed) \in Seq(Lines)
         /\ Len(Own(ed)) = Len(ed.entries) - ed.onDisk /\ Len(Own(ed)) \in 0..Capacity
         /\ \A i \in 1..Len(Own(ed)) : Own(ed)[i] = ed.entries[ed.onDisk + i]
<1>1. /\ ed.entries \in Seq(Lines) /\ Len(ed.entries) \in Nat /\ ed.onDisk \in 0..Len(ed.entries)
      /\ Len(ed.entries) <= Capacity
  BY LenProperties DEF IsEditor
<1>2. \A i \in ed.onDisk + 1 .. Len(ed.entries) : ed.entries[i] \in Lines
  BY <1>1
<1>3. /\ SubSeq(ed.entries, ed.onDisk + 1, Len(ed.entries)) \in Seq(Lines)
      /\ Len(SubSeq(ed.entries, ed.onDisk + 1, Len(ed.entries))) =
           IF ed.onDisk + 1 <= Len(ed.entries) THEN Len(ed.entries) - (ed.onDisk + 1) + 1 ELSE 0
      /\ \A i \in 1 .. Len(ed.entries) - (ed.onDisk + 1) + 1 :
           SubSeq(ed.entries, ed.onDisk + 1, Len(ed.entries))[i] = ed.entries[ed.onDisk + 1 + i - 1]
  BY <1>1, <1>2, SubSeqProperties
<1>4. ed.onDisk + 1 <= Len(ed.entries) \/ ed.onDisk = Len(ed.entries)
  BY <1>1
<1>5. Len(Own(ed)) = Len(ed.entries) - ed.onDisk
  BY <1>1, <1>3, <1>4 DEF Own
<1>6. Len(Own(ed)) \in 0..Capacity
  BY <1>1, <1>5, HistoryAssumption
<1>7. \A i \in 1..Len(Own(ed)) : Own(ed)[i] = ed.entries[ed.onDisk + i]
  BY <1>1, <1>3, <1>5 DEF Own
<1>8. QED
  BY <1>3, <1>5, <1>6, <1>7 DEF Own

\* Two editors have the same lines and are of the same connection.
SameLines(e, ed) == e.conn = ed.conn /\ e.entries = ed.entries /\ e.onDisk = ed.onDisk

\* Entering a line leaves at most one more to write.
LEMMA EnteredType ==
  ASSUME NEW ed, IsEditor(ed), NEW line \in Lines
  PROVE  /\ IsEditor(Entered(ed, line))
         /\ Entered(ed, line).conn = ed.conn /\ Entered(ed, line).listed = ed.listed
         /\ Len(Own(Entered(ed, line))) <= Len(Own(ed)) + 1
<1>1. /\ ed.entries \in Seq(Lines) /\ Len(ed.entries) \in Nat /\ ed.onDisk \in 0..Len(ed.entries)
      /\ Len(ed.entries) <= Capacity /\ Capacity \in Nat /\ Capacity > 0
  BY LenProperties, HistoryAssumption DEF IsEditor
<1>2. CASE Entered(ed, line) = ed
  BY <1>2, OwnType
<1>3. CASE Entered(ed, line) = [ed EXCEPT !.entries = Append(@, line)] /\ Len(ed.entries) < Capacity
  <2> DEFINE e == [ed EXCEPT !.entries = Append(@, line)]
  <2>1. Append(ed.entries, line) \in Seq(Lines) /\ Len(Append(ed.entries, line)) = Len(ed.entries) + 1
    BY <1>1, AppendProperties
  <2>2. /\ e.entries = Append(ed.entries, line) /\ e.onDisk = ed.onDisk
        /\ e.conn = ed.conn /\ e.listed = ed.listed
    BY DEF IsEditor
  <2>0. e \in [conn : Conns, entries : {e.entries}, onDisk : {e.onDisk},
               tables : {e.tables}, columns : {e.columns}, listed : {e.listed}]
    BY DEF IsEditor
  <2> HIDE DEF e
  <2>3. IsEditor(e)
    <3>1. e.onDisk \in Nat /\ e.onDisk <= Len(e.entries) /\ Len(e.entries) <= Capacity
      BY <1>1, <1>3, <2>1, <2>2
    <3>2. QED
      BY <2>0, <2>1, <2>2, <3>1 DEF IsEditor
  <2>4. Len(Own(e)) = Len(Own(ed)) + 1
    BY <1>1, <2>1, <2>2, <2>3, OwnType, SMTT(30)
  <2>5. QED
    BY <1>3, <2>2, <2>3, <2>4, OwnType DEF e
<1>4. CASE Entered(ed, line) = [ed EXCEPT !.entries = Append(Tail(@), line), !.onDisk = IF @ = 0 THEN 0 ELSE @ - 1]
           /\ Len(ed.entries) = Capacity
  <2> DEFINE e == [ed EXCEPT !.entries = Append(Tail(@), line), !.onDisk = IF @ = 0 THEN 0 ELSE @ - 1]
  <2>1. Tail(ed.entries) \in Seq(Lines) /\ Len(Tail(ed.entries)) = Len(ed.entries) - 1
    BY <1>1, <1>4, HeadTailProperties, EmptySeq
  <2>2. /\ Append(Tail(ed.entries), line) \in Seq(Lines)
        /\ Len(Append(Tail(ed.entries), line)) = Len(ed.entries)
    BY <1>1, <2>1, AppendProperties
  <2>3. /\ e.entries = Append(Tail(ed.entries), line) /\ e.onDisk = (IF ed.onDisk = 0 THEN 0 ELSE ed.onDisk - 1)
        /\ e.conn = ed.conn /\ e.listed = ed.listed
    BY DEF IsEditor
  <2>0. e \in [conn : Conns, entries : {e.entries}, onDisk : {e.onDisk},
               tables : {e.tables}, columns : {e.columns}, listed : {e.listed}]
    BY DEF IsEditor
  <2> HIDE DEF e
  <2>4. e.onDisk \in 0..Len(e.entries) /\ e.onDisk >= ed.onDisk - 1
    BY <1>1, <2>2, <2>3
  <2>5. IsEditor(e)
    BY <1>1, <2>0, <2>2, <2>3, <2>4 DEF IsEditor
  <2>6. Len(Own(e)) <= Len(Own(ed)) + 1
    BY <1>1, <2>2, <2>3, <2>4, <2>5, OwnType
  <2>7. QED
    BY <1>4, <2>3, <2>5, <2>6 DEF e
<1>5. QED
  BY <1>1, <1>2, <1>3, <1>4 DEF Entered

\* As long as there is room, nothing is forgotten, and the line is recalled.
LEMMA EnteredKeeps ==
  ASSUME NEW ed, IsEditor(ed), NEW line \in Lines, Len(ed.entries) < Capacity
  PROVE  /\ Entered(ed, line).onDisk = ed.onDisk
         /\ OnDisk(Entered(ed, line)) = OnDisk(ed)
         /\ ToSet(Own(ed)) \subseteq ToSet(Own(Entered(ed, line)))
         /\ line \in OnDisk(ed) \union ToSet(Own(Entered(ed, line)))
<1>1. /\ ed.entries \in Seq(Lines) /\ Len(ed.entries) \in Nat /\ ed.onDisk \in 0..Len(ed.entries)
  BY LenProperties DEF IsEditor
<1>2. Own(ed) \in Seq(Lines) /\ Len(Own(ed)) = Len(ed.entries) - ed.onDisk
      /\ \A i \in 1..Len(Own(ed)) : Own(ed)[i] = ed.entries[ed.onDisk + i]
  BY OwnType
<1>3. CASE Entered(ed, line) = ed /\ ed.entries # <<>> /\ Last(ed.entries) = line
  <2>1. Len(ed.entries) > 0 /\ ed.entries[Len(ed.entries)] = line
    BY <1>1, <1>3, EmptySeq DEF Last
  <2>2. CASE ed.onDisk = Len(ed.entries)
    BY <1>3, <2>1, <2>2 DEF OnDisk
  <2>3. CASE ed.onDisk < Len(ed.entries)
    <3>1. Len(Own(ed)) \in 1..Len(Own(ed)) /\ Own(ed)[Len(Own(ed))] = line
      BY <1>1, <1>2, <2>1, <2>3
    <3>2. QED
      BY <1>2, <1>3, <3>1 DEF ToSet
  <2>4. QED
    BY <1>1, <1>3, <2>2, <2>3
<1>4. CASE Entered(ed, line) = [ed EXCEPT !.entries = Append(@, line)]
  <2> DEFINE e == [ed EXCEPT !.entries = Append(@, line)]
  <2>1. e.entries = Append(ed.entries, line) /\ e.onDisk = ed.onDisk
    BY DEF IsEditor
  <2>0. e = Entered(ed, line)
    BY <1>4
  <2> HIDE DEF e
  <2>2. /\ Len(e.entries) = Len(ed.entries) + 1 /\ e.entries[Len(ed.entries) + 1] = line
        /\ \A i \in 1..Len(ed.entries) : e.entries[i] = ed.entries[i]
    BY <1>1, <2>1, AppendProperties
  <2>3. OnDisk(e) = OnDisk(ed)
    BY <1>1, <2>1, <2>2 DEF OnDisk
  <2>4. IsEditor(e)
    BY <2>0, EnteredType
  <2>5. /\ Own(e) \in Seq(Lines) /\ Len(Own(e)) = Len(Own(ed)) + 1 /\ Len(Own(ed)) \in Nat
        /\ \A i \in 1..Len(Own(e)) : Own(e)[i] = e.entries[ed.onDisk + i]
    <3>1. /\ Own(e) \in Seq(Lines) /\ Len(Own(e)) = Len(e.entries) - e.onDisk
          /\ \A i \in 1..Len(Own(e)) : Own(e)[i] = e.entries[e.onDisk + i]
      BY <2>4, OwnType
    <3>2. Len(Own(e)) = Len(Own(ed)) + 1 /\ Len(Own(ed)) \in Nat
      BY <1>1, <1>2, <2>1, <2>2, <3>1
    <3>3. QED
      BY <2>1, <3>1, <3>2
  <2>6. ASSUME NEW i \in 1..Len(Own(ed)) PROVE Own(e)[i] = Own(ed)[i]
    <3>1. i \in 1..Len(Own(e)) /\ ed.onDisk + i \in 1..Len(ed.entries)
      BY <1>1, <1>2, <2>5
    <3>2. QED
      BY <1>2, <2>2, <2>5, <3>1
  <2>7. Own(e)[Len(Own(ed)) + 1] = line
    BY <1>1, <1>2, <2>2, <2>5
  <2>8. ToSet(Own(ed)) \subseteq ToSet(Own(e))
    BY <1>2, <2>5, <2>6 DEF ToSet
  <2>9. line \in ToSet(Own(e))
    BY <2>5, <2>7 DEF ToSet
  <2>10. QED
    BY <2>0, <2>1, <2>3, <2>8, <2>9
<1>5. QED
  BY <1>3, <1>4 DEF Entered

\* A flush writes everything that an editor had to write, and drops lines of the
\* file only when they would not fit.
LEMMA FlushedType ==
  ASSUME NEW ed, IsEditor(ed), NEW f \in Seq(Lines), Len(f) <= Capacity
  PROVE  /\ Flushed(f, ed) \in Seq(Lines)
         /\ Len(Flushed(f, ed)) <= Capacity
         /\ Len(Flushed(f, ed)) <= Len(f) + Len(Own(ed))
         /\ ToSet(Own(ed)) \subseteq ToSet(Flushed(f, ed))
         /\ Len(f) + Len(Own(ed)) <= Capacity =>
              /\ Len(Flushed(f, ed)) = Len(f) + Len(Own(ed))
              /\ ToSet(f) \subseteq ToSet(Flushed(f, ed))
<1> DEFINE kept == LastN(f, Capacity - Len(Own(ed)))
<1>1. Own(ed) \in Seq(Lines) /\ Len(Own(ed)) \in Nat /\ Len(f) \in Nat /\ Capacity - Len(Own(ed)) \in Nat
  BY OwnType, LenProperties, HistoryAssumption
<1>2. /\ kept \in Seq(Lines) /\ Len(kept) \in Nat
      /\ Len(kept) <= Capacity - Len(Own(ed)) /\ Len(kept) <= Len(f)
      /\ Len(f) <= Capacity - Len(Own(ed)) => kept = f
  BY <1>1, LastNType, LenProperties
<1> HIDE DEF kept
<1>3. /\ kept \o Own(ed) \in Seq(Lines) /\ Len(kept \o Own(ed)) = Len(kept) + Len(Own(ed))
      /\ \A i \in 1..Len(kept) + Len(Own(ed)) :
           (kept \o Own(ed))[i] = IF i <= Len(kept) THEN kept[i] ELSE Own(ed)[i - Len(kept)]
  BY <1>1, <1>2, ConcatProperties
<1>4. Flushed(f, ed) = kept \o Own(ed)
  BY DEF Flushed, kept
<1>5. ASSUME NEW l \in ToSet(Own(ed)) PROVE l \in ToSet(kept \o Own(ed))
  <2>1. PICK i \in 1..Len(Own(ed)) : l = Own(ed)[i]
    BY <1>1, <1>5 DEF ToSet
  <2>2. Len(kept) + i \in 1..Len(kept) + Len(Own(ed)) /\ (kept \o Own(ed))[Len(kept) + i] = l
    BY <1>1, <1>2, <1>3, <2>1
  <2>3. QED
    BY <1>3, <2>2 DEF ToSet
<1>6. ASSUME NEW l \in ToSet(kept) PROVE l \in ToSet(kept \o Own(ed))
  <2>1. PICK i \in 1..Len(kept) : l = kept[i]
    BY <1>2, <1>6 DEF ToSet
  <2>2. i \in 1..Len(kept) + Len(Own(ed)) /\ (kept \o Own(ed))[i] = l
    BY <1>1, <1>2, <1>3, <2>1
  <2>3. QED
    BY <1>3, <2>2 DEF ToSet
<1>7. Len(kept) + Len(Own(ed)) <= Capacity /\ Len(kept) + Len(Own(ed)) <= Len(f) + Len(Own(ed))
  BY <1>1, <1>2, HistoryAssumption
<1>8. Len(f) + Len(Own(ed)) <= Capacity => kept = f
  BY <1>1, <1>2, HistoryAssumption
<1>9. QED
  BY <1>3, <1>4, <1>5, <1>6, <1>7, <1>8

-----------------------------------------------------------------------------
(* Counting the lines that are kept                                         *)

LenIn(D) == [D -> 0..Capacity]

\* A file and an editor keep no more lines than there are altogether.
LEMMA SlotsBound ==
  ASSUME NEW inFile \in LenIn(Files), NEW own \in LenIn(Shells),
         IsFiniteSet(Slots(inFile, own)), NEW f \in Files, NEW s \in Shells
  PROVE  inFile[f] + own[s] <= Cardinality(Slots(inFile, own))
<1> DEFINE both == 1..(inFile[f] + own[s])
           place == [n \in both |-> IF n <= inFile[f] THEN <<"file", f, n>>
                                    ELSE <<"shell", s, n - inFile[f]>>]
<1>1. inFile[f] \in 0..Capacity /\ own[s] \in 0..Capacity /\ Capacity \in Nat
  BY HistoryAssumption DEF LenIn
<1>2. ASSUME NEW n \in both PROVE place[n] \in Slots(inFile, own)
  <2>1. CASE n <= inFile[f]
    <3>1. place[n] = <<"file", f, n>> /\ n \in 1..Capacity
      BY <1>1, <2>1
    <3>2. QED
      BY <2>1, <3>1 DEF Slots
  <2>2. CASE n > inFile[f]
    <3>1. place[n] = <<"shell", s, n - inFile[f]>> /\ n - inFile[f] \in 1..Capacity
          /\ n - inFile[f] <= own[s]
      BY <1>1, <2>2
    <3>2. QED
      BY <3>1 DEF Slots
  <2>3. QED
    BY <1>1, <2>1, <2>2
<1>3. ASSUME NEW m \in both, NEW n \in both, place[m] = place[n] PROVE m = n
  BY <1>1, <1>3
<1>4. place \in Injection(both, Slots(inFile, own))
  BY <1>2, <1>3 DEF Injection, IsInjective
<1>5. Cardinality(both) <= Cardinality(Slots(inFile, own))
  BY <1>4, FS_Injection
<1>6. Cardinality(both) = inFile[f] + own[s]
  <2>1. PICK n \in Nat : n = inFile[f] + own[s]
    BY <1>1
  <2>2. Cardinality(1..n) = IF 1 > n THEN 0 ELSE n - 1 + 1
    <3>1. n \in Int /\ 1 \in Int
      BY <2>1
    <3>2. QED
      BY <3>1, FS_Interval
  <2>3. Cardinality(1..n) = n
    BY <2>2
  <2>4. QED
    BY <2>1, <2>3
<1>7. QED
  BY <1>5, <1>6

\* One line more to write is one line more.
LEMMA SlotsAdd ==
  ASSUME NEW inFile \in LenIn(Files), NEW own \in LenIn(Shells), NEW more \in LenIn(Shells),
         IsFiniteSet(Slots(inFile, own)), NEW s \in Shells, more[s] <= own[s] + 1,
         \A o \in Shells \ {s} : more[o] = own[o]
  PROVE  /\ IsFiniteSet(Slots(inFile, more))
         /\ Cardinality(Slots(inFile, more)) <= Cardinality(Slots(inFile, own)) + 1
<1> DEFINE last == <<"shell", s, own[s] + 1>>
<1>1. Slots(inFile, more) \subseteq Slots(inFile, own) \union {last}
  <2> SUFFICES ASSUME NEW x \in Slots(inFile, more), x \notin Slots(inFile, own)
               PROVE  x = last
    OBVIOUS
  <2>1. x \in {"shell"} \X Shells \X (1..Capacity) /\ x[3] <= more[x[2]] /\ ~(x[3] <= own[x[2]])
    BY DEF Slots
  <2>2. PICK o \in Shells, k \in 1..Capacity : x = <<"shell", o, k>> /\ k <= more[o] /\ ~(k <= own[o])
    BY <2>1
  <2>3. o = s
    BY <2>2
  <2>4. k = own[s] + 1
    BY <2>2, <2>3, HistoryAssumption DEF LenIn
  <2>5. QED
    BY <2>2, <2>3, <2>4
<1>2. /\ IsFiniteSet(Slots(inFile, own) \union {last})
      /\ Cardinality(Slots(inFile, own) \union {last}) <= Cardinality(Slots(inFile, own)) + 1
  <2>1. Cardinality(Slots(inFile, own)) \in Nat
    BY FS_CardinalityType
  <2>2. /\ IsFiniteSet(Slots(inFile, own) \union {last})
        /\ Cardinality(Slots(inFile, own) \union {last}) =
             IF last \in Slots(inFile, own) THEN Cardinality(Slots(inFile, own))
             ELSE Cardinality(Slots(inFile, own)) + 1
    <3> HIDE DEF last
    <3>1. QED
      BY FS_AddElement
  <2>3. QED
    BY <2>1, <2>2
<1>3. /\ IsFiniteSet(Slots(inFile, more))
      /\ Cardinality(Slots(inFile, more)) <= Cardinality(Slots(inFile, own) \union {last})
  BY <1>1, <1>2, FS_Subset
<1>4. QED
  BY <1>2, <1>3, FS_CardinalityType

\* A flush moves lines from an editor to a file, and makes no new ones.
LEMMA SlotsMove ==
  ASSUME NEW inFile \in LenIn(Files), NEW own \in LenIn(Shells), NEW moved \in LenIn(Files),
         NEW less \in LenIn(Shells), IsFiniteSet(Slots(inFile, own)), NEW f \in Files, NEW s \in Shells,
         moved[f] + less[s] <= inFile[f] + own[s],
         \A g \in Files \ {f} : moved[g] = inFile[g], \A o \in Shells \ {s} : less[o] = own[o]
  PROVE  /\ IsFiniteSet(Slots(moved, less))
         /\ Cardinality(Slots(moved, less)) <= Cardinality(Slots(inFile, own))
<1>1. /\ inFile[f] \in 0..Capacity /\ own[s] \in 0..Capacity /\ Capacity \in Nat
      /\ moved[f] \in 0..Capacity /\ less[s] \in 0..Capacity
  BY HistoryAssumption DEF LenIn
<1> DEFINE Here(x) == IF x[1] = "file" THEN x[2] = f ELSE x[2] = s
           Number(x) == IF x[1] = "file" THEN x[3] ELSE moved[f] + x[3]
           Place(n) == IF n <= inFile[f] THEN <<"file", f, n>> ELSE <<"shell", s, n - inFile[f]>>
           move == [x \in Slots(moved, less) |-> IF Here(x) THEN Place(Number(x)) ELSE x]
<1>2. ASSUME NEW x \in Slots(moved, less), Here(x)
      PROVE  Number(x) \in 1..(inFile[f] + own[s])
  <2>1. \/ x[1] = "file" /\ x[2] = f /\ x[3] \in 1..Capacity /\ x[3] <= moved[f]
        \/ x[1] = "shell" /\ x[2] = s /\ x[3] \in 1..Capacity /\ x[3] <= less[s]
    BY <1>2 DEF Slots
  <2>2. QED
    BY <1>1, <2>1
<1>3. ASSUME NEW n \in 1..(inFile[f] + own[s]) PROVE Place(n) \in Slots(inFile, own)
  <2>1. CASE n <= inFile[f]
    <3>1. Place(n) = <<"file", f, n>> /\ n \in 1..Capacity
      BY <1>1, <2>1
    <3>2. QED
      BY <2>1, <3>1 DEF Slots
  <2>2. CASE n > inFile[f]
    <3>1. Place(n) = <<"shell", s, n - inFile[f]>> /\ n - inFile[f] \in 1..Capacity
          /\ n - inFile[f] <= own[s]
      BY <1>1, <2>2
    <3>2. QED
      BY <3>1 DEF Slots
  <2>3. QED
    BY <1>1, <2>1, <2>2
<1>4. ASSUME NEW x \in Slots(moved, less), ~Here(x) PROVE x \in Slots(inFile, own)
  BY <1>4 DEF Slots
<1>5. ASSUME NEW x \in Slots(moved, less), NEW y \in Slots(moved, less), Here(x), Here(y),
             Number(x) = Number(y)
      PROVE  x = y
  <2>1. \/ \E k \in 1..Capacity : x = <<"file", f, k>> /\ k <= moved[f]
        \/ \E k \in 1..Capacity : x = <<"shell", s, k>>
    BY <1>5 DEF Slots
  <2>2. \/ \E k \in 1..Capacity : y = <<"file", f, k>> /\ k <= moved[f]
        \/ \E k \in 1..Capacity : y = <<"shell", s, k>>
    BY <1>5 DEF Slots
  <2>3. QED
    BY <1>1, <1>5, <2>1, <2>2
<1>6. ASSUME NEW m \in 1..(inFile[f] + own[s]), NEW n \in 1..(inFile[f] + own[s]), Place(m) = Place(n)
      PROVE  m = n
  BY <1>1, <1>6
<1>7. ASSUME NEW n \in 1..(inFile[f] + own[s]) PROVE Here(Place(n))
  BY <1>1
<1>8. \A x \in Slots(moved, less) : move[x] \in Slots(inFile, own)
  BY <1>2, <1>3, <1>4
<1>9. ASSUME NEW x \in Slots(moved, less), NEW y \in Slots(moved, less), move[x] = move[y]
      PROVE  x = y
  <2> HIDE DEF Here, Number, Place
  <2>1. Here(x) <=> Here(move[x])
    BY <1>2, <1>7
  <2>2. Here(y) <=> Here(move[y])
    BY <1>2, <1>7
  <2>3. CASE Here(x)
    <3>1. Here(y) /\ Place(Number(x)) = Place(Number(y))
      BY <1>9, <2>1, <2>2, <2>3
    <3>2. Number(x) = Number(y)
      BY <1>2, <1>6, <2>3, <3>1
    <3>3. QED
      BY <1>5, <2>3, <3>1, <3>2
  <2>4. CASE ~Here(x)
    BY <1>9, <2>1, <2>2, <2>4
  <2>5. QED
    BY <2>3, <2>4
<1>10. move \in Injection(Slots(moved, less), Slots(inFile, own))
  BY <1>8, <1>9 DEF Injection, IsInjective
<1>11. QED
  BY <1>10, FS_Injection

-----------------------------------------------------------------------------
(* The steps, as the files see them                                         *)

\* A new editor has read the whole file, as it is before the step.
Fresh(ed, c) ==
  /\ IsEditor(ed) /\ ed.conn = c
  /\ ed.entries = file[FileOf[c]] /\ ed.onDisk = Len(ed.entries)

\* build_reedline gives the shell an editor that has just read its file.
LEMMA BuildNew ==
  ASSUME FilesOK, NEW s \in Shells, NEW c \in Conns, NEW listed, Build(s, c, listed)
  PROVE  \E new : Fresh(new, c) /\ new.listed = listed /\ shell' = [shell EXCEPT ![s] = <<new>>]
<1>1. file[FileOf[c]] \in Seq(Lines) /\ Len(file[FileOf[c]]) \in Nat /\ Len(file[FileOf[c]]) <= Capacity
  BY LenProperties DEF FilesOK, Files
<1>2. LastN(file[FileOf[c]], Capacity) = file[FileOf[c]]
  BY <1>1, LastNType, HistoryAssumption
<1>3. PICK tables, columns : shell' = [shell EXCEPT ![s] =
        << [conn |-> c, entries |-> file[FileOf[c]], onDisk |-> Len(file[FileOf[c]]),
            tables |-> tables, columns |-> columns, listed |-> listed] >>]
  BY <1>2 DEF Build
<1> DEFINE new == [conn |-> c, entries |-> file[FileOf[c]], onDisk |-> Len(file[FileOf[c]]),
                   tables |-> tables, columns |-> columns, listed |-> listed]
<1>4. IsEditor(new)
  BY <1>1 DEF IsEditor
<1>5. Fresh(new, c) /\ new.listed = listed
  BY <1>4 DEF Fresh
<1>6. QED
  BY <1>3, <1>5

\* The editor that shell s has once it has read the line.
Reader(s, line, ed) ==
  /\ Reads(s, line) /\ line \in Lines
  /\ IsEditor(ed) /\ SameLines(ed, Entered(shell[s][1], line))

Opens(s, new) ==
  /\ shell[s] = <<>>
  /\ Fresh(new, new.conn) /\ shell' = [shell EXCEPT ![s] = <<new>>]
  /\ typed' = [typed EXCEPT ![s] = {}] /\ UNCHANGED <<file, lines, left>>

Stays(s, line, ed) == Reader(s, line, ed) /\ Goes(s, ed)

Rebuilds(s, new) ==
  /\ shell[s] # <<>>
  /\ file' = [file EXCEPT ![FileOf[shell[s][1].conn]] = Flushed(@, shell[s][1])]
  /\ Fresh(new, shell[s][1].conn) /\ shell' = [shell EXCEPT ![s] = <<new>>]
  /\ UNCHANGED <<lines, typed, left>>

Waits == UNCHANGED <<file, shell, lines, typed, left>>

\* To the files a step is one of six things, whatever else it does.
LEMMA ShellCases ==
  ASSUME TypeOK, NEW s \in Shells, ShellStep(s)
  PROVE  \/ \E new : Opens(s, new)
         \/ \E line, ed : Stays(s, line, ed)
         \/ \E new : Rebuilds(s, new)
         \/ Waits \/ Quit(s) \/ Kill(s)
<1> DEFINE Read == \E line, ed : Stays(s, line, ed)
<1>1. FilesOK
  BY DEF TypeOK
<1>2. ASSUME NEW c \in Conns, Open(s, c) PROVE \E new : Opens(s, new)
  <2>1. PICK new : Fresh(new, c) /\ shell' = [shell EXCEPT ![s] = <<new>>]
    BY <1>1, <1>2, BuildNew DEF Open
  <2>2. Fresh(new, new.conn)
    BY <2>1 DEF Fresh
  <2>3. QED
    BY <1>2, <2>1, <2>2 DEF Open, Opens
<1>3. ASSUME NEW line \in Lines, Reads(s, line)
      PROVE  Reader(s, line, Entered(shell[s][1], line))
  <2>1. IsEditor(shell[s][1])
    BY <1>1, <1>3 DEF FilesOK, Reads
  <2>2. IsEditor(Entered(shell[s][1], line))
    BY <2>1, EnteredType
  <2>3. QED
    BY <1>3, <2>2 DEF Reader, SameLines
<1>4. ASSUME NEW line, NEW ed, Reader(s, line, ed), Goes(s, ed) PROVE Read
  BY <1>4 DEF Stays
<1>5. ASSUME NEW q, NEW line \in Lines, Reads(s, line), Execute(s, Entered(shell[s][1], line), q)
      PROVE  Read
  <2>1. Goes(s, Entered(shell[s][1], line))
    BY <1>5 DEF Execute
  <2>2. QED
    BY <1>3, <1>4, <1>5, <2>1
<1>6. Command \in Lines /\ Queries \subseteq Lines
  BY DEF Lines
<1>7. ASSUME NEW q \in Queries, Type(s, q) \/ Edit(s, q) PROVE Read
  <2>1. CASE Type(s, q)
    BY <1>5, <1>6, <2>1 DEF Type
  <2>2. CASE Edit(s, q)
    BY <1>5, <1>6, <2>2 DEF Edit
  <2>3. QED
    BY <1>7, <2>1, <2>2
<1>8. ASSUME NEW name \in Names, Run(s, name) PROVE Read
  BY <1>5, <1>6, <1>8 DEF Run
<1>9. CASE Refresh(s)
  <2>1. Reads(s, Command) /\ Goes(s, Entered(shell[s][1], Command))
    BY <1>9 DEF Refresh
  <2>2. QED
    BY <1>3, <1>4, <1>6, <2>1
<1>10. ASSUME NEW n, ListHistory(s, n) PROVE Read
  <2>1. PICK is : Goes(s, [Entered(shell[s][1], Command) EXCEPT !.listed = [i \in is |-> history[i].query]])
    BY <1>10 DEF ListHistory
  <2> DEFINE old == Entered(shell[s][1], Command)
             ed == [old EXCEPT !.listed = [i \in is |-> history[i].query]]
  <2>2. Reader(s, Command, old)
    BY <1>3, <1>6, <1>10 DEF ListHistory
  <2>3. IsEditor(old) /\ SameLines(old, Entered(shell[s][1], Command)) /\ Reads(s, Command)
    BY <2>2 DEF Reader
  <2>4. IsEditor(ed) /\ SameLines(ed, Entered(shell[s][1], Command))
    <3> HIDE DEF old
    <3>1. QED
      BY <2>3 DEF IsEditor, SameLines
  <2>5. Reader(s, Command, ed)
    BY <1>6, <2>3, <2>4 DEF Reader
  <2>6. QED
    BY <1>4, <2>1, <2>5
<1>11. ASSUME NEW name \in Names, NEW id, Save(s, name, id) PROVE Read
  <2>1. Reads(s, Command) /\ Goes(s, Entered(shell[s][1], Command))
    BY <1>11 DEF Save
  <2>2. QED
    BY <1>3, <1>4, <1>6, <2>1
<1>12. ASSUME NEW name \in Names, Unsave(s, name) PROVE Read
  <2>1. Reads(s, Command) /\ Goes(s, Entered(shell[s][1], Command))
    BY <1>12 DEF Unsave
  <2>2. QED
    BY <1>3, <1>4, <1>6, <2>1
<1>13. CASE RecordAccess(s)
  BY <1>13 DEF RecordAccess, Waits, ghosts
<1>14. CASE Refreshed(s)
  <2>1. CASE UNCHANGED <<shell, file>>
    BY <1>14, <2>1 DEF Refreshed, Waits, ghosts
  <2>2. CASE Rebuild(s, shell[s][1])
    <3>1. shell[s] # <<>> /\ UNCHANGED <<lines, typed, left>>
      BY <1>14 DEF Refreshed, ghosts
    <3>2. shell[s][1].conn \in Conns
      BY <1>1, <3>1 DEF FilesOK, IsEditor
    <3>3. PICK new : Fresh(new, shell[s][1].conn) /\ shell' = [shell EXCEPT ![s] = <<new>>]
      BY <1>1, <2>2, <3>2, BuildNew DEF Rebuild
    <3>4. Rebuilds(s, new)
      BY <2>2, <3>1, <3>3 DEF Rebuilds, Rebuild
    <3>5. QED
      BY <3>4
  <2>3. QED
    BY <1>14, <2>1, <2>2 DEF Refreshed
<1>15. QED
  BY <1>2, <1>7, <1>8, <1>9, <1>10, <1>11, <1>12, <1>13, <1>14 DEF ShellStep

\* What is true of an open shell, for lemmas to cite.
LEMMA OpenShell ==
  ASSUME FilesOK, NEW s \in Shells, shell[s] # <<>>
  PROVE  /\ IsEditor(shell[s][1])
         /\ FileOf[shell[s][1].conn] \in Files
         /\ file[FileOf[shell[s][1].conn]] \in Seq(Lines)
         /\ Len(file[FileOf[shell[s][1].conn]]) \in 0..Capacity
<1>1. IsEditor(shell[s][1])
  BY DEF FilesOK
<1>2. FileOf[shell[s][1].conn] \in Files
  BY <1>1 DEF IsEditor, Files
<1>3. QED
  BY <1>1, <1>2, LenProperties, HistoryAssumption DEF FilesOK

\* A reader is of the connection that the shell has open, and has at most one
\* line more to write.
LEMMA ReaderOf ==
  ASSUME FilesOK, NEW s \in Shells, NEW line, NEW ed, Reader(s, line, ed)
  PROVE  /\ shell[s] # <<>> /\ line \in Lines /\ IsEditor(ed) /\ lines' = lines + 1
         /\ ed.conn = shell[s][1].conn
         /\ Own(ed) = Own(Entered(shell[s][1], line))
         /\ OnDisk(ed) = OnDisk(Entered(shell[s][1], line))
         /\ Len(Own(ed)) <= Len(Own(shell[s][1])) + 1
<1>1. shell[s] # <<>> /\ line \in Lines /\ IsEditor(ed) /\ lines' = lines + 1
  BY DEF Reader, Reads
<1>2. /\ Entered(shell[s][1], line).conn = shell[s][1].conn
      /\ Len(Own(Entered(shell[s][1], line))) <= Len(Own(shell[s][1])) + 1
  BY <1>1, OpenShell, EnteredType
<1>3. QED
  BY <1>1, <1>2 DEF Reader, SameLines, Own, OnDisk

\* The files stay files, the editors editors.
LEMMA FilesType ==
  ASSUME TypeOK, [Next]_vars
  PROVE  FilesOK'
<1>1. FilesOK
  BY DEF TypeOK
<1>2. ASSUME NEW s \in Shells, NEW ed, IsEditor(ed), shell' = [shell EXCEPT ![s] = <<ed>>]
      PROVE  /\ DOMAIN shell' = Shells
             /\ \A o \in Shells : shell'[o] # <<>> => shell'[o] = <<shell'[o][1]>> /\ IsEditor(shell'[o][1])
  <2>1. shell'[s] = <<ed>> /\ \A o \in Shells \ {s} : shell'[o] = shell[o]
    BY <1>1, <1>2 DEF FilesOK
  <2>2. \A o \in Shells \ {s} :
          shell'[o] # <<>> => shell'[o] = <<shell'[o][1]>> /\ IsEditor(shell'[o][1])
    BY <1>1, <2>1 DEF FilesOK
  <2>3. shell'[s] = <<shell'[s][1]>> /\ IsEditor(shell'[s][1])
    BY <1>2, <2>1
  <2>4. DOMAIN shell' = Shells
    BY <1>1, <1>2 DEF FilesOK
  <2>5. QED
    BY <2>2, <2>3, <2>4
<1>3. ASSUME NEW s \in Shells, shell' = [shell EXCEPT ![s] = <<>>]
      PROVE  /\ DOMAIN shell' = Shells
             /\ \A o \in Shells : shell'[o] # <<>> => shell'[o] = <<shell'[o][1]>> /\ IsEditor(shell'[o][1])
  <2>1. shell'[s] = <<>> /\ \A o \in Shells \ {s} : shell'[o] = shell[o]
    BY <1>1, <1>3 DEF FilesOK
  <2>2. QED
    BY <1>1, <1>3, <2>1 DEF FilesOK
<1>4. ASSUME NEW ed, IsEditor(ed), file' = [file EXCEPT ![FileOf[ed.conn]] = Flushed(@, ed)]
      PROVE  DOMAIN file' = Files /\ \A f \in Files : file'[f] \in Seq(Lines) /\ Len(file'[f]) <= Capacity
  <2>1. FileOf[ed.conn] \in Files
    BY <1>4 DEF IsEditor, Files
  <2>2. /\ Flushed(file[FileOf[ed.conn]], ed) \in Seq(Lines)
        /\ Len(Flushed(file[FileOf[ed.conn]], ed)) <= Capacity
    BY <1>1, <1>4, <2>1, FlushedType DEF FilesOK
  <2>3. QED
    BY <1>1, <1>4, <2>1, <2>2 DEF FilesOK
<1>5. ASSUME NEW s \in Shells, NEW line, NEW ed, Reader(s, line, ed)
      PROVE  lines' \in Nat /\ typed' \in [Shells -> SUBSET Lines] /\ left' = left
  BY <1>1, <1>5 DEF Reader, Reads, FilesOK
<1>6. ASSUME NEW s \in Shells, NEW new, Opens(s, new) PROVE FilesOK'
  <2>1. IsEditor(new) /\ shell' = [shell EXCEPT ![s] = <<new>>] /\ UNCHANGED <<file, lines, left>>
    BY <1>6 DEF Opens, Fresh
  <2>2. typed' \in [Shells -> SUBSET Lines]
    BY <1>1, <1>6 DEF Opens, FilesOK
  <2>3. QED
    BY <1>1, <1>2, <2>1, <2>2 DEF FilesOK
<1>7. ASSUME NEW s \in Shells, NEW line, NEW ed, Stays(s, line, ed) PROVE FilesOK'
  <2>1. Reader(s, line, ed) /\ IsEditor(ed) /\ shell' = [shell EXCEPT ![s] = <<ed>>] /\ file' = file
    BY <1>7 DEF Stays, Reader, Goes
  <2>2. QED
    BY <1>1, <1>2, <1>5, <2>1 DEF FilesOK
<1>8. ASSUME NEW s \in Shells, NEW new, Rebuilds(s, new) PROVE FilesOK'
  <2>1. /\ IsEditor(shell[s][1]) /\ IsEditor(new)
        /\ shell' = [shell EXCEPT ![s] = <<new>>]
        /\ file' = [file EXCEPT ![FileOf[shell[s][1].conn]] = Flushed(@, shell[s][1])]
        /\ UNCHANGED <<lines, typed, left>>
    BY <1>1, <1>8 DEF Rebuilds, Fresh, FilesOK
  <2>2. QED
    BY <1>1, <1>2, <1>4, <2>1 DEF FilesOK
<1>9. ASSUME NEW s \in Shells, Quit(s) PROVE FilesOK'
  <2>1. IsEditor(shell[s][1]) /\ FileOf[shell[s][1].conn] \in Files
    BY <1>1, <1>9, OpenShell DEF Quit
  <2>2. file' = [file EXCEPT ![FileOf[shell[s][1].conn]] = Flushed(@, shell[s][1])]
    BY <1>9 DEF Quit
  <2>3. left' \in [Files -> SUBSET Lines] /\ typed' \in [Shells -> SUBSET Lines] /\ lines' = lines
    BY <1>1, <1>9, <2>1 DEF Quit, FilesOK
  <2>4. shell' = [shell EXCEPT ![s] = <<>>]
    BY <1>9 DEF Quit
  <2>5. QED
    BY <1>1, <1>3, <1>4, <2>1, <2>2, <2>3, <2>4 DEF FilesOK
<1>10. ASSUME NEW s \in Shells, Kill(s) PROVE FilesOK'
  <2>1. typed' \in [Shells -> SUBSET Lines] /\ shell' = [shell EXCEPT ![s] = <<>>]
        /\ UNCHANGED <<file, lines, left>>
    BY <1>1, <1>10 DEF Kill, FilesOK
  <2>2. QED
    BY <1>1, <1>3, <2>1 DEF FilesOK
<1>11. CASE Waits
  BY <1>1, <1>11 DEF Waits, FilesOK
<1>12. Tick \/ UNCHANGED vars => Waits
  BY DEF Tick, vars, ghosts, Waits
<1>13. QED
  BY <1>6, <1>7, <1>8, <1>9, <1>10, <1>11, <1>12, ShellCases DEF Next

\* The numbers of lines in the files, and of those to be written, are within bounds.
LEMMA CountsType ==
  ASSUME FilesOK
  PROVE  InFile \in LenIn(Files) /\ OwnOf \in LenIn(Shells)
<1>1. ASSUME NEW f \in Files PROVE Len(file[f]) \in 0..Capacity
  BY LenProperties, HistoryAssumption DEF FilesOK
<1>2. ASSUME NEW s \in Shells PROVE OwnOf[s] \in 0..Capacity
  <2>1. CASE shell[s] = <<>>
    BY <2>1, HistoryAssumption DEF OwnOf
  <2>2. CASE shell[s] # <<>>
    BY <2>2, OpenShell, OwnType DEF OwnOf
  <2>3. QED
    BY <2>1, <2>2
<1>3. InFile \in LenIn(Files)
  BY <1>1 DEF InFile, LenIn
<1>4. OwnOf \in LenIn(Shells)
  BY <1>2 DEF OwnOf, LenIn
<1>5. QED
  BY <1>3, <1>4

\* The numbers of lines after the editor of shell s has become ed.
LEMMA OwnAfter ==
  ASSUME FilesOK, NEW s \in Shells, NEW ed, IsEditor(ed), shell' = [shell EXCEPT ![s] = <<ed>>]
  PROVE  /\ OwnOf' \in LenIn(Shells) /\ OwnOf'[s] = Len(Own(ed))
         /\ \A o \in Shells \ {s} : OwnOf'[o] = OwnOf[o]
<1>1. shell'[s] = <<ed>> /\ \A o \in Shells \ {s} : shell'[o] = shell[o]
  BY DEF FilesOK
<1>2. OwnOf' = [o \in Shells |-> IF shell'[o] = <<>> THEN 0 ELSE Len(Own(shell'[o][1]))]
  BY DEF OwnOf, Own
<1>3. OwnOf'[s] = Len(Own(ed)) /\ \A o \in Shells \ {s} : OwnOf'[o] = OwnOf[o]
  BY <1>1, <1>2 DEF OwnOf
<1>4. Len(Own(ed)) \in 0..Capacity /\ OwnOf \in LenIn(Shells)
  BY OwnType, CountsType
<1>5. \A o \in Shells : OwnOf'[o] \in 0..Capacity
  BY <1>3, <1>4 DEF LenIn
<1>6. OwnOf' \in LenIn(Shells)
  BY <1>2, <1>5 DEF LenIn
<1>7. QED
  BY <1>3, <1>6

\* The numbers of lines after the shell has gone.
LEMMA OwnGone ==
  ASSUME FilesOK, NEW s \in Shells, shell' = [shell EXCEPT ![s] = <<>>]
  PROVE  /\ OwnOf' \in LenIn(Shells) /\ OwnOf'[s] = 0
         /\ \A o \in Shells \ {s} : OwnOf'[o] = OwnOf[o]
<1>1. shell'[s] = <<>> /\ \A o \in Shells \ {s} : shell'[o] = shell[o]
  BY DEF FilesOK
<1>2. OwnOf' = [o \in Shells |-> IF shell'[o] = <<>> THEN 0 ELSE Len(Own(shell'[o][1]))]
  BY DEF OwnOf, Own
<1>3. OwnOf'[s] = 0 /\ \A o \in Shells \ {s} : OwnOf'[o] = OwnOf[o]
  BY <1>1, <1>2 DEF OwnOf
<1>4. OwnOf \in LenIn(Shells)
  BY CountsType
<1>5. \A o \in Shells : OwnOf'[o] \in 0..Capacity
  BY <1>3, <1>4, HistoryAssumption DEF LenIn
<1>6. OwnOf' \in LenIn(Shells)
  BY <1>2, <1>5 DEF LenIn
<1>7. QED
  BY <1>3, <1>6

\* The numbers of lines after an editor has written its own to its file.
LEMMA FileAfter ==
  ASSUME FilesOK, NEW ed, IsEditor(ed), file' = [file EXCEPT ![FileOf[ed.conn]] = Flushed(@, ed)]
  PROVE  /\ FileOf[ed.conn] \in Files /\ InFile' \in LenIn(Files)
         /\ InFile'[FileOf[ed.conn]] <= InFile[FileOf[ed.conn]] + Len(Own(ed))
         /\ \A g \in Files \ {FileOf[ed.conn]} : InFile'[g] = InFile[g]
<1>1. PICK f \in Files : f = FileOf[ed.conn]
  BY DEF IsEditor, Files
<1>2. file'[f] = Flushed(file[f], ed) /\ \A g \in Files \ {f} : file'[g] = file[g]
  BY <1>1 DEF FilesOK
<1>3. /\ Len(Flushed(file[f], ed)) \in 0..Capacity
      /\ Len(Flushed(file[f], ed)) <= Len(file[f]) + Len(Own(ed))
  BY FlushedType, LenProperties, HistoryAssumption DEF FilesOK
<1>4. InFile' = [g \in Files |-> Len(file'[g])]
  BY DEF InFile
<1>5. InFile \in LenIn(Files)
  BY CountsType
<1>6. InFile'[f] <= InFile[f] + Len(Own(ed)) /\ \A g \in Files \ {f} : InFile'[g] = InFile[g]
  BY <1>2, <1>3, <1>4 DEF InFile
<1>7. \A g \in Files : InFile'[g] \in 0..Capacity
  BY <1>2, <1>3, <1>4, <1>5 DEF LenIn, InFile
<1>8. InFile' \in LenIn(Files)
  BY <1>4, <1>7 DEF LenIn
<1>9. QED
  BY <1>1, <1>6, <1>8

\* A line that is typed is counted once, and a flush moves it.
LEMMA CountedStep ==
  ASSUME TypeOK, Counted, [Next]_vars
  PROVE  Counted'
<1>1. /\ FilesOK /\ lines \in Nat
      /\ InFile \in LenIn(Files) /\ OwnOf \in LenIn(Shells)
      /\ IsFiniteSet(Slots(InFile, OwnOf)) /\ Cardinality(Slots(InFile, OwnOf)) <= lines
  BY CountsType DEF TypeOK, FilesOK, Counted
<1>2. ASSUME file' = file PROVE InFile' = InFile
  BY <1>2 DEF InFile
<1>3. ASSUME NEW s \in Shells, shell[s] # <<>>
      PROVE  OwnOf[s] = Len(Own(shell[s][1])) /\ FileOf[shell[s][1].conn] \in Files
  BY <1>1, <1>3, OpenShell DEF OwnOf
<1>4. ASSUME NEW s \in Shells, NEW new, Opens(s, new) PROVE Counted'
  <2>1. IsEditor(new) /\ shell' = [shell EXCEPT ![s] = <<new>>] /\ UNCHANGED <<file, lines>>
        /\ new.onDisk = Len(new.entries)
    BY <1>4 DEF Opens, Fresh
  <2>2. Len(Own(new)) = 0 /\ OwnOf[s] = 0
    <3>1. new.onDisk \in Nat
      BY <2>1 DEF IsEditor
    <3>2. QED
      BY <1>4, <2>1, <3>1, OwnType DEF Opens, OwnOf
  <2>3. \A o \in Shells : OwnOf'[o] = OwnOf[o]
    BY <1>1, <2>1, <2>2, OwnAfter
  <2>4. OwnOf' \in LenIn(Shells)
    BY <1>1, <2>1, OwnAfter
  <2>5. OwnOf' = OwnOf
    BY <1>1, <2>3, <2>4 DEF LenIn
  <2>6. QED
    BY <1>1, <1>2, <2>1, <2>5 DEF Counted
<1>5. ASSUME NEW s \in Shells, NEW line, NEW ed, Stays(s, line, ed) PROVE Counted'
  <2>1. Reader(s, line, ed) /\ shell' = [shell EXCEPT ![s] = <<ed>>] /\ file' = file
    BY <1>5 DEF Stays, Goes
  <2>2. /\ shell[s] # <<>> /\ IsEditor(ed) /\ lines' = lines + 1
        /\ Len(Own(ed)) <= Len(Own(shell[s][1])) + 1
    BY <1>1, <2>1, ReaderOf
  <2>3. /\ OwnOf' \in LenIn(Shells) /\ OwnOf'[s] <= OwnOf[s] + 1
        /\ \A o \in Shells \ {s} : OwnOf'[o] = OwnOf[o]
    BY <1>1, <1>3, <2>1, <2>2, OwnAfter
  <2>4. PICK own : own = OwnOf'
    OBVIOUS
  <2>5. /\ IsFiniteSet(Slots(InFile, own))
        /\ Cardinality(Slots(InFile, own)) <= Cardinality(Slots(InFile, OwnOf)) + 1
    BY <1>1, <2>3, <2>4, SlotsAdd
  <2>6. Cardinality(Slots(InFile, own)) <= lines + 1
    BY <1>1, <2>5, FS_CardinalityType
  <2>7. QED
    BY <1>2, <2>1, <2>2, <2>4, <2>5, <2>6 DEF Counted
<1>6. ASSUME NEW s \in Shells, NEW new, Rebuilds(s, new)
      PROVE  OwnOf' \in LenIn(Shells) /\ OwnOf'[s] = 0 /\ \A o \in Shells \ {s} : OwnOf'[o] = OwnOf[o]
  <2>1. shell' = [shell EXCEPT ![s] = <<new>>] /\ IsEditor(new) /\ new.onDisk = Len(new.entries)
    BY <1>6 DEF Rebuilds, Fresh
  <2>2. Len(Own(new)) = 0
    <3>1. new.onDisk \in Nat
      BY <2>1 DEF IsEditor
    <3>2. QED
      BY <2>1, <3>1, OwnType
  <2>3. QED
    BY <1>1, <2>1, <2>2, OwnAfter
<1>7. ASSUME NEW s \in Shells, (\E new : Rebuilds(s, new)) \/ Quit(s) \/ Kill(s) PROVE Counted'
  <2>1. shell[s] # <<>> /\ lines' = lines
    BY <1>7 DEF Rebuilds, Quit, Kill
  <2>2. IsEditor(shell[s][1]) /\ Len(Own(shell[s][1])) \in 0..Capacity
    BY <1>1, <2>1, OpenShell, OwnType
  <2>3. PICK own, inFile, f : f \in Files /\ own = OwnOf' /\ inFile = InFile' /\ f = FileOf[shell[s][1].conn]
    BY <1>3, <2>1
  <2>4. own \in LenIn(Shells) /\ own[s] = 0 /\ \A o \in Shells \ {s} : own[o] = OwnOf[o]
    <3>1. CASE \E new : Rebuilds(s, new)
      BY <1>6, <2>3, <3>1
    <3>2. CASE Quit(s) \/ Kill(s)
      <4>1. shell' = [shell EXCEPT ![s] = <<>>]
        BY <3>2 DEF Quit, Kill
      <4>2. QED
        BY <1>1, <2>3, <4>1, OwnGone
    <3>3. QED
      BY <1>7, <3>1, <3>2
  <2>5. /\ inFile \in LenIn(Files) /\ inFile[f] <= InFile[f] + Len(Own(shell[s][1]))
        /\ \A g \in Files \ {f} : inFile[g] = InFile[g]
    <3>1. CASE (\E new : Rebuilds(s, new)) \/ Quit(s)
      <4>1. file' = [file EXCEPT ![FileOf[shell[s][1].conn]] = Flushed(@, shell[s][1])]
        BY <3>1 DEF Rebuilds, Quit
      <4>2. QED
        BY <1>1, <2>2, <2>3, <4>1, FileAfter
    <3>2. CASE Kill(s)
      <4>1. inFile = InFile
        BY <1>2, <2>3, <3>2 DEF Kill
      <4>2. InFile[f] \in Nat
        BY <1>1, <2>3 DEF LenIn
      <4>3. QED
        BY <1>1, <2>2, <4>1, <4>2
    <3>3. QED
      BY <1>7, <3>1, <3>2
  <2>6. inFile[f] + own[s] <= InFile[f] + OwnOf[s]
    <3>1. inFile[f] \in Nat
      BY <2>3, <2>5 DEF LenIn
    <3>2. QED
      BY <1>3, <2>1, <2>4, <2>5, <3>1
  <2>7. /\ IsFiniteSet(Slots(inFile, own))
        /\ Cardinality(Slots(inFile, own)) <= Cardinality(Slots(InFile, OwnOf))
    BY <1>1, <2>3, <2>4, <2>5, <2>6, SlotsMove
  <2>8. Cardinality(Slots(inFile, own)) <= lines
    BY <1>1, <2>7, FS_CardinalityType
  <2>9. QED
    BY <2>1, <2>3, <2>7, <2>8 DEF Counted
<1>8. CASE Waits
  <2>1. UNCHANGED <<file, shell, lines>>
    BY <1>8 DEF Waits
  <2>2. OwnOf' = OwnOf
    BY <2>1 DEF OwnOf, Own
  <2>3. QED
    BY <1>1, <1>2, <2>1, <2>2 DEF Counted
<1>9. Tick \/ UNCHANGED vars => Waits
  BY DEF Tick, vars, ghosts, Waits
<1>10. QED
  BY <1>4, <1>5, <1>7, <1>8, <1>9, ShellCases DEF Next

-----------------------------------------------------------------------------
(* No line is lost while they all fit                                       *)

\* What DiskHolds and LinesReachTheFile say of shell s, when it is open.
Held(s) ==
  LET ed == shell[s][1]
      f  == FileOf[ed.conn]
  IN  /\ ed.onDisk <= Len(file[f]) /\ OnDisk(ed) \subseteq ToSet(file[f])
      /\ typed[s] \subseteq ToSet(file[f]) \union ToSet(Own(ed))

\* What a shell has still to write fits beside what its file holds.
LEMMA Room ==
  ASSUME FilesOK, Counted, NEW s \in Shells, shell[s] # <<>>
  PROVE  Len(file[FileOf[shell[s][1].conn]]) + Len(Own(shell[s][1])) <= lines
<1>1. PICK f \in Files : f = FileOf[shell[s][1].conn]
  BY OpenShell
<1>2. InFile \in LenIn(Files) /\ OwnOf \in LenIn(Shells)
  BY CountsType
<1>3. InFile[f] + OwnOf[s] <= Cardinality(Slots(InFile, OwnOf))
  BY <1>2, SlotsBound DEF Counted
<1>4. Cardinality(Slots(InFile, OwnOf)) <= lines /\ Cardinality(Slots(InFile, OwnOf)) \in Nat
      /\ lines \in Nat
  BY FS_CardinalityType DEF Counted, FilesOK
<1>5. InFile[f] = Len(file[f]) /\ OwnOf[s] = Len(Own(shell[s][1]))
  BY DEF InFile, OwnOf
<1>6. InFile[f] \in Nat /\ OwnOf[s] \in Nat
  BY <1>2 DEF LenIn
<1>7. InFile[f] + OwnOf[s] <= lines
  BY <1>3, <1>4, <1>6
<1>8. QED
  BY <1>1, <1>5, <1>7

\* There is room for one line more.
LEMMA OneMore ==
  ASSUME NEW k \in Nat, NEW m \in Nat, NEW n \in Nat, NEW l \in Nat, NEW c \in Nat,
         k + m <= l, n <= m + 1, l < c
  PROVE  k + n <= c
OBVIOUS

\* A reader has all that was typed in its shell on file or to write, and its
\* lines fit in the file.
LEMMA ReaderKeeps ==
  ASSUME FilesOK, Counted, NEW s \in Shells, NEW line, NEW ed, Reader(s, line, ed),
         lines < Capacity, Held(s)
  PROVE  /\ Len(file[FileOf[ed.conn]]) + Len(Own(ed)) <= Capacity
         /\ ed.onDisk <= Len(file[FileOf[ed.conn]])
         /\ OnDisk(ed) \subseteq ToSet(file[FileOf[ed.conn]])
         /\ typed'[s] \subseteq ToSet(file[FileOf[ed.conn]]) \union ToSet(Own(ed))
         /\ \A o \in Shells \ {s} : typed'[o] = typed[o]
<1> DEFINE old == shell[s][1]
<1>1. /\ shell[s] # <<>> /\ line \in Lines /\ IsEditor(ed) /\ ed.conn = old.conn
      /\ Own(ed) = Own(Entered(old, line)) /\ OnDisk(ed) = OnDisk(Entered(old, line))
      /\ Len(Own(ed)) <= Len(Own(old)) + 1
  BY ReaderOf
<1>2. IsEditor(old) /\ Len(file[FileOf[old.conn]]) \in 0..Capacity
  BY <1>1, OpenShell
<1>3. PICK f : f = FileOf[old.conn] /\ f = FileOf[ed.conn]
  BY <1>1
<1>4. Len(file[f]) + Len(Own(old)) <= lines
  BY <1>1, <1>3, Room
<1>5. /\ Len(old.entries) \in Nat /\ old.onDisk \in Nat /\ Len(Own(old)) \in Nat
      /\ Len(Own(old)) = Len(old.entries) - old.onDisk
  BY <1>2, OwnType, LenProperties DEF IsEditor
<1>6. old.onDisk <= Len(file[f]) /\ OnDisk(old) \subseteq ToSet(file[f])
      /\ typed[s] \subseteq ToSet(file[f]) \union ToSet(Own(old))
  BY <1>3 DEF Held
<1>7. lines \in Nat /\ Capacity \in Nat /\ Len(file[f]) \in Nat /\ Len(Own(ed)) \in Nat
  BY <1>1, <1>2, <1>3, OwnType, HistoryAssumption DEF FilesOK
<1>8. Len(old.entries) < Capacity
  BY <1>4, <1>5, <1>6, <1>7, SMTT(30)
<1>9. /\ Entered(old, line).onDisk = old.onDisk
      /\ OnDisk(Entered(old, line)) = OnDisk(old)
      /\ ToSet(Own(old)) \subseteq ToSet(Own(Entered(old, line)))
      /\ line \in OnDisk(old) \union ToSet(Own(Entered(old, line)))
  BY <1>1, <1>2, <1>8, EnteredKeeps
<1>10. ed.onDisk = old.onDisk
  BY <1>9 DEF Reader, SameLines
<1>11. typed'[s] = typed[s] \union {line} /\ \A o \in Shells \ {s} : typed'[o] = typed[o]
  BY DEF Reader, Reads, FilesOK
<1>12. Len(file[f]) + Len(Own(ed)) <= Capacity
  <2>1. PICK k, m, n, l, c : /\ k = Len(file[f]) /\ m = Len(Own(old)) /\ n = Len(Own(ed))
                             /\ l = lines /\ c = Capacity
    OBVIOUS
  <2>2. k \in Nat /\ m \in Nat /\ n \in Nat /\ l \in Nat /\ c \in Nat
    BY <1>5, <1>7, <2>1
  <2>3. k + m <= l /\ n <= m + 1 /\ l < c
    BY <1>1, <1>4, <2>1
  <2>4. k + n <= c
    BY <2>2, <2>3, OneMore
  <2>5. QED
    BY <2>1, <2>4
<1>13. typed'[s] \subseteq ToSet(file[f]) \union ToSet(Own(ed))
  BY <1>1, <1>6, <1>9, <1>11
<1>14. OnDisk(ed) \subseteq ToSet(file[f])
  BY <1>1, <1>6, <1>9
<1>15. QED
  BY <1>3, <1>6, <1>10, <1>11, <1>12, <1>13, <1>14

\* The files lose nothing.
FilesGrow == \A f \in Files : Len(file[f]) <= Len(file'[f]) /\ ToSet(file[f]) \subseteq ToSet(file'[f])

\* A flush for which there is room loses no line.
LEMMA FlushKeeps ==
  ASSUME FilesOK, NEW ed, IsEditor(ed), file' = [file EXCEPT ![FileOf[ed.conn]] = Flushed(@, ed)],
         Len(file[FileOf[ed.conn]]) + Len(Own(ed)) <= Capacity
  PROVE  FilesGrow /\ ToSet(Own(ed)) \subseteq ToSet(file'[FileOf[ed.conn]])
<1>1. PICK f \in Files : f = FileOf[ed.conn]
  BY DEF IsEditor, Files
<1>2. file'[f] = Flushed(file[f], ed) /\ \A g \in Files \ {f} : file'[g] = file[g]
  BY <1>1 DEF FilesOK
<1>3. file[f] \in Seq(Lines) /\ Len(file[f]) \in Nat /\ Len(file[f]) <= Capacity /\ Len(Own(ed)) \in Nat
  BY OwnType, LenProperties DEF FilesOK
<1>4. /\ ToSet(Own(ed)) \subseteq ToSet(Flushed(file[f], ed))
      /\ Len(Flushed(file[f], ed)) = Len(file[f]) + Len(Own(ed))
      /\ ToSet(file[f]) \subseteq ToSet(Flushed(file[f], ed))
  BY <1>1, <1>3, FlushedType
<1>5. Len(file[f]) <= Len(file'[f]) /\ ToSet(file[f]) \subseteq ToSet(file'[f])
  BY <1>2, <1>3, <1>4
<1>6. ASSUME NEW g \in Files \ {f}
      PROVE  Len(file[g]) <= Len(file'[g]) /\ ToSet(file[g]) \subseteq ToSet(file'[g])
  BY <1>2, LenProperties DEF FilesOK
<1>7. FilesGrow
  BY <1>5, <1>6 DEF FilesGrow
<1>8. QED
  BY <1>1, <1>2, <1>4, <1>7

\* A shell that does nothing keeps its lines.
LEMMA HeldFrame ==
  ASSUME FilesOK, FilesGrow, NEW o \in Shells, shell[o] # <<>>, Held(o),
         shell'[o] = shell[o], typed'[o] = typed[o]
  PROVE  Held(o)'
<1>1. PICK ed, f : f \in Files /\ ed = shell[o][1] /\ ed = shell'[o][1] /\ f = FileOf[ed.conn]
                    /\ IsEditor(ed)
  BY OpenShell
<1>2. /\ ed.onDisk <= Len(file[f]) /\ OnDisk(ed) \subseteq ToSet(file[f])
      /\ typed[o] \subseteq ToSet(file[f]) \union ToSet(Own(ed))
  BY <1>1 DEF Held
<1>3. Len(file[f]) <= Len(file'[f]) /\ ToSet(file[f]) \subseteq ToSet(file'[f])
  BY <1>1 DEF FilesGrow
<1>4. ed.onDisk \in Nat /\ Len(file[f]) \in Nat
  BY <1>1, LenProperties DEF IsEditor, FilesOK
<1>5. ed.onDisk <= Len(file'[f])
  BY <1>2, <1>3, <1>4
<1>6. QED
  BY <1>1, <1>2, <1>3, <1>5 DEF Held, OnDisk, Own

\* Files grow, and what is typed is kept: the shell that takes the step has
\* Held(s) after it, the others as they had it.
LEMMA HeldByAll ==
  ASSUME FilesOK, FilesGrow, NEW s \in Shells,
         \A o \in Shells : shell[o] # <<>> => Held(o),
         \A o \in Shells \ {s} : shell'[o] = shell[o] /\ typed'[o] = typed[o],
         shell'[s] # <<>> => Held(s)'
  PROVE  \A o \in Shells : shell'[o] # <<>> => Held(o)'
<1>1. SUFFICES ASSUME NEW o \in Shells, shell'[o] # <<>>, o # s PROVE Held(o)'
  OBVIOUS
<1>2. shell'[o] = shell[o] /\ typed'[o] = typed[o]
  BY <1>1
<1>3. QED
  BY <1>1, <1>2, HeldFrame

\* What is held, in the terms of the invariants.
LEMMA HeldIs ==
  (DiskHolds /\ LinesReachTheFile) <=>
    /\ \A f \in Files : Len(file[f]) <= Capacity
    /\ lines <= Capacity =>
         /\ \A f \in Files : left[f] \subseteq ToSet(file[f])
         /\ \A s \in Shells : shell[s] # <<>> => Held(s)
BY DEF DiskHolds, LinesReachTheFile, Held

\* An editor that has just read its file has nothing to write.
LEMMA FreshHolds ==
  ASSUME FilesOK, NEW c \in Conns, NEW new, Fresh(new, c)
  PROVE  /\ new.onDisk = Len(file[FileOf[c]]) /\ new.conn = c
         /\ OnDisk(new) = ToSet(file[FileOf[c]]) /\ ToSet(Own(new)) = {}
<1>1. /\ IsEditor(new) /\ new.conn = c /\ new.entries = file[FileOf[c]]
      /\ new.onDisk = Len(new.entries)
  BY DEF Fresh
<1>2. new.entries \in Seq(Lines) /\ Len(new.entries) \in Nat /\ new.onDisk \in Nat
  BY <1>1, LenProperties DEF IsEditor
<1>3. Len(Own(new)) = 0
  BY <1>1, <1>2, OwnType
<1>4. ToSet(Own(new)) = {}
  <2>1. Own(new) \in Seq(Lines)
    BY <1>1, OwnType
  <2>2. DOMAIN Own(new) = {}
    BY <1>3, <2>1, LenProperties
  <2>3. QED
    BY <1>3, <2>1, <2>2 DEF ToSet
<1>5. DOMAIN new.entries = 1..Len(new.entries)
  BY <1>2, LenProperties
<1>6. OnDisk(new) = ToSet(file[FileOf[c]])
  BY <1>1, <1>5 DEF OnDisk, ToSet
<1>7. QED
  BY <1>1, <1>4, <1>6

\* A line that is typed is in the file, or will be, until its shell dies.
LEMMA ReachStep ==
  ASSUME TypeOK, Counted, DiskHolds, LinesReachTheFile, [Next]_vars
  PROVE  DiskHolds' /\ LinesReachTheFile'
<1>1. /\ FilesOK /\ FilesOK' /\ lines \in Nat /\ Capacity \in Nat
  BY FilesType, HistoryAssumption DEF TypeOK, FilesOK
<1>2. \A f \in Files : Len(file'[f]) <= Capacity
  BY <1>1 DEF FilesOK
<1> DEFINE Kept == /\ \A f \in Files : left[f] \subseteq ToSet(file[f])
                   /\ \A o \in Shells : shell[o] # <<>> => Held(o)
<1>3. SUFFICES ASSUME lines' <= Capacity PROVE Kept'
  BY <1>2 DEF Kept, DiskHolds, LinesReachTheFile, Held
<1>4. ASSUME lines <= Capacity PROVE Kept
  BY <1>4, HeldIs DEF Kept
<1>5. ASSUME FilesGrow, Kept, left' = left
      PROVE  \A f \in Files : left'[f] \subseteq ToSet(file'[f])
  BY <1>5 DEF FilesGrow
<1>6. ASSUME file' = file PROVE FilesGrow
  BY <1>1, <1>6, LenProperties DEF FilesGrow, FilesOK
<1>7. ASSUME NEW s \in Shells, NEW ed, shell' = [shell EXCEPT ![s] = ed]
      PROVE  shell'[s] = ed /\ \A o \in Shells \ {s} : shell'[o] = shell[o]
  BY <1>1, <1>7 DEF FilesOK
<1>8. ASSUME NEW s \in Shells, NEW line, NEW ed, Reader(s, line, ed)
      PROVE  /\ lines < Capacity /\ Kept /\ left' = left
             /\ Len(file[FileOf[ed.conn]]) + Len(Own(ed)) <= Capacity
             /\ ed.onDisk <= Len(file[FileOf[ed.conn]])
             /\ OnDisk(ed) \subseteq ToSet(file[FileOf[ed.conn]])
             /\ typed'[s] \subseteq ToSet(file[FileOf[ed.conn]]) \union ToSet(Own(ed))
             /\ \A o \in Shells \ {s} : typed'[o] = typed[o]
  <2>1. shell[s] # <<>> /\ lines' = lines + 1 /\ left' = left
    BY <1>8 DEF Reader, Reads
  <2>2. lines < Capacity
    BY <1>1, <1>3, <2>1
  <2>3. Kept
    BY <1>1, <1>4, <2>2
  <2>4. Held(s)
    BY <2>1, <2>3
  <2>5. QED
    BY <1>1, <1>8, <2>1, <2>2, <2>3, <2>4, ReaderKeeps
<1>9. ASSUME NEW s \in Shells, NEW new, Opens(s, new) PROVE Kept'
  <2>1. /\ shell[s] = <<>> /\ Fresh(new, new.conn) /\ shell' = [shell EXCEPT ![s] = <<new>>]
        /\ typed'[s] = {} /\ \A o \in Shells \ {s} : typed'[o] = typed[o]
        /\ UNCHANGED <<file, lines, left>>
    BY <1>1, <1>9 DEF Opens, FilesOK
  <2>2. Kept /\ FilesGrow
    BY <1>3, <1>4, <1>6, <2>1
  <2>3. PICK f \in Files : f = FileOf[new.conn]
    BY <2>1 DEF Fresh, IsEditor, Files
  <2>4. new.onDisk = Len(file[f]) /\ OnDisk(new) = ToSet(file[f])
    BY <1>1, <2>1, <2>3, FreshHolds DEF Fresh, IsEditor
  <2>5. shell'[s] = <<new>> /\ \A o \in Shells \ {s} : shell'[o] = shell[o]
    BY <1>7, <2>1
  <2>6. Len(file[f]) <= Len(file'[f])
    BY <2>2 DEF FilesGrow
  <2>7. Held(s)'
    BY <2>1, <2>3, <2>4, <2>5, <2>6 DEF Held, OnDisk
  <2>8. \A o \in Shells : shell'[o] # <<>> => Held(o)'
    BY <1>1, <2>1, <2>2, <2>5, <2>7, HeldByAll
  <2>9. QED
    BY <1>5, <2>1, <2>2, <2>8
<1>10. ASSUME NEW s \in Shells, NEW line, NEW ed, Stays(s, line, ed) PROVE Kept'
  <2>1. Reader(s, line, ed) /\ shell' = [shell EXCEPT ![s] = <<ed>>] /\ file' = file
    BY <1>10 DEF Stays, Goes
  <2>2. /\ Kept /\ left' = left /\ FilesGrow
        /\ ed.onDisk <= Len(file[FileOf[ed.conn]])
        /\ OnDisk(ed) \subseteq ToSet(file[FileOf[ed.conn]])
        /\ typed'[s] \subseteq ToSet(file[FileOf[ed.conn]]) \union ToSet(Own(ed))
        /\ \A o \in Shells \ {s} : typed'[o] = typed[o]
    BY <1>6, <1>8, <2>1
  <2>3. shell'[s] = <<ed>> /\ \A o \in Shells \ {s} : shell'[o] = shell[o]
    BY <1>7, <2>1
  <2>4. Held(s)'
    BY <2>1, <2>2, <2>3 DEF Held, OnDisk, Own
  <2>5. \A o \in Shells : shell'[o] # <<>> => Held(o)'
    BY <1>1, <2>2, <2>3, <2>4, HeldByAll
  <2>6. QED
    BY <1>5, <2>2, <2>5
<1>11. ASSUME NEW s \in Shells, NEW new, Rebuilds(s, new) PROVE Kept'
  <2> PICK ed : ed = shell[s][1]
    OBVIOUS
  <2>1. /\ shell[s] # <<>> /\ IsEditor(ed) /\ Fresh(new, ed.conn)
        /\ shell' = [shell EXCEPT ![s] = <<new>>]
        /\ file' = [file EXCEPT ![FileOf[ed.conn]] = Flushed(@, ed)]
        /\ UNCHANGED <<lines, typed, left>>
    BY <1>1, <1>11, OpenShell DEF Rebuilds
  <2>2. /\ Kept /\ left' = left
        /\ Len(file[FileOf[ed.conn]]) + Len(Own(ed)) <= Capacity
        /\ typed'[s] \subseteq ToSet(file[FileOf[ed.conn]]) \union ToSet(Own(ed))
        /\ \A o \in Shells \ {s} : typed'[o] = typed[o]
    <3>1. Kept /\ Held(s)
      BY <1>3, <1>4, <2>1
    <3>2. Len(file[FileOf[ed.conn]]) + Len(Own(ed)) <= lines
      BY <1>1, <2>1, Room
    <3>3. Len(file[FileOf[ed.conn]]) \in Nat /\ Len(Own(ed)) \in Nat
      BY <1>1, <2>1, OpenShell, OwnType
    <3>4. lines <= Capacity
      BY <1>3, <2>1
    <3>5. \A k, m \in Nat : k + m <= lines => k + m <= Capacity
      BY <1>1, <3>4
    <3>6. Len(file[FileOf[ed.conn]]) + Len(Own(ed)) <= Capacity
      BY <3>2, <3>3, <3>5
    <3>7. QED
      BY <2>1, <3>1, <3>6 DEF Held
  <2>3. FilesGrow /\ ToSet(Own(ed)) \subseteq ToSet(file'[FileOf[ed.conn]])
    BY <1>1, <2>1, <2>2, FlushKeeps
  <2>4. PICK f \in Files : f = FileOf[ed.conn]
    BY <2>1 DEF IsEditor, Files
  <2>5. new.onDisk = Len(file[f]) /\ OnDisk(new) = ToSet(file[f]) /\ new.conn = ed.conn
    BY <1>1, <2>1, <2>4, FreshHolds DEF Fresh, IsEditor
  <2>6. shell'[s] = <<new>> /\ \A o \in Shells \ {s} : shell'[o] = shell[o]
    BY <1>7, <2>1
  <2>7. Len(file[f]) <= Len(file'[f]) /\ ToSet(file[f]) \subseteq ToSet(file'[f])
    BY <2>3 DEF FilesGrow
  <2>8. typed'[s] \subseteq ToSet(file'[f])
    BY <2>2, <2>3, <2>4, <2>7
  <2>9. Held(s)'
    BY <2>4, <2>5, <2>6, <2>7, <2>8 DEF Held, OnDisk
  <2>10. \A o \in Shells : shell'[o] # <<>> => Held(o)'
    BY <1>1, <2>2, <2>3, <2>6, <2>9, HeldByAll
  <2>11. QED
    BY <1>5, <2>2, <2>3, <2>10
<1>12. ASSUME NEW s \in Shells, Quit(s) PROVE Kept'
  <2>1. PICK ed, f : /\ f \in Files /\ ed = shell[s][1] /\ f = FileOf[ed.conn] /\ IsEditor(ed)
    BY <1>1, <1>12, OpenShell DEF Quit
  <2>2. /\ shell[s] # <<>> /\ shell' = [shell EXCEPT ![s] = <<>>] /\ lines' = lines
        /\ file' = [file EXCEPT ![f] = Flushed(@, ed)]
        /\ left' = [left EXCEPT ![f] = @ \union typed[s]]
        /\ \A o \in Shells \ {s} : typed'[o] = typed[o]
    BY <1>1, <1>12, <2>1 DEF Quit, FilesOK
  <2>3. Kept /\ Held(s)
    BY <1>3, <1>4, <2>2
  <2>4. Len(file[f]) + Len(Own(ed)) <= lines
    BY <1>1, <2>1, <2>2, Room
  <2>5. Len(file[f]) \in Nat /\ Len(Own(ed)) \in Nat
    BY <1>1, <2>1, OwnType, LenProperties DEF FilesOK
  <2>6. Len(file[f]) + Len(Own(ed)) <= Capacity
    BY <1>1, <1>3, <2>2, <2>4, <2>5
  <2>7. FilesGrow /\ ToSet(Own(ed)) \subseteq ToSet(file'[f])
    BY <1>1, <2>1, <2>2, <2>6, FlushKeeps
  <2>8. shell'[s] = <<>> /\ \A o \in Shells \ {s} : shell'[o] = shell[o]
    BY <1>7, <2>2
  <2>9. \A o \in Shells : shell'[o] # <<>> => Held(o)'
    BY <1>1, <2>2, <2>3, <2>7, <2>8, HeldByAll
  <2>10. typed[s] \subseteq ToSet(file'[f])
    BY <2>1, <2>3, <2>7 DEF Held, FilesGrow
  <2>11. \A g \in Files : left'[g] \subseteq ToSet(file'[g])
    BY <1>1, <2>2, <2>3, <2>7, <2>10 DEF FilesGrow, FilesOK
  <2>12. QED
    BY <2>9, <2>11
<1>13. ASSUME NEW s \in Shells, Kill(s) PROVE Kept'
  <2>1. /\ shell' = [shell EXCEPT ![s] = <<>>] /\ UNCHANGED <<file, lines, left>>
        /\ \A o \in Shells \ {s} : typed'[o] = typed[o]
    BY <1>1, <1>13 DEF Kill, FilesOK
  <2>2. Kept /\ FilesGrow
    BY <1>3, <1>4, <1>6, <2>1
  <2>3. shell'[s] = <<>> /\ \A o \in Shells \ {s} : shell'[o] = shell[o]
    BY <1>7, <2>1
  <2>4. \A o \in Shells : shell'[o] # <<>> => Held(o)'
    BY <1>1, <2>1, <2>2, <2>3, HeldByAll
  <2>5. QED
    BY <1>5, <2>1, <2>2, <2>4
<1>14. CASE Waits
  <2>1. UNCHANGED <<file, shell, lines, typed, left>>
    BY <1>14 DEF Waits
  <2>2. Kept
    BY <1>3, <1>4, <2>1
  <2>3. QED
    BY <2>1, <2>2 DEF Held, OnDisk, Own
<1>15. Tick \/ UNCHANGED vars => Waits
  BY DEF Tick, vars, ghosts, Waits
<1>16. QED
  BY <1>9, <1>10, <1>11, <1>12, <1>13, <1>14, <1>15, ShellCases DEF Next

-----------------------------------------------------------------------------
(* What is recorded                                                         *)

Entries == [conn : Conns, query : Queries, at : Nat]

\* A recording gives the query the one entry it has or a new one, of now, and
\* leaves what the other entries say.
Upserted(new, c, q) ==
  /\ DOMAIN history \subseteq DOMAIN new
  /\ \A i \in DOMAIN history :
       /\ new[i].conn = history[i].conn /\ new[i].query = history[i].query
       /\ i \notin RowOf(c, q) => new[i].at = history[i].at
       /\ i \in RowOf(c, q) => new[i].at = clock
  /\ \A i \in DOMAIN new \ DOMAIN history : new[i] = [conn |-> c, query |-> q, at |-> clock]
  /\ \E i \in DOMAIN new : new[i].conn = c /\ new[i].query = q

\* Recording a query keeps a list of entries, each with its last run.
LEMMA UpsertType ==
  ASSUME HistoryOK, NEW c \in Conns, NEW q \in Queries
  PROVE  Upsert(c, q) \in Seq(Entries) /\ Upserted(Upsert(c, q), c, q)
<1>1. /\ history \in Seq(Entries) /\ Len(history) \in Nat /\ DOMAIN history = 1..Len(history)
      /\ clock \in Nat /\ \A i \in DOMAIN history : history[i] \in Entries
  BY LenProperties, ElementOfSeq DEF HistoryOK, Entries
<1> DEFINE new == [conn |-> c, query |-> q, at |-> clock]
<1>2. new \in Entries /\ new.conn = c /\ new.query = q
  BY <1>1 DEF Entries
<1>3. CASE RowOf(c, q) = {}
  <2> HIDE DEF new
  <2>1. Upsert(c, q) = Append(history, new)
    BY <1>3 DEF Upsert, new
  <2>2. /\ Append(history, new) \in Seq(Entries)
        /\ DOMAIN Append(history, new) = 1..Len(history) + 1
        /\ \A i \in 1..Len(history) : Append(history, new)[i] = history[i]
        /\ Append(history, new)[Len(history) + 1] = new
    BY <1>1, <1>2, AppendProperties, LenProperties
  <2>3. \A i \in DOMAIN Append(history, new) \ DOMAIN history : i = Len(history) + 1
    BY <1>1, <2>2
  <2>4. DOMAIN history \subseteq DOMAIN Append(history, new)
        /\ Len(history) + 1 \in DOMAIN Append(history, new)
    BY <1>1, <2>2
  <2>5. QED
    BY <1>1, <1>2, <1>3, <2>1, <2>2, <2>3, <2>4 DEF new, Upserted
<1>4. CASE RowOf(c, q) # {}
  <2> DEFINE up == [i \in DOMAIN history |-> [history[i] EXCEPT !.at = IF i \in RowOf(c, q) THEN clock ELSE @]]
  <2>1. Upsert(c, q) = up /\ DOMAIN up = DOMAIN history
    BY <1>4 DEF Upsert
  <2>2. ASSUME NEW i \in DOMAIN history
        PROVE  /\ up[i] \in Entries /\ up[i].conn = history[i].conn /\ up[i].query = history[i].query
               /\ i \notin RowOf(c, q) => up[i].at = history[i].at
               /\ i \in RowOf(c, q) => up[i].at = clock
    BY <1>1 DEF Entries
  <2> HIDE DEF up
  <2>3. up \in [1..Len(history) -> Entries]
    <3>1. up = [i \in DOMAIN up |-> up[i]]
      BY DEF up
    <3>2. QED
      BY <1>1, <2>1, <2>2, <3>1
  <2>4. up \in Seq(Entries)
    BY <1>1, <2>3, SeqDef
  <2>5. PICK i \in DOMAIN history : history[i].conn = c /\ history[i].query = q
    BY <1>4 DEF RowOf
  <2>6. QED
    BY <2>1, <2>2, <2>4, <2>5 DEF Upserted
<1>5. QED
  BY <1>3, <1>4

Lists(s, n) ==
  /\ UNCHANGED <<history, ran>>
  /\ \E is \in Recent(shell[s][1].conn, n) :
       shell'[s][1].listed = [i \in is |-> history[i].query]

\* A shell keeps what it has listed until it lists again.
LEMMA ListedCases ==
  ASSUME TypeOK, NEW s \in Shells, ShellStep(s)
  PROVE  /\ \A o \in Shells \ {s} : shell'[o] = shell[o]
         /\ shell'[s] # <<>> =>
              \/ shell[s] = <<>> /\ shell'[s][1].listed = <<>>
              \/ shell[s] # <<>> /\ shell'[s][1].listed = shell[s][1].listed
              \/ shell[s] # <<>> /\ \E n \in {Limit} \union Counts : Lists(s, n)
<1> DEFINE Other == \A o \in Shells \ {s} : shell'[o] = shell[o]
           Same  == shell'[s][1].listed = shell[s][1].listed
<1>1. FilesOK
  BY DEF TypeOK
<1>2. ASSUME NEW ed, shell' = [shell EXCEPT ![s] = ed] PROVE Other /\ shell'[s] = ed
  BY <1>1, <1>2 DEF FilesOK
<1>3. ASSUME NEW line \in Lines, Reads(s, line)
      PROVE  /\ shell[s] # <<>> /\ IsEditor(Entered(shell[s][1], line))
             /\ Entered(shell[s][1], line).listed = shell[s][1].listed
             /\ Entered(shell[s][1], line).conn \in Conns
  <2>1. shell[s] # <<>> /\ IsEditor(shell[s][1])
    BY <1>1, <1>3, OpenShell DEF Reads
  <2>2. QED
    BY <2>1, EnteredType DEF IsEditor
<1>4. ASSUME NEW line \in Lines, Reads(s, line), Goes(s, Entered(shell[s][1], line))
      PROVE  Other /\ shell[s] # <<>> /\ Same
  BY <1>2, <1>3, <1>4 DEF Goes
<1>5. ASSUME shell[s] # <<>>, Rebuild(s, shell[s][1])
      PROVE  Other /\ shell[s] # <<>> /\ Same
  <2> DEFINE ed == shell[s][1]
  <2>1. ed.conn \in Conns /\ ed.listed = shell[s][1].listed /\ shell[s] # <<>>
    BY <1>1, <1>5 DEF FilesOK, IsEditor
  <2>2. PICK new : new.listed = ed.listed /\ shell' = [shell EXCEPT ![s] = <<new>>]
    <3>1. Build(s, ed.conn, ed.listed)
      BY <1>5 DEF Rebuild
    <3> HIDE DEF ed
    <3>2. QED
      BY <1>1, <2>1, <3>1, BuildNew
  <2>3. shell'[s] = <<new>> /\ Other
    BY <1>2, <2>2
  <2>4. QED
    BY <2>1, <2>2, <2>3
<1>6. Command \in Lines /\ Queries \subseteq Lines
  BY DEF Lines
<1>7. ASSUME NEW q, NEW line \in Lines, Reads(s, line), Execute(s, Entered(shell[s][1], line), q)
      PROVE  Other /\ shell[s] # <<>> /\ Same
  BY <1>4, <1>7 DEF Execute
<1>8. ASSUME NEW c \in Conns, Open(s, c) PROVE Other /\ shell[s] = <<>> /\ shell'[s][1].listed = <<>>
  <2>1. PICK new : new.listed = <<>> /\ shell' = [shell EXCEPT ![s] = <<new>>]
    BY <1>1, <1>8, BuildNew DEF Open
  <2>2. shell'[s] = <<new>> /\ Other
    BY <1>2, <2>1
  <2>3. QED
    BY <1>8, <2>1, <2>2 DEF Open
<1>9. ASSUME NEW q \in Queries, Type(s, q) \/ Edit(s, q) PROVE Other /\ shell[s] # <<>> /\ Same
  <2>1. CASE Type(s, q)
    BY <1>6, <1>7, <2>1 DEF Type
  <2>2. CASE Edit(s, q)
    BY <1>6, <1>7, <2>2 DEF Edit
  <2>3. QED
    BY <1>9, <2>1, <2>2
<1>10. ASSUME NEW name \in Names, Run(s, name) PROVE Other /\ shell[s] # <<>> /\ Same
  BY <1>6, <1>7, <1>10 DEF Run
<1>11. ASSUME NEW name \in Names, Unsave(s, name) PROVE Other /\ shell[s] # <<>> /\ Same
  <2>1. Reads(s, Command) /\ Goes(s, Entered(shell[s][1], Command))
    BY <1>11 DEF Unsave
  <2>2. QED
    BY <1>4, <1>6, <2>1
<1>12. ASSUME NEW name, NEW id, Save(s, name, id) PROVE Other /\ shell[s] # <<>> /\ Same
  <2>1. Reads(s, Command) /\ Goes(s, Entered(shell[s][1], Command))
    BY <1>12 DEF Save
  <2>2. QED
    BY <1>4, <1>6, <2>1
<1>13. ASSUME NEW n, ListHistory(s, n) PROVE Other /\ shell[s] # <<>> /\ Lists(s, n)
  <2>1. PICK is \in Recent(shell[s][1].conn, n) :
          shell' = [shell EXCEPT ![s] = <<[Entered(shell[s][1], Command) EXCEPT !.listed = [i \in is |-> history[i].query]]>>]
    BY <1>13 DEF ListHistory, Goes
  <2> DEFINE old == Entered(shell[s][1], Command)
             ed  == [old EXCEPT !.listed = [i \in is |-> history[i].query]]
  <2>2. shell'[s] = <<ed>> /\ Other
    BY <1>2, <2>1
  <2>3. IsEditor(old) /\ shell[s] # <<>>
    BY <1>3, <1>6, <1>13 DEF ListHistory
  <2>4. ed.listed = [i \in is |-> history[i].query]
    <3> HIDE DEF old
    <3>1. QED
      BY <2>3 DEF IsEditor
  <2> HIDE DEF ed
  <2>5. QED
    BY <1>13, <2>2, <2>3, <2>4 DEF Lists, ListHistory, records
<1>14. CASE Refresh(s)
  <2>1. Reads(s, Command) /\ Goes(s, Entered(shell[s][1], Command))
    BY <1>14 DEF Refresh
  <2>2. QED
    BY <1>4, <1>6, <2>1
<1>15. CASE RecordAccess(s)
  BY <1>15 DEF RecordAccess
<1>16. CASE Refreshed(s)
  BY <1>5, <1>16 DEF Refreshed
<1>17. CASE Quit(s) \/ Kill(s)
  BY <1>2, <1>17 DEF Quit, Kill
<1>18. QED
  BY <1>8, <1>9, <1>10, <1>11, <1>12, <1>13, <1>14, <1>15, <1>16, <1>17 DEF ShellStep

\* The history row of a statement is written.
Recorded(c, q) ==
  /\ history' = Upsert(c, q)
  /\ ran' = [ran EXCEPT ![c][q] = [times |-> @.times + 1, last |-> clock]]
  /\ UNCHANGED <<access, lost>>

\* Shell s has no rows to write, before the step and after it, ...
Plain(s) ==
  /\ todo[s].refs = {} /\ UNCHANGED <<history, access, ran, lost>>
  /\ \E b \in BOOLEAN : /\ todo' = [todo EXCEPT ![s] = [refs |-> {}, rebuild |-> b]]
                        /\ b => shell'[s] # <<>>

\* ... or has those of a statement that it has just run.
Starts(s, c, q) ==
  /\ shell[s] # <<>> /\ shell[s][1].conn = c
  /\ shell'[s] # <<>> /\ shell'[s][1].conn = c
  /\ todo[s] = Idle /\ todo' = [todo EXCEPT ![s] = [refs |-> RefsOf(q), rebuild |-> q \in Ddl]]
  /\ Recorded(c, q)

\* To the rows a step is one of four things.
LEMMA TodoCases ==
  ASSUME TypeOK, NEW s \in Shells, ShellStep(s)
  PROVE  Plain(s) \/ (\E c \in Conns, q \in Queries : Starts(s, c, q)) \/ RecordAccess(s) \/ Kill(s)
<1> DEFINE Started == \E c \in Conns, q \in Queries : Starts(s, c, q)
<1>1. FilesOK /\ TodoOK
  BY DEF TypeOK
<1>2. ASSUME NEW ed, shell' = [shell EXCEPT ![s] = ed] PROVE shell'[s] = ed
  BY <1>1, <1>2 DEF FilesOK
<1>3. ASSUME todo[s] = Idle, UNCHANGED records PROVE Plain(s)
  <2>1. todo' = [todo EXCEPT ![s] = [refs |-> {}, rebuild |-> FALSE]]
    BY <1>1, <1>3 DEF records, TodoOK, Idle
  <2>2. todo[s].refs = {} /\ UNCHANGED <<history, access, ran, lost>>
    BY <1>3 DEF records, Idle
  <2>3. QED
    BY <2>1, <2>2, Zenon DEF Plain
<1>4. ASSUME NEW line \in Lines, NEW q \in Queries, Reads(s, line), Execute(s, Entered(shell[s][1], line), q)
      PROVE  Plain(s) \/ Started
  <2>1. PICK ed : ed = Entered(shell[s][1], line)
    OBVIOUS
  <2>2. shell[s] # <<>> /\ todo[s] = Idle /\ IsEditor(shell[s][1])
    BY <1>1, <1>4, OpenShell DEF Reads
  <2>3. IsEditor(ed) /\ ed.conn = shell[s][1].conn
    BY <2>1, <2>2, EnteredType
  <2>4. shell'[s] = <<ed>> /\ UNCHANGED <<access, lost>>
    BY <1>2, <1>4, <2>1 DEF Execute, Goes
  <2>5. CASE UNCHANGED <<history, todo, ran>>
    BY <1>3, <2>2, <2>4, <2>5 DEF records
  <2>6. CASE /\ history' = Upsert(ed.conn, q)
             /\ ran' = [ran EXCEPT ![ed.conn][q] = [times |-> @.times + 1, last |-> clock]]
             /\ todo' = [todo EXCEPT ![s] = [refs |-> RefsOf(q), rebuild |-> q \in Ddl]]
    <3>1. PICK c \in Conns : c = ed.conn
      BY <2>3 DEF IsEditor
    <3>2. Starts(s, c, q)
      BY <2>2, <2>3, <2>4, <2>6, <3>1 DEF Starts, Recorded
    <3>3. QED
      BY <3>2
  <2>7. CASE /\ UNCHANGED <<history, ran>>
             /\ todo' = [todo EXCEPT ![s] = [refs |-> {}, rebuild |-> q \in Ddl]]
    <3>1. todo[s].refs = {} /\ shell'[s] # <<>> /\ UNCHANGED <<history, access, ran, lost>>
      BY <2>2, <2>4, <2>7 DEF Idle
    <3>2. (q \in Ddl) \in BOOLEAN
      OBVIOUS
    <3>3. QED
      BY <2>7, <3>1, <3>2, Zenon DEF Plain
  <2>8. QED
    BY <1>4, <2>1, <2>5, <2>6, <2>7 DEF Execute
<1>5. Command \in Lines /\ Queries \subseteq Lines
  BY DEF Lines
<1>6. ASSUME NEW c \in Conns, Open(s, c) PROVE Plain(s)
  BY <1>1, <1>3, <1>6 DEF Open, TodoOK
<1>7. ASSUME NEW q \in Queries, Type(s, q) PROVE Plain(s) \/ Started
  BY <1>4, <1>5, <1>7 DEF Type
<1>8. ASSUME NEW q \in Queries, Edit(s, q) PROVE Plain(s) \/ Started
  BY <1>4, <1>5, <1>8 DEF Edit
<1>9. ASSUME NEW name \in Names, Run(s, name) PROVE Plain(s) \/ Started
  <2>1. PICK x \in saved : Reads(s, Command) /\ Execute(s, Entered(shell[s][1], Command), x.sql)
    BY <1>9 DEF Run
  <2>2. PICK q \in Queries : q = x.sql
    BY DEF TypeOK, HistoryOK
  <2>3. Execute(s, Entered(shell[s][1], Command), q)
    BY <2>1, <2>2
  <2>4. QED
    BY <1>4, <1>5, <2>1, <2>3
<1>10. ASSUME NEW name \in Names, Unsave(s, name) PROVE Plain(s)
  BY <1>3, <1>10 DEF Unsave, Reads
<1>11. ASSUME NEW name, NEW id, Save(s, name, id) PROVE Plain(s)
  BY <1>3, <1>11 DEF Save, Reads
<1>12. ASSUME NEW n, ListHistory(s, n) PROVE Plain(s)
  BY <1>3, <1>12 DEF ListHistory, Reads
<1>13. CASE Refresh(s)
  <2>1. todo[s] = Idle /\ shell'[s] # <<>> /\ UNCHANGED <<history, access, ran, lost>>
    BY <1>2, <1>13 DEF Refresh, Reads, Goes
  <2>2. todo' = [todo EXCEPT ![s] = [refs |-> {}, rebuild |-> TRUE]]
    BY <1>13 DEF Refresh
  <2>3. todo[s].refs = {}
    BY <2>1 DEF Idle
  <2>4. QED
    BY <2>1, <2>2, <2>3, Zenon DEF Plain
<1>14. CASE Refreshed(s)
  BY <1>14 DEF Refreshed, Plain, Idle
<1>15. CASE Quit(s)
  BY <1>3, <1>15 DEF Quit
<1>16. QED
  BY <1>6, <1>7, <1>8, <1>9, <1>10, <1>11, <1>12, <1>13, <1>14, <1>15 DEF ShellStep

\* What is left to do stays so much, and nothing is left to a shell that is gone.
LEMMA TodoType ==
  ASSUME TypeOK, [Next]_vars
  PROVE  TodoOK'
<1>1. FilesOK /\ TodoOK
  BY DEF TypeOK
<1>2. ASSUME NEW s \in Shells, ShellStep(s) PROVE TodoOK'
  <2>1. \A o \in Shells \ {s} : shell'[o] = shell[o]
    BY <1>2, ListedCases
  <2>2. ASSUME NEW new \in [refs : SUBSET Refs, rebuild : BOOLEAN], todo' = [todo EXCEPT ![s] = new],
               shell'[s] = <<>> => new = Idle
        PROVE  TodoOK'
    BY <1>1, <2>1, <2>2 DEF TodoOK
  <2>3. CASE Plain(s)
    <3>1. PICK b \in BOOLEAN : /\ todo' = [todo EXCEPT ![s] = [refs |-> {}, rebuild |-> b]]
                               /\ b => shell'[s] # <<>>
      BY <2>3 DEF Plain
    <3>2. shell'[s] = <<>> => [refs |-> {}, rebuild |-> b] = Idle
      BY <3>1 DEF Idle
    <3>3. QED
      BY <2>2, <3>1, <3>2
  <2>4. ASSUME NEW c, NEW q \in Queries, Starts(s, c, q) PROVE TodoOK'
    <3>1. RefsOf(q) \subseteq Refs
      BY DEF RefsOf, Refs, Tables, Columns
    <3>2. [refs |-> RefsOf(q), rebuild |-> q \in Ddl] \in [refs : SUBSET Refs, rebuild : BOOLEAN]
      BY <3>1
    <3>3. QED
      BY <2>2, <2>4, <3>2 DEF Starts
  <2>5. CASE RecordAccess(s)
    <3>1. PICK r, written : todo' = [todo EXCEPT ![s] = [refs |-> Rest(@.refs, r, written), rebuild |-> @.rebuild]]
      BY <2>5 DEF RecordAccess
    <3>2. todo[s].refs \subseteq Refs /\ todo[s].rebuild \in BOOLEAN
      BY <1>1 DEF TodoOK
    <3>3. todo' = [todo EXCEPT ![s] = [refs |-> Rest(todo[s].refs, r, written), rebuild |-> todo[s].rebuild]]
      BY <1>1, <3>1 DEF TodoOK
    <3>4. [refs |-> Rest(todo[s].refs, r, written), rebuild |-> todo[s].rebuild] \in [refs : SUBSET Refs, rebuild : BOOLEAN]
      BY <3>2 DEF Rest
    <3>5. shell'[s] # <<>>
      BY <2>5 DEF RecordAccess
    <3>6. QED
      BY <2>2, <3>3, <3>4, <3>5
  <2>6. CASE Kill(s)
    <3>1. Idle \in [refs : SUBSET Refs, rebuild : BOOLEAN]
      BY DEF Idle
    <3>2. QED
      BY <2>2, <2>6, <3>1 DEF Kill
  <2>7. QED
    BY <1>2, <2>3, <2>4, <2>5, <2>6, TodoCases
<1>3. CASE Tick \/ UNCHANGED vars
  BY <1>1, <1>3 DEF Tick, vars, records, TodoOK
<1>4. QED
  BY <1>2, <1>3 DEF Next

\* Statements are recorded as run, and nothing else is.
LEMMA RecordCases ==
  ASSUME TypeOK, [Next]_vars
  PROVE  /\ clock' \in Nat /\ saved' \subseteq [conn : Conns, name : Names, sql : Queries]
         /\ \/ \E c \in Conns, q \in Queries : Recorded(c, q)
            \/ UNCHANGED <<history, ran>>
<1> DEFINE Saves == saved' \subseteq [conn : Conns, name : Names, sql : Queries]
<1>1. FilesOK /\ HistoryOK
  BY DEF TypeOK
<1>2. ASSUME NEW s \in Shells, ShellStep(s)
      PROVE  (\E c \in Conns, q \in Queries : Recorded(c, q)) \/ UNCHANGED <<history, ran>>
  BY <1>2, TodoCases DEF Plain, Starts, RecordAccess, Kill
<1>3. ASSUME UNCHANGED saved PROVE Saves
  BY <1>1, <1>3 DEF HistoryOK
<1>4. ASSUME NEW s \in Shells, ShellStep(s) PROVE clock' = clock /\ Saves
  <2>1. ASSUME NEW c \in Conns, Open(s, c) PROVE clock' = clock /\ Saves
    BY <1>3, <2>1 DEF Open
  <2>2. ASSUME NEW q \in Queries, Type(s, q) \/ Edit(s, q) PROVE clock' = clock /\ Saves
    BY <1>3, <2>2 DEF Type, Edit, Reads
  <2>3. ASSUME NEW name \in Names, Run(s, name) PROVE clock' = clock /\ Saves
    BY <1>3, <2>3 DEF Run, Reads
  <2>4. ASSUME NEW name \in Names, Unsave(s, name) PROVE clock' = clock /\ Saves
    BY <1>1, <2>4 DEF Unsave, Reads, HistoryOK
  <2>5. ASSUME NEW name \in Names, NEW id \in DOMAIN history, Save(s, name, id)
        PROVE  clock' = clock /\ Saves
    <3>1. Reads(s, Command)
      BY <2>5 DEF Save
    <3>2. shell[s][1].conn \in Conns
      BY <1>1, <3>1, OpenShell DEF Reads, IsEditor
    <3>3. history[id].query \in Queries
      <4>1. history \in Seq(Entries)
        BY <1>1 DEF HistoryOK, Entries
      <4>2. history[id] \in Entries
        BY <2>5, <4>1, ElementOfSeq, LenProperties
      <4>3. QED
        BY <4>2 DEF Entries
    <3>4. Saves
      <4>1. \/ saved' = saved
            \/ saved' = saved \union {[conn |-> shell[s][1].conn, name |-> name, sql |-> history[id].query]}
        BY <2>5 DEF Save, Entry
      <4>2. saved \subseteq [conn : Conns, name : Names, sql : Queries]
        BY <1>1 DEF HistoryOK
      <4>3. [conn |-> shell[s][1].conn, name |-> name, sql |-> history[id].query] \in
              [conn : Conns, name : Names, sql : Queries]
        BY <3>2, <3>3
      <4>4. QED
        BY <4>1, <4>2, <4>3
    <3>5. QED
      BY <3>1, <3>4 DEF Reads
  <2>6. ASSUME NEW n, ListHistory(s, n) PROVE clock' = clock /\ Saves
    BY <1>3, <2>6 DEF ListHistory, Reads
  <2>7. ASSUME Refresh(s) \/ RecordAccess(s) \/ Refreshed(s) \/ Quit(s) \/ Kill(s) PROVE clock' = clock /\ Saves
    BY <1>3, <2>7 DEF Refresh, Reads, RecordAccess, Refreshed, Quit, Kill
  <2>8. QED
    BY <1>4, <2>1, <2>2, <2>3, <2>4, <2>5, <2>6, <2>7 DEF ShellStep
<1>5. CASE Tick
  BY <1>1, <1>3, <1>5 DEF Tick, HistoryOK, records
<1>6. CASE UNCHANGED vars
  BY <1>1, <1>3, <1>6 DEF vars, HistoryOK, records
<1>7. QED
  BY <1>1, <1>2, <1>4, <1>5, <1>6 DEF Next, HistoryOK

\* The rows stay rows.
LEMMA HistoryType ==
  ASSUME TypeOK, [Next]_vars
  PROVE  HistoryOK'
<1>1. HistoryOK
  BY DEF TypeOK
<1>2. clock' \in Nat /\ saved' \subseteq [conn : Conns, name : Names, sql : Queries]
  BY RecordCases
<1>3. ASSUME NEW c \in Conns, NEW q \in Queries, Recorded(c, q) PROVE HistoryOK'
  <2>1. history' \in Seq(Entries)
    BY <1>1, <1>3, UpsertType DEF Recorded
  <2>2. ran' \in [Conns -> [Queries -> [times : Nat, last : Nat]]]
    <3>1. [times |-> ran[c][q].times + 1, last |-> clock] \in [times : Nat, last : Nat]
      BY <1>1 DEF HistoryOK
    <3>2. QED
      BY <1>1, <1>3, <3>1 DEF Recorded, HistoryOK
  <2>3. QED
    BY <1>2, <2>1, <2>2 DEF HistoryOK, Entries
<1>4. CASE UNCHANGED <<history, ran>>
  BY <1>1, <1>2, <1>4 DEF HistoryOK
<1>5. QED
  BY <1>3, <1>4, RecordCases

\* A recording counts in ran what it writes to the history.
LEMMA RanAgreesStep ==
  ASSUME TypeOK, RanAgrees, [Next]_vars
  PROVE  RanAgrees'
<1>1. HistoryOK
  BY DEF TypeOK
<1>2. ASSUME NEW c \in Conns, NEW q \in Queries, Recorded(c, q) PROVE RanAgrees'
  <2>1. /\ ran'[c][q].times > 0 /\ ran'[c][q].last = clock
        /\ \A d \in Conns, p \in Queries : (d # c \/ p # q) => ran'[d][p] = ran[d][p]
    <3>1. ran[c][q].times \in Nat
      BY <1>1 DEF HistoryOK
    <3>2. QED
      BY <1>1, <1>2, <3>1 DEF Recorded, HistoryOK
  <2>2. PICK new : new = Upsert(c, q) /\ new = history'
    BY <1>2 DEF Recorded
  <2>3. Upserted(new, c, q)
    BY <1>1, <2>2, UpsertType
  <2>4. ASSUME NEW i \in DOMAIN new
        PROVE  ran'[new[i].conn][new[i].query].times > 0 /\ ran'[new[i].conn][new[i].query].last = new[i].at
    <3>1. CASE i \notin DOMAIN history
      BY <2>1, <2>3, <3>1 DEF Upserted
    <3>2. CASE i \in RowOf(c, q)
      BY <2>1, <2>3, <3>2 DEF RowOf, Upserted
    <3>3. CASE i \in DOMAIN history /\ i \notin RowOf(c, q)
      <4>1. history[i].conn \in Conns /\ history[i].query \in Queries
        <5>1. history \in Seq(Entries)
          BY <1>1 DEF HistoryOK, Entries
        <5>2. history[i] \in Entries
          BY <3>3, <5>1, ElementOfSeq, LenProperties
        <5>3. QED
          BY <5>2 DEF Entries
      <4>2. history[i].conn # c \/ history[i].query # q
        BY <3>3 DEF RowOf
      <4>3. ran'[history[i].conn][history[i].query] = ran[history[i].conn][history[i].query]
        BY <2>1, <4>1, <4>2
      <4>4. QED
        BY <2>3, <3>3, <4>3 DEF RanAgrees, Upserted
    <3>4. QED
      BY <3>1, <3>2, <3>3
  <2>5. ASSUME NEW d \in Conns, NEW p \in Queries, ran'[d][p].times > 0
        PROVE  \E i \in DOMAIN new : new[i].conn = d /\ new[i].query = p
    <3>1. CASE d = c /\ p = q
      BY <2>3, <3>1 DEF Upserted
    <3>2. CASE d # c \/ p # q
      BY <2>1, <2>3, <2>5, <3>2 DEF RanAgrees, Upserted
    <3>3. QED
      BY <3>1, <3>2
  <2>6. QED
    BY <2>2, <2>4, <2>5 DEF RanAgrees
<1>3. CASE UNCHANGED <<history, ran>>
  BY <1>3 DEF RanAgrees
<1>4. QED
  BY <1>2, <1>3, RecordCases

\* A recording changes neither the id nor the text of an entry.
LEMMA TextsStay ==
  ASSUME TypeOK, [Next]_vars, NEW id \in DOMAIN history
  PROVE  id \in DOMAIN history' /\ history'[id].query = history[id].query
<1>1. ASSUME NEW c \in Conns, NEW q \in Queries, Recorded(c, q)
      PROVE  id \in DOMAIN history' /\ history'[id].query = history[id].query
  BY <1>1, UpsertType DEF Recorded, TypeOK, Upserted
<1>2. QED
  BY <1>1, RecordCases

\* A shell lists entries as they are, and they stay so.
LEMMA ListedTrueStep ==
  ASSUME TypeOK, ListedTrue, [Next]_vars
  PROVE  ListedTrue'
<1>1. ASSUME NEW o \in Shells, shell[o] # <<>>, shell'[o] = shell[o]
      PROVE  \A id \in DOMAIN shell'[o][1].listed :
               id \in DOMAIN history' /\ history'[id].query = shell'[o][1].listed[id]
  BY <1>1, TextsStay DEF ListedTrue
<1>2. ASSUME NEW s \in Shells, ShellStep(s), shell'[s] # <<>>
      PROVE  \A id \in DOMAIN shell'[s][1].listed :
               id \in DOMAIN history' /\ history'[id].query = shell'[s][1].listed[id]
  <2>1. CASE shell[s] = <<>> /\ shell'[s][1].listed = <<>>
    BY <2>1
  <2>2. CASE shell[s] # <<>> /\ shell'[s][1].listed = shell[s][1].listed
    BY <2>2, TextsStay DEF ListedTrue
  <2>3. ASSUME NEW n, Lists(s, n)
        PROVE  \A id \in DOMAIN shell'[s][1].listed :
                 id \in DOMAIN history' /\ history'[id].query = shell'[s][1].listed[id]
    <3>1. PICK is : is \subseteq DOMAIN history /\ shell'[s][1].listed = [i \in is |-> history[i].query]
      BY <2>3 DEF Lists, Recent
    <3>2. QED
      BY <2>3, <3>1 DEF Lists
  <2>4. QED
    BY <1>2, <2>1, <2>2, <2>3, ListedCases
<1>3. ASSUME NEW s \in Shells, ShellStep(s) PROVE ListedTrue'
  <2>1. \A o \in Shells \ {s} : shell'[o] = shell[o]
    BY <1>3, ListedCases
  <2>2. QED
    BY <1>1, <1>2, <1>3, <2>1 DEF ListedTrue
<1>4. CASE Tick \/ UNCHANGED vars
  <2>1. shell' = shell /\ history' = history
    BY <1>4 DEF Tick, vars, records
  <2>2. QED
    BY <2>1 DEF ListedTrue
<1>5. QED
  BY <1>3, <1>4 DEF Next

-----------------------------------------------------------------------------
(* The ranks                                                                *)

\* Every set of numbers has a least one.
LEMMA LeastNumber ==
  ASSUME NEW T, T \subseteq Nat, T # {}
  PROVE  \E m \in T : \A k \in T : m <= k
<1>1. PICK m \in T : \A k \in T : <<k, m>> \notin OpToRel(<, Nat)
  BY WFMin, NatLessThanWellFounded, Zenon
<1>2. ASSUME NEW k \in T PROVE m <= k
  <2>1. k \in Nat /\ m \in Nat /\ ~(k < m)
    BY <1>1 DEF OpToRel
  <2>2. QED
    BY <2>1
<1>3. QED
  BY <1>2

\* The element that is taken from a set first when the numbers of it are added up.
Picked(s) == CHOOSE x \in s : TRUE

\* What is true of the empty set, and of a set if of that without the element
\* picked, is true of every part of a finite set.
LEMMA ByPicking ==
  ASSUME NEW S, IsFiniteSet(S), NEW T, {} \in T,
         \A s \in SUBSET S : s # {} /\ s \ {Picked(s)} \in T => s \in T
  PROVE  S \in T
<1> DEFINE bad == {s \in SUBSET S : s \notin T}
           sizes == {Cardinality(s) : s \in bad}
<1>1. \A s \in SUBSET S : IsFiniteSet(s) /\ Cardinality(s) \in Nat
  BY FS_Subset, FS_CardinalityType
<1>2. SUFFICES ASSUME bad # {} PROVE FALSE
  OBVIOUS
<1>3. PICK e \in sizes : \A k \in sizes : e <= k
  <2>1. sizes \subseteq Nat /\ sizes # {}
    BY <1>1, <1>2
  <2> HIDE DEF sizes
  <2>2. QED
    BY <2>1, LeastNumber
<1>4. PICK s \in bad : e = Cardinality(s)
  BY <1>3
<1>5. s # {} /\ s \in SUBSET S /\ s \notin T
  BY <1>4
<1>6. PICK x : x = Picked(s)
  OBVIOUS
<1>7. x \in s
  BY <1>5, <1>6 DEF Picked
<1>8. Cardinality(s \ {x}) = Cardinality(s) - 1 /\ Cardinality(s) \in Nat
  BY <1>1, <1>5, <1>7, FS_RemoveElement
<1>9. s \ {x} \in T
  <2>1. SUFFICES ASSUME s \ {x} \in bad PROVE FALSE
    BY <1>5
  <2>2. Cardinality(s \ {x}) \in sizes
    BY <2>1
  <2>3. e <= Cardinality(s \ {x})
    BY <1>3, <2>2, Zenon
  <2>4. PICK n \in Nat : n = Cardinality(s)
    BY <1>8
  <2>5. e = n /\ e <= n - 1
    BY <1>4, <1>8, <2>3, <2>4
  <2>6. QED
    BY <2>4, <2>5
<1>10. QED
  BY <1>5, <1>6, <1>9

\* An element more has as many pairs more as its number.
LEMMA TimesOne ==
  ASSUME NEW s, NEW v, NEW x \in s, v[x] \in Nat, IsFiniteSet(Times(v, s \ {x}))
  PROVE  IsFiniteSet(Times(v, s)) /\ Cardinality(Times(v, s)) = v[x] + Cardinality(Times(v, s \ {x}))
<1>1. PICK n \in Nat : n = v[x]
  OBVIOUS
<1>2. PICK A : A = Times(v, s \ {x})
  OBVIOUS
<1>3. PICK B : B = {x} \X (1 .. n)
  OBVIOUS
<1>4. Times(v, s) = A \cup B
  BY <1>1, <1>2, <1>3 DEF Times
<1>5. A \cap B = {}
  BY <1>2, <1>3 DEF Times
<1>6. IsFiniteSet(B) /\ Cardinality(B) = n
  <2>1. IsFiniteSet(1 .. n) /\ Cardinality(1 .. n) = n
    BY FS_Interval
  <2>2. IsFiniteSet({x}) /\ Cardinality({x}) = 1
    BY FS_Singleton
  <2>3. PICK P, Q : P = {x} /\ Q = 1 .. n
    OBVIOUS
  <2>4. IsFiniteSet(P \X Q) /\ Cardinality(P \X Q) = Cardinality(P) * Cardinality(Q)
    BY <2>1, <2>2, <2>3, FS_Product
  <2>5. QED
    BY <1>3, <2>1, <2>2, <2>3, <2>4
<1>7. IsFiniteSet(A \cup B) /\ Cardinality(A \cup B) = Cardinality(A) + Cardinality(B) - Cardinality(A \cap B)
  BY <1>2, <1>6, FS_Union
<1>8. Cardinality(A \cap B) = 0 /\ Cardinality(A) \in Nat
  BY <1>2, <1>5, FS_EmptySet, FS_CardinalityType
<1>9. QED
  BY <1>1, <1>2, <1>4, <1>6, <1>7, <1>8

\* Of finitely many elements there are finitely many pairs.
LEMMA TimesFinite ==
  ASSUME NEW S, IsFiniteSet(S), NEW v, \A q \in S : v[q] \in Nat
  PROVE  IsFiniteSet(Times(v, S))
<1> DEFINE T == {s \in SUBSET S : IsFiniteSet(Times(v, s))}
<1>1. {} \in T
  <2>1. Times(v, {}) = {}
    BY DEF Times
  <2>2. QED
    BY <2>1, FS_EmptySet
<1>2. ASSUME NEW s \in SUBSET S, s # {}, s \ {Picked(s)} \in T PROVE s \in T
  <2>1. PICK x : x = Picked(s)
    OBVIOUS
  <2>2. x \in s
    BY <1>2, <2>1 DEF Picked
  <2>3. v[x] \in Nat /\ IsFiniteSet(Times(v, s \ {x}))
    BY <1>2, <2>1, <2>2
  <2>4. QED
    BY <2>2, <2>3, TimesOne
<1>3. S \in T
  <2> HIDE DEF T
  <2>1. QED
    BY <1>1, <1>2, ByPicking
<1>4. QED
  BY <1>3

\* The sum of the numbers of the elements, added up as SumFunctionOnSet does.
LEMMA SumCounts ==
  ASSUME NEW S, IsFiniteSet(S), NEW v, \A q \in S : v[q] \in Nat
  PROVE  SumFunctionOnSet(v, S) = Cardinality(Times(v, S))
<1> DEFINE Adds(f) == f = [s \in SUBSET S |-> IF s = {} THEN 0 ELSE v[Picked(s)] + f[s \ {Picked(s)}]]
<1>1. PICK h : h = [s \in SUBSET S |-> Cardinality(Times(v, s))]
  OBVIOUS
<1>2. Adds(h)
  <2>1. ASSUME NEW s \in SUBSET S
        PROVE  h[s] = IF s = {} THEN 0 ELSE v[Picked(s)] + h[s \ {Picked(s)}]
    <3>1. CASE s = {}
      <4>1. Times(v, {}) = {}
        BY DEF Times
      <4>2. QED
        BY <1>1, <3>1, <4>1, FS_EmptySet
    <3>2. CASE s # {}
      <4>1. PICK x : x = Picked(s)
        OBVIOUS
      <4>2. x \in s
        BY <3>2, <4>1 DEF Picked
      <4>3. s \ {x} \in SUBSET S /\ IsFiniteSet(s \ {x})
        BY FS_Subset
      <4>4. v[x] \in Nat /\ \A q \in s \ {x} : v[q] \in Nat
        BY <4>2
      <4>5. IsFiniteSet(Times(v, s \ {x}))
        BY <4>3, <4>4, TimesFinite
      <4>6. Cardinality(Times(v, s)) = v[x] + Cardinality(Times(v, s \ {x}))
        BY <4>2, <4>4, <4>5, TimesOne
      <4>7. QED
        BY <1>1, <3>2, <4>1, <4>3, <4>6
    <3>3. QED
      BY <3>1, <3>2
  <2>2. h = [s \in SUBSET S |-> h[s]]
    BY <1>1
  <2>3. QED
    BY <2>1, <2>2
<1>3. PICK f : f = CHOOSE g : Adds(g)
  OBVIOUS
<1>4. Adds(f)
  BY <1>2, <1>3
<1>5. SumFunctionOnSet(v, S) = f[S]
  BY <1>3 DEF SumFunctionOnSet, FoldFunctionOnSet, MapThenFoldSet, Picked
<1> DEFINE T == {s \in SUBSET S : f[s] = h[s]}
<1>6. {} \in T
  BY <1>2, <1>4
<1>7. ASSUME NEW s \in SUBSET S, s # {}, s \ {Picked(s)} \in T PROVE s \in T
  BY <1>2, <1>4, <1>7
<1>8. S \in T
  <2> HIDE DEF T
  <2>1. QED
    BY <1>6, <1>7, ByPicking
<1>9. QED
  BY <1>1, <1>5, <1>8

\* Where the numbers are the same, so are the pairs, ...
LEMMA TimesSame ==
  ASSUME NEW S, NEW v, NEW w, \A p \in S : w[p] = v[p]
  PROVE  Times(w, S) = Times(v, S)
BY DEF Times

\* ... and one more adds a pair.
LEMMA TimesMore ==
  ASSUME NEW S, IsFiniteSet(S), NEW v, NEW w, \A p \in S : v[p] \in Nat,
         NEW q \in S, w[q] = v[q] + 1, \A p \in S \ {q} : w[p] = v[p]
  PROVE  Cardinality(Times(w, S)) = Cardinality(Times(v, S)) + 1
<1>1. PICK A : A = Times(v, S)
  OBVIOUS
<1>2. IsFiniteSet(A)
  BY <1>1, TimesFinite
<1>3. PICK n \in Nat : n = v[q]
  OBVIOUS
<1>4. PICK x : x = <<q, n + 1>>
  OBVIOUS
<1>5. Times(w, S) = A \cup {x}
  <2>1. ASSUME NEW p \in S, NEW k \in Nat
        PROVE  k \in 1 .. w[p] <=> k \in 1 .. v[p] \/ (p = q /\ k = n + 1)
    <3>1. CASE p = q
      BY <1>3, <3>1
    <3>2. CASE p # q
      BY <3>2
    <3>3. QED
      BY <3>1, <3>2
  <2>2. \A y : y \in Times(w, S) <=> y \in A \cup {x}
    <3>1. ASSUME NEW y \in S \X Nat PROVE y[2] \in 1 .. w[y[1]] <=> y[2] \in 1 .. v[y[1]] \/ y = x
      <4>1. PICK p \in S, k \in Nat : y = <<p, k>>
        OBVIOUS
      <4>2. y = x <=> p = q /\ k = n + 1
        BY <1>4, <4>1
      <4>3. QED
        BY <2>1, <4>1, <4>2
    <3>2. x \in S \X Nat
      BY <1>4
    <3>3. QED
      BY <1>1, <3>1, <3>2 DEF Times
  <2>3. QED
    BY <2>2
<1>6. x \notin A
  BY <1>1, <1>3, <1>4 DEF Times
<1>7. QED
  BY <1>1, <1>2, <1>5, <1>6, FS_AddElement

\* A recording is one more of the references of its statement.
LEMMA RecordingsStep ==
  ASSUME HistoryOK, NEW d \in Conns, NEW r
  PROVE  /\ IsFiniteSet(Recordings(d, r)) /\ Cardinality(Recordings(d, r)) \in Nat
         /\ ran' = ran => Recordings(d, r)' = Recordings(d, r)
         /\ \A c \in Conns, q \in Queries : Recorded(c, q) =>
              Cardinality(Recordings(d, r)') =
                IF d = c /\ r \in RefsOf(q) THEN Cardinality(Recordings(d, r)) + 1 ELSE Cardinality(Recordings(d, r))
<1> DEFINE v == [p \in Queries |-> ran[d][p].times]
           w == [p \in Queries |-> ran'[d][p].times]
<1>1. ran \in [Conns -> [Queries -> [times : Nat, last : Nat]]]
  BY DEF HistoryOK
<1>2. PICK S : S = Naming(r) /\ S \subseteq Queries
  BY DEF Naming
<1>3. Recordings(d, r) = Times(v, S) /\ Recordings(d, r)' = Times(w, S)
  BY <1>2 DEF Recordings, Naming, RefsOf
<1>4. IsFiniteSet(S) /\ \A p \in S : v[p] \in Nat
  <2>1. IsFiniteSet(S)
    BY <1>2, FS_Subset, HistoryAssumption
  <2>2. \A p \in S : v[p] \in Nat
    BY <1>1, <1>2
  <2>3. QED
    BY <2>1, <2>2
<1>5. IsFiniteSet(Recordings(d, r)) /\ Cardinality(Recordings(d, r)) \in Nat
  <2> HIDE DEF v, w
  <2>1. QED
    BY <1>3, <1>4, TimesFinite, FS_CardinalityType
<1>6. ran' = ran => Recordings(d, r)' = Recordings(d, r)
  BY <1>3
<1>7. ASSUME NEW c \in Conns, NEW q \in Queries, Recorded(c, q)
      PROVE  Cardinality(Recordings(d, r)') =
               IF d = c /\ r \in RefsOf(q) THEN Cardinality(Recordings(d, r)) + 1 ELSE Cardinality(Recordings(d, r))
  <2>1. /\ ran'[c][q].times = ran[c][q].times + 1
        /\ \A e \in Conns, p \in Queries : (e # c \/ p # q) => ran'[e][p] = ran[e][p]
    BY <1>1, <1>7 DEF Recorded
  <2>2. r \in RefsOf(q) <=> q \in S
    BY <1>2 DEF Naming
  <2>3. CASE d = c /\ q \in S
    <3>1. w[q] = v[q] + 1 /\ \A p \in S \ {q} : w[p] = v[p]
      BY <1>2, <2>1, <2>3
    <3> HIDE DEF v, w
    <3>2. Cardinality(Times(w, S)) = Cardinality(Times(v, S)) + 1
      BY <1>4, <2>3, <3>1, TimesMore
    <3>3. QED
      BY <1>3, <2>2, <2>3, <3>2
  <2>4. CASE ~(d = c /\ q \in S)
    <3>1. \A p \in S : w[p] = v[p]
      BY <1>2, <2>1, <2>4
    <3> HIDE DEF v, w
    <3>2. Times(w, S) = Times(v, S)
      BY <3>1, TimesSame
    <3>3. QED
      BY <1>3, <2>2, <2>4, <3>2
  <2>5. QED
    BY <2>3, <2>4
<1>8. QED
  BY <1>5, <1>6, <1>7

\* When only shell s does something, it joins those that have a row to write, or
\* leaves them.
LEMMA WritersStep ==
  ASSUME NEW s \in Shells, \A o \in Shells \ {s} : Owes(o)' = Owes(o), NEW x, IsFiniteSet(Writers(x))
  PROVE  /\ Cardinality(Writers(x)) \in Nat /\ IsFiniteSet(Writers(x)')
         /\ (x \in Owes(s)' <=> x \in Owes(s)) => Writers(x)' = Writers(x)
         /\ x \in Owes(s)' /\ x \notin Owes(s) => Cardinality(Writers(x)') = Cardinality(Writers(x)) + 1
         /\ x \notin Owes(s)' /\ x \in Owes(s) => Cardinality(Writers(x)') = Cardinality(Writers(x)) - 1
<1>1. PICK W, V : W = Writers(x) /\ V = Writers(x)'
  OBVIOUS
<1>2. \A o : o \in W <=> o \in Shells /\ x \in Owes(o)
  BY <1>1 DEF Writers
<1>3. \A o : o \in V <=> o \in Shells /\ x \in Owes(o)'
  BY <1>1 DEF Writers
<1>4. Cardinality(W) \in Nat /\ IsFiniteSet(W)
  BY <1>1, FS_CardinalityType
<1>5. CASE x \in Owes(s)' <=> x \in Owes(s)
  <2>1. V = W
    BY <1>2, <1>3, <1>5
  <2>2. QED
    BY <1>1, <1>4, <1>5, <2>1
<1>6. CASE x \in Owes(s)' /\ x \notin Owes(s)
  <2>1. V = W \cup {s} /\ s \notin W
    BY <1>2, <1>3, <1>6
  <2>2. IsFiniteSet(V) /\ Cardinality(V) = Cardinality(W) + 1
    BY <1>4, <2>1, FS_AddElement
  <2>3. QED
    BY <1>1, <1>4, <1>6, <2>2
<1>7. CASE x \notin Owes(s)' /\ x \in Owes(s)
  <2>1. V = W \ {s} /\ s \in W
    BY <1>2, <1>3, <1>7
  <2>2. IsFiniteSet(V) /\ Cardinality(V) = Cardinality(W) - 1
    BY <1>4, <2>1, FS_RemoveElement
  <2>3. QED
    BY <1>1, <1>4, <1>7, <2>2
<1>8. QED
  BY <1>5, <1>6, <1>7

\* What a step does to the rows that shell s has to write.
Begins(s, c, q) == Recorded(c, q) /\ Owes(s) = {} /\ Owes(s)' = {c} \X RefsOf(q)
Writes(s, c, r) == /\ <<c, r>> \in Owes(s) /\ Owes(s)' = Owes(s) \ {<<c, r>>} /\ ran' = ran
                   /\ \/ access' = [access EXCEPT ![c] = Accessed(@, r)] /\ lost' = lost
                      \/ access' = access /\ lost' = lost \union {<<c, r>>}
Drops(s) == Owes(s)' = {} /\ lost' = lost \union Owes(s) /\ UNCHANGED <<access, ran>>
Keeps(s) == Owes(s)' = Owes(s) /\ UNCHANGED <<access, ran, lost>>

LEMMA OweCases ==
  ASSUME TypeOK, NEW s \in Shells, ShellStep(s)
  PROVE  /\ \A o \in Shells \ {s} : Owes(o)' = Owes(o)
         /\ \/ \E c \in Conns, q \in Queries : Begins(s, c, q)
            \/ \E c \in Conns, r \in Refs : Writes(s, c, r)
            \/ Drops(s) \/ Keeps(s)
<1>1. FilesOK /\ TodoOK
  BY DEF TypeOK
<1>2. \A o \in Shells \ {s} : shell'[o] = shell[o]
  BY ListedCases
<1>3. ASSUME NEW new, todo' = [todo EXCEPT ![s] = new]
      PROVE  todo'[s] = new /\ \A o \in Shells \ {s} : Owes(o)' = Owes(o)
  BY <1>1, <1>2, <1>3 DEF TodoOK, Owes
<1>4. CASE Plain(s)
  <2>1. PICK new : todo' = [todo EXCEPT ![s] = new] /\ new.refs = {}
    <3>1. PICK b \in BOOLEAN : todo' = [todo EXCEPT ![s] = [refs |-> {}, rebuild |-> b]]
      BY <1>4 DEF Plain
    <3>2. [refs |-> {}, rebuild |-> b].refs = {}
      OBVIOUS
    <3>3. QED
      BY <3>1, <3>2, Zenon
  <2>2. Owes(s) = {} /\ Owes(s)' = {}
    BY <1>3, <1>4, <2>1 DEF Plain, Owes
  <2>3. Keeps(s)
    BY <1>4, <2>2 DEF Plain, Keeps
  <2>4. QED
    BY <1>3, <2>1, <2>3
<1>5. ASSUME NEW c \in Conns, NEW q \in Queries, Starts(s, c, q)
      PROVE  Begins(s, c, q) /\ \A o \in Shells \ {s} : Owes(o)' = Owes(o)
  <2>1. PICK new : todo' = [todo EXCEPT ![s] = new] /\ new.refs = RefsOf(q)
    <3>1. todo' = [todo EXCEPT ![s] = [refs |-> RefsOf(q), rebuild |-> q \in Ddl]]
      BY <1>5, Zenon DEF Starts
    <3>2. [refs |-> RefsOf(q), rebuild |-> q \in Ddl].refs = RefsOf(q)
      OBVIOUS
    <3>3. QED
      BY <3>1, <3>2, Zenon
  <2>2. todo'[s].refs = RefsOf(q) /\ todo[s].refs = {}
    <3>1. todo[s] = Idle
      BY <1>5, Zenon DEF Starts
    <3>2. todo'[s] = new
      BY <1>3, <2>1, Zenon
    <3>3. QED
      BY <2>1, <3>1, <3>2 DEF Idle
  <2>3. Owes(s) = {} /\ Owes(s)' = {c} \X RefsOf(q)
    BY <1>5, <2>2 DEF Starts, Owes, RefsOf
  <2>4. QED
    BY <1>3, <1>5, <2>1, <2>3 DEF Begins, Starts
<1>6. ASSUME RecordAccess(s)
      PROVE  (\E c \in Conns, r \in Refs : Writes(s, c, r)) /\ \A o \in Shells \ {s} : Owes(o)' = Owes(o)
  <2>1. PICK r \in First(todo[s].refs), written \in BOOLEAN :
          /\ todo' = [todo EXCEPT ![s] = [refs |-> Rest(@.refs, r, written), rebuild |-> @.rebuild]]
          /\ \/ access' = [access EXCEPT ![shell[s][1].conn] = Accessed(@, r)] /\ lost' = lost
             \/ lost' = lost \union {<<shell[s][1].conn, r>>} /\ access' = access
    BY <1>6 DEF RecordAccess
  <2>2. r \in todo[s].refs /\ r \in Refs
    BY <1>1, <2>1 DEF First, TodoOK
  <2>3. PICK c \in Conns : c = shell[s][1].conn
    BY <1>1, <1>6, OpenShell DEF RecordAccess, IsEditor
  <2>4. PICK new : todo' = [todo EXCEPT ![s] = new] /\ new.refs = todo[s].refs \ {r}
    <3>1. todo' = [todo EXCEPT ![s] = [refs |-> Rest(todo[s].refs, r, written), rebuild |-> todo[s].rebuild]]
      BY <1>1, <2>1 DEF TodoOK
    <3>2. [refs |-> Rest(todo[s].refs, r, written), rebuild |-> todo[s].rebuild].refs = todo[s].refs \ {r}
      BY DEF Rest
    <3>3. QED
      BY <3>1, <3>2, Zenon
  <2>5. shell[s] # <<>> /\ shell' = shell /\ ran' = ran
    BY <1>6 DEF RecordAccess
  <2>6. todo'[s].refs = todo[s].refs \ {r}
    BY <1>3, <2>4
  <2>7. Owes(s) = {c} \X todo[s].refs /\ Owes(s)' = {c} \X (todo[s].refs \ {r})
    BY <2>3, <2>5, <2>6 DEF Owes
  <2>8. <<c, r>> \in Owes(s) /\ Owes(s)' = Owes(s) \ {<<c, r>>}
    BY <2>2, <2>7
  <2>9. Writes(s, c, r)
    BY <2>1, <2>3, <2>5, <2>8 DEF Writes
  <2>10. QED
    BY <1>3, <2>2, <2>4, <2>9
<1>7. ASSUME Kill(s) PROVE Drops(s) /\ \A o \in Shells \ {s} : Owes(o)' = Owes(o)
  <2>1. shell'[s] = <<>>
    BY <1>1, <1>7 DEF Kill, FilesOK
  <2>2. Owes(s)' = {}
    BY <2>1 DEF Owes
  <2>3. QED
    BY <1>3, <1>7, <2>2 DEF Drops, Kill
<1>8. QED
  BY <1>4, <1>5, <1>6, <1>7, TodoCases

\* A reference of one of the recordings is written, still to be written, or lost.
LEMMA UsesCountedStep ==
  ASSUME TypeOK, UsesCounted, [Next]_vars
  PROVE  UsesCounted'
<1>1. HistoryOK /\ access \in [Conns -> [Refs -> Nat]] /\ \A c \in Conns, r \in Refs : RowsFor(c, r)
  BY DEF TypeOK, UsesCounted
<1>2. ASSUME NEW s \in Shells, ShellStep(s) PROVE UsesCounted'
  <2>1. /\ \A o \in Shells \ {s} : Owes(o)' = Owes(o)
        /\ \/ \E c \in Conns, q \in Queries : Begins(s, c, q)
           \/ \E c \in Conns, r \in Refs : Writes(s, c, r)
           \/ Drops(s) \/ Keeps(s)
    BY <1>2, OweCases
  <2>2. ASSUME NEW c \in Conns, NEW r \in Refs, access' = [access EXCEPT ![c] = Accessed(@, r)]
        PROVE  /\ access' \in [Conns -> [Refs -> Nat]] /\ access'[c][r] = access[c][r] + 1
               /\ \A d \in Conns, u \in Refs : <<d, u>> # <<c, r>> => access'[d][u] = access[d][u]
    <3>1. access' = [access EXCEPT ![c] = [access[c] EXCEPT ![r] = access[c][r] + 1]]
      BY <1>1, <2>2 DEF Accessed
    <3>2. access[c] \in [Refs -> Nat] /\ access[c][r] \in Nat
      BY <1>1
    <3>3. access'[c] = [access[c] EXCEPT ![r] = access[c][r] + 1] /\ \A d \in Conns \ {c} : access'[d] = access[d]
      BY <1>1, <3>1
    <3>4. access'[c][r] = access[c][r] + 1 /\ \A u \in Refs \ {r} : access'[c][u] = access[c][u]
      BY <3>2, <3>3
    <3>5. access'[c] \in [Refs -> Nat]
      BY <3>2, <3>3
    <3>6. access' \in [Conns -> [Refs -> Nat]]
      BY <1>1, <3>1, <3>3, <3>5
    <3>7. QED
      BY <3>3, <3>4, <3>6
  <2>3. access' \in [Conns -> [Refs -> Nat]]
    BY <1>1, <2>1, <2>2 DEF Begins, Writes, Drops, Keeps, Recorded
  <2>4. ASSUME NEW d \in Conns, NEW u \in Refs PROVE RowsFor(d, u)'
    <3>1. PICK x : x = <<d, u>>
      OBVIOUS
    <3>2. PICK a \in Nat, b \in Nat : a = access[d][u] /\ b = access'[d][u]
      BY <1>1, <2>3
    <3>3. PICK m, n, i, j : /\ m = Cardinality(Writers(x)) /\ n = Cardinality(Writers(x)')
                            /\ i = Cardinality(Recordings(d, u)) /\ j = Cardinality(Recordings(d, u)')
      OBVIOUS
    <3>4. IsFiniteSet(Writers(x)) /\ a + m <= i /\ (x \notin lost => a + m = i)
      BY <1>1, <3>1, <3>2, <3>3 DEF RowsFor
    <3>5. /\ m \in Nat /\ IsFiniteSet(Writers(x)')
          /\ (x \in Owes(s)' <=> x \in Owes(s)) => n = m
          /\ x \in Owes(s)' /\ x \notin Owes(s) => n = m + 1
          /\ x \notin Owes(s)' /\ x \in Owes(s) => n = m - 1
      BY <2>1, <3>3, <3>4, WritersStep
    <3>6. i \in Nat /\ (ran' = ran => j = i)
      BY <1>1, <3>3, RecordingsStep
    <3>7. SUFFICES b + n <= j /\ (x \notin lost' => b + n = j)
      BY <3>1, <3>2, <3>3, <3>5 DEF RowsFor
    <3>8. ASSUME NEW c \in Conns, NEW q \in Queries, Begins(s, c, q)
          PROVE  b + n <= j /\ (x \notin lost' => b + n = j)
      <4>1. j = IF d = c /\ u \in RefsOf(q) THEN i + 1 ELSE i
        BY <1>1, <3>3, <3>8, RecordingsStep DEF Begins
      <4>2. x \notin Owes(s) /\ (x \in Owes(s)' <=> d = c /\ u \in RefsOf(q))
        BY <3>1, <3>8 DEF Begins
      <4>3. b = a /\ lost' = lost
        BY <3>2, <3>8 DEF Begins, Recorded
      <4>4. QED
        BY <3>4, <3>5, <3>6, <4>1, <4>2, <4>3
    <3>9. ASSUME NEW c \in Conns, NEW r \in Refs, Writes(s, c, r)
          PROVE  b + n <= j /\ (x \notin lost' => b + n = j)
      <4>1. j = i
        BY <3>6, <3>9 DEF Writes
      <4>2. CASE x = <<c, r>>
        <5>1. n = m - 1 /\ d = c /\ u = r
          BY <3>1, <3>5, <3>9, <4>2 DEF Writes
        <5>2. CASE access' = [access EXCEPT ![c] = Accessed(@, r)] /\ lost' = lost
          <6>1. b = a + 1
            BY <2>2, <3>2, <5>1, <5>2
          <6>2. QED
            BY <3>4, <3>5, <3>6, <4>1, <5>1, <5>2, <6>1
        <5>3. CASE access' = access /\ lost' = lost \union {<<c, r>>}
          <6>1. b = a /\ x \in lost'
            BY <3>2, <4>2, <5>3
          <6>2. QED
            BY <3>4, <3>5, <3>6, <4>1, <5>1, <6>1
        <5>4. QED
          BY <3>9, <5>2, <5>3 DEF Writes
      <4>3. CASE x # <<c, r>>
        <5>1. n = m
          BY <3>5, <3>9, <4>3 DEF Writes
        <5>2. b = a /\ (x \notin lost' => x \notin lost)
          BY <2>2, <3>1, <3>2, <3>9, <4>3 DEF Writes
        <5>3. QED
          BY <3>4, <3>5, <3>6, <4>1, <5>1, <5>2
      <4>4. QED
        BY <4>2, <4>3
    <3>10. CASE Drops(s)
      <4>1. j = i /\ b = a /\ x \notin Owes(s)' /\ lost' = lost \union Owes(s)
        BY <3>2, <3>6, <3>10 DEF Drops
      <4>2. CASE x \in Owes(s)
        BY <3>4, <3>5, <3>6, <4>1, <4>2
      <4>3. CASE x \notin Owes(s)
        BY <3>4, <3>5, <3>6, <4>1, <4>3
      <4>4. QED
        BY <4>2, <4>3
    <3>11. CASE Keeps(s)
      <4>1. j = i /\ b = a /\ n = m /\ lost' = lost
        BY <3>2, <3>5, <3>6, <3>11 DEF Keeps
      <4>2. QED
        BY <3>4, <4>1
    <3>12. QED
      BY <2>1, <3>8, <3>9, <3>10, <3>11
  <2>5. QED
    BY <2>3, <2>4 DEF UsesCounted
<1>3. CASE Tick \/ UNCHANGED vars
  <2>1. UNCHANGED <<access, ran, lost, shell, todo>>
    BY <1>3 DEF Tick, vars, records
  <2>2. QED
    BY <2>1 DEF UsesCounted, RowsFor, Recordings, Writers, Owes
<1>4. QED
  BY <1>2, <1>3 DEF Next

\* At first there is a row for each statement of the past and reference of it.
LEMMA UsesCountedFirst ==
  ASSUME Init
  PROVE  UsesCounted
<1>1. /\ Past \in Seq(Conns \X Queries) /\ Len(Past) \in Nat /\ DOMAIN Past = 1..Len(Past)
      /\ \A i \in DOMAIN Past : Past[i] \in Conns \X Queries
  BY HistoryAssumption, LenProperties, ElementOfSeq
<1>2. IsFiniteSet(DOMAIN Past)
  BY <1>1, FS_Interval
<1> DEFINE Of(c, r) == {i \in DOMAIN Past : Past[i][1] = c /\ r \in RefsOf(Past[i][2])}
<1>3. \A c, r : IsFiniteSet(Of(c, r)) /\ Cardinality(Of(c, r)) \in Nat
  BY <1>2, FS_Subset, FS_CardinalityType
<1>4. access = [c \in Conns |-> [r \in Refs |-> Cardinality(Of(c, r))]]
  BY DEF Init
<1>5. access \in [Conns -> [Refs -> Nat]]
  <2> HIDE DEF Of
  <2>1. QED
    BY <1>3, <1>4
<1>6. ASSUME NEW c \in Conns, NEW t \in Refs PROVE Cardinality(Of(c, t)) = Cardinality(Recordings(c, t))
  <2>1. PICK A : A = Of(c, t)
    OBVIOUS
  <2>2. PICK B : B = Recordings(c, t)
    OBVIOUS
  <2>3. PICK f : f = [i \in A |-> <<Past[i][2], 1>>]
    OBVIOUS
  <2>4. \A i \in A : i \in DOMAIN Past /\ Past[i] = <<c, Past[i][2]>> /\ Past[i][2] \in Naming(t)
    <3>1. ASSUME NEW i \in A PROVE i \in DOMAIN Past /\ Past[i] = <<c, Past[i][2]>> /\ Past[i][2] \in Naming(t)
      <4>1. i \in DOMAIN Past /\ Past[i][1] = c /\ t \in RefsOf(Past[i][2])
        BY <2>1
      <4>2. PICK q \in Queries : Past[i] = <<c, q>>
        BY <1>1, <4>1
      <4>3. q \in Naming(t)
        BY <4>1, <4>2 DEF Naming
      <4>4. QED
        BY <4>1, <4>2, <4>3
    <3>2. QED
      BY <3>1
  <2>5. B = {<<q, 1>> : q \in {p \in Naming(t) : <<c, p>> \in ToSet(Past)}}
    <3>1. \A q \in Queries : ran[c][q].times = IF <<c, q>> \in ToSet(Past) THEN 1 ELSE 0
      BY DEF Init
    <3>2. Naming(t) \subseteq Queries
      BY DEF Naming
    <3>3. \A q \in Naming(t), k \in Nat : k \in 1 .. ran[c][q].times <=> k = 1 /\ <<c, q>> \in ToSet(Past)
      BY <3>1, <3>2
    <3>4. B = {x \in Naming(t) \X Nat : x[2] \in 1 .. ran[c][x[1]].times}
      BY <2>2, <3>2 DEF Recordings, Times
    <3>5. B = {x \in Naming(t) \X Nat : x[2] = 1 /\ <<c, x[1]>> \in ToSet(Past)}
      BY <3>3, <3>4
    <3>6. \A y : y \in B <=> \E q \in Naming(t) : <<c, q>> \in ToSet(Past) /\ y = <<q, 1>>
      <4>1. ASSUME NEW y \in B PROVE \E q \in Naming(t) : <<c, q>> \in ToSet(Past) /\ y = <<q, 1>>
        <5>1. PICK q \in Naming(t), k \in Nat : y = <<q, k>>
          BY <3>5
        <5>2. k = 1 /\ <<c, q>> \in ToSet(Past)
          BY <3>5, <5>1
        <5>3. QED
          BY <5>1, <5>2
      <4>2. ASSUME NEW q \in Naming(t), <<c, q>> \in ToSet(Past) PROVE <<q, 1>> \in B
        BY <3>5, <4>2
      <4>3. QED
        BY <4>1, <4>2
    <3>7. QED
      BY <3>6
  <2>6. f \in [A -> B]
    <3>1. \A i \in A : f[i] \in B
      BY <2>3, <2>4, <2>5 DEF ToSet
    <3>2. QED
      BY <2>3, <3>1
  <2>7. \A i, j \in A : f[i] = f[j] => i = j
    <3>1. ASSUME NEW i \in A, NEW j \in A, f[i] = f[j] PROVE i = j
      <4>1. Past[i][2] = Past[j][2]
        BY <2>3, <3>1
      <4>2. Past[i] = Past[j]
        BY <2>4, <4>1
      <4>3. QED
        BY <2>4, <4>2 DEF Init, IsInjective
    <3>2. QED
      BY <3>1
  <2>8. \A y \in B : \E i \in A : f[i] = y
    <3>1. ASSUME NEW y \in B PROVE \E i \in A : f[i] = y
      <4>1. PICK q \in Naming(t) : y = <<q, 1>> /\ <<c, q>> \in ToSet(Past)
        BY <2>5
      <4>2. PICK i \in DOMAIN Past : Past[i] = <<c, q>>
        BY <4>1 DEF ToSet
      <4>3. i \in A
        <5>1. t \in RefsOf(q)
          BY DEF Naming
        <5>2. QED
          BY <2>1, <4>2, <5>1
      <4>4. QED
        BY <2>3, <4>1, <4>2, <4>3
    <3>2. QED
      BY <3>1
  <2>9. ExistsBijection(A, B)
    <3>1. f \in Injection(A, B)
      BY <2>6, <2>7 DEF Injection, IsInjective
    <3>2. f \in Surjection(A, B)
      BY <2>6, <2>8 DEF Surjection
    <3>3. QED
      BY <3>1, <3>2 DEF ExistsBijection, Bijection
  <2>10. IsFiniteSet(A)
    BY <1>3, <2>1
  <2>11. QED
    BY <2>1, <2>2, <2>9, <2>10, FS_Bijection
<1>7. \A c \in Conns, t \in Refs : access[c][t] = Cardinality(Of(c, t))
  BY <1>4
<1>8. ASSUME NEW c \in Conns, NEW t \in Refs PROVE RowsFor(c, t)
  <2>1. Writers(<<c, t>>) = {}
    BY DEF Init, Writers, Owes
  <2>2. IsFiniteSet(Writers(<<c, t>>)) /\ Cardinality(Writers(<<c, t>>)) = 0
    BY <2>1, FS_EmptySet
  <2>3. access[c][t] = Cardinality(Recordings(c, t)) /\ access[c][t] \in Nat
    BY <1>5, <1>6, <1>7
  <2>4. QED
    BY <2>2, <2>3 DEF RowsFor
<1>9. QED
  BY <1>5, <1>8 DEF UsesCounted

\* A new editor ranks by the counts of its connection.
Ranks(s) ==
  /\ access' = access
  /\ \E c \in Conns : /\ shell'[s][1].conn = c
                      /\ shell'[s][1].tables \in TableFreqs(access[c])
                      /\ shell'[s][1].columns \in ColumnFreqs(access[c])
SameRanks(ed, old) == ed.tables = old.tables /\ ed.columns = old.columns

\* A shell keeps its ranks until it has a new editor.
LEMMA RankCases ==
  ASSUME TypeOK, NEW s \in Shells, ShellStep(s)
  PROVE  /\ \A o \in Shells \ {s} : shell'[o] = shell[o]
         /\ shell'[s] # <<>> =>
              Ranks(s) \/ (shell[s] # <<>> /\ SameRanks(shell'[s][1], shell[s][1]))
<1> DEFINE Other == \A o \in Shells \ {s} : shell'[o] = shell[o]
           Same  == shell[s] # <<>> /\ SameRanks(shell'[s][1], shell[s][1])
           Kept  == Other /\ (Same \/ Ranks(s))
<1>1. FilesOK
  BY DEF TypeOK
<1>2. ASSUME NEW ed, shell' = [shell EXCEPT ![s] = ed] PROVE Other /\ shell'[s] = ed
  BY <1>1, <1>2 DEF FilesOK
<1>3. ASSUME NEW line \in Lines, Reads(s, line)
      PROVE  /\ shell[s] # <<>> /\ IsEditor(Entered(shell[s][1], line))
             /\ SameRanks(Entered(shell[s][1], line), shell[s][1])
             /\ Entered(shell[s][1], line).conn \in Conns
  <2>1. PICK ed : ed = shell[s][1]
    OBVIOUS
  <2>2. shell[s] # <<>> /\ IsEditor(ed)
    BY <1>1, <1>3, <2>1, OpenShell DEF Reads
  <2>3. IsEditor(Entered(ed, line))
    BY <2>2, EnteredType
  <2>4. SameRanks(Entered(ed, line), ed)
    BY <2>2 DEF Entered, IsEditor, SameRanks
  <2>5. QED
    BY <2>1, <2>2, <2>3, <2>4 DEF IsEditor
<1>4. ASSUME NEW line \in Lines, Reads(s, line), Goes(s, Entered(shell[s][1], line)) PROVE Kept
  BY <1>2, <1>3, <1>4 DEF Goes
<1>5. ASSUME NEW c \in Conns, NEW listed, Build(s, c, listed), access' = access PROVE Kept
  <2>1. PICK tables \in TableFreqs(access[c]), columns \in ColumnFreqs(access[c]) :
          shell' = [shell EXCEPT ![s] =
            << [conn |-> c, entries |-> LastN(file[FileOf[c]], Capacity), onDisk |-> Len(LastN(file[FileOf[c]], Capacity)),
                tables |-> tables, columns |-> columns, listed |-> listed] >>]
    BY <1>5 DEF Build
  <2>2. Other /\ shell'[s][1].conn = c /\ shell'[s][1].tables = tables /\ shell'[s][1].columns = columns
    BY <1>2, <2>1
  <2>3. QED
    BY <1>5, <2>2 DEF Ranks
<1>6. CASE RecordAccess(s)
  BY <1>6 DEF RecordAccess, SameRanks
<1>7. Command \in Lines /\ Queries \subseteq Lines
  BY DEF Lines
<1>8. ASSUME NEW q, NEW line \in Lines, Reads(s, line), Execute(s, Entered(shell[s][1], line), q) PROVE Kept
  BY <1>4, <1>8 DEF Execute
<1>9. ASSUME NEW c \in Conns, Open(s, c) PROVE Kept
  BY <1>5, <1>9 DEF Open, records
<1>10. ASSUME NEW q \in Queries, Type(s, q) \/ Edit(s, q) PROVE Kept
  <2>1. CASE Type(s, q)
    BY <1>7, <1>8, <2>1 DEF Type
  <2>2. CASE Edit(s, q)
    BY <1>7, <1>8, <2>2 DEF Edit
  <2>3. QED
    BY <1>10, <2>1, <2>2
<1>11. ASSUME NEW name \in Names, Run(s, name) PROVE Kept
  BY <1>7, <1>8, <1>11 DEF Run
<1>12. ASSUME NEW name \in Names, Unsave(s, name) PROVE Kept
  <2>1. Reads(s, Command) /\ Goes(s, Entered(shell[s][1], Command))
    BY <1>12 DEF Unsave
  <2>2. QED
    BY <1>4, <1>7, <2>1
<1>13. ASSUME NEW name, NEW id, Save(s, name, id) PROVE Kept
  <2>1. Reads(s, Command) /\ Goes(s, Entered(shell[s][1], Command))
    BY <1>13 DEF Save
  <2>2. QED
    BY <1>4, <1>7, <2>1
<1>14. ASSUME NEW n, ListHistory(s, n) PROVE Kept
  <2>1. PICK is :
          shell' = [shell EXCEPT ![s] = <<[Entered(shell[s][1], Command) EXCEPT !.listed = [i \in is |-> history[i].query]]>>]
    BY <1>14 DEF ListHistory, Goes
  <2> DEFINE old == Entered(shell[s][1], Command)
             ed  == [old EXCEPT !.listed = [i \in is |-> history[i].query]]
  <2>2. shell'[s] = <<ed>> /\ Other
    BY <1>2, <2>1
  <2>3. IsEditor(old) /\ shell[s] # <<>> /\ SameRanks(old, shell[s][1])
    BY <1>3, <1>7, <1>14 DEF ListHistory
  <2>4. SameRanks(ed, old)
    <3> HIDE DEF old
    <3>1. QED
      BY <2>3 DEF IsEditor, SameRanks
  <2> HIDE DEF ed
  <2>5. QED
    BY <2>2, <2>3, <2>4 DEF SameRanks
<1>15. CASE Refresh(s)
  <2>1. Reads(s, Command) /\ Goes(s, Entered(shell[s][1], Command))
    BY <1>15 DEF Refresh
  <2>2. QED
    BY <1>4, <1>7, <2>1
<1>16. CASE Quit(s) \/ Kill(s)
  BY <1>2, <1>16 DEF Quit, Kill
<1>17. CASE Refreshed(s)
  <2>1. CASE Rebuild(s, shell[s][1])
    <3>1. shell[s][1].conn \in Conns /\ access' = access
      BY <1>1, <1>17, OpenShell DEF Refreshed, IsEditor
    <3>2. QED
      BY <1>5, <2>1, <3>1 DEF Rebuild
  <2>2. CASE UNCHANGED <<shell, file>>
    BY <1>17, <2>2 DEF Refreshed, SameRanks
  <2>3. QED
    BY <1>17, <2>1, <2>2 DEF Refreshed
<1>18. QED
  BY <1>6, <1>9, <1>10, <1>11, <1>12, <1>13, <1>14, <1>15, <1>16, <1>17 DEF ShellStep

-----------------------------------------------------------------------------
(* The theorems                                                             *)

\* The invariant holds of what earlier shells have left.
LEMMA InitIInv == Init => IInv
<1> SUFFICES ASSUME Init PROVE IInv
  OBVIOUS
<1>1. /\ clock = 0 /\ saved = {} /\ lines = 0
      /\ history = [i \in DOMAIN Past |-> [conn |-> Past[i][1], query |-> Past[i][2], at |-> 0]]
      /\ file = [f \in Files |-> <<>>] /\ shell = [s \in Shells |-> <<>>]
      /\ typed = [s \in Shells |-> {}] /\ left = [f \in Files |-> {}]
      /\ ran = [c \in Conns |-> [q \in Queries |->
                  [times |-> IF <<c, q>> \in ToSet(Past) THEN 1 ELSE 0, last |-> 0]]]
  BY DEF Init
<1>2. FilesOK
  <2>1. \A f \in Files : file[f] = <<>>
    BY <1>1
  <2>2. <<>> \in Seq(Lines) /\ Len(<<>>) = 0 /\ 0 <= Capacity
    BY EmptySeq, HistoryAssumption
  <2>3. \A f \in Files : file[f] \in Seq(Lines) /\ Len(file[f]) <= Capacity
    BY <2>1, <2>2
  <2>4. QED
    BY <1>1, <2>3 DEF FilesOK
<1>3. /\ Past \in Seq(Conns \X Queries) /\ Len(Past) \in Nat /\ DOMAIN Past = 1..Len(Past)
      /\ \A i \in DOMAIN Past : Past[i] \in Conns \X Queries
  BY HistoryAssumption, LenProperties, ElementOfSeq
<1>4. /\ DOMAIN history = DOMAIN Past
      /\ \A i \in DOMAIN Past :
           /\ history[i] \in Entries /\ history[i].conn = Past[i][1] /\ history[i].query = Past[i][2]
           /\ history[i].at = 0
  BY <1>1, <1>3 DEF Entries
<1>5. HistoryOK
  <2>1. PICK n \in Nat : n = Len(Past) /\ history \in [1..n -> Entries]
    BY <1>1, <1>3, <1>4
  <2>2. history \in Seq(Entries)
    BY <2>1, SeqDef, Zenon
  <2>3. ran \in [Conns -> [Queries -> [times : Nat, last : Nat]]]
    BY <1>1
  <2>4. QED
    BY <1>1, <2>2, <2>3 DEF HistoryOK, Entries
<1>6. Counted
  <2>1. InFile = [f \in Files |-> 0] /\ OwnOf = [s \in Shells |-> 0]
    BY <1>1, EmptySeq DEF InFile, OwnOf
  <2>2. Slots(InFile, OwnOf) = {}
    BY <2>1, HistoryAssumption DEF Slots
  <2>3. QED
    BY <1>1, <2>2, FS_EmptySet DEF Counted
<1>7. DiskHolds /\ ListedTrue
  BY <1>1 DEF DiskHolds, ListedTrue
<1>8. LinesReachTheFile
  BY <1>1, <1>2 DEF LinesReachTheFile, FilesOK
<1>9. RanAgrees
  <2>1. ASSUME NEW i \in DOMAIN history
        PROVE  /\ ran[history[i].conn][history[i].query].times > 0
               /\ ran[history[i].conn][history[i].query].last = history[i].at
    <3>1. PICK c \in Conns, q \in Queries : <<c, q>> = Past[i]
      BY <1>3, <1>4
    <3>2. history[i].conn = c /\ history[i].query = q /\ history[i].at = 0
      BY <1>4, <3>1
    <3>3. <<c, q>> \in ToSet(Past)
      BY <1>4, <3>1 DEF ToSet
    <3>4. QED
      BY <1>1, <3>2, <3>3
  <2>2. ASSUME NEW c \in Conns, NEW q \in Queries, ran[c][q].times > 0
        PROVE  \E i \in DOMAIN history : history[i].conn = c /\ history[i].query = q
    <3>1. <<c, q>> \in ToSet(Past)
      BY <1>1, <2>2
    <3>2. PICK i \in DOMAIN Past : Past[i] = <<c, q>>
      BY <3>1 DEF ToSet
    <3>3. QED
      BY <1>4, <3>2
  <2>3. QED
    BY <2>1, <2>2 DEF RanAgrees
<1>10. TodoOK
  BY DEF Init, TodoOK, Idle
<1>11. QED
  BY <1>2, <1>5, <1>6, <1>7, <1>8, <1>9, <1>10, UsesCountedFirst DEF IInv, TypeOK

\* In every state the files, the editors and the rows are what they should be,
\* no line is kept twice, what an editor has read is in its file, and the query
\* history tells what was run and what the shells have listed.
THEOREM InductiveInvariant == Spec => []IInv
<1>1. IInv /\ [Next]_vars => IInv'
  <2> SUFFICES ASSUME IInv, [Next]_vars PROVE IInv'
    OBVIOUS
  <2>1. TypeOK /\ Counted /\ DiskHolds /\ LinesReachTheFile /\ RanAgrees /\ ListedTrue /\ UsesCounted
    BY DEF IInv
  <2>2. TypeOK'
    BY <2>1, FilesType, HistoryType, TodoType DEF TypeOK
  <2>3. Counted'
    BY <2>1, CountedStep
  <2>4. DiskHolds' /\ LinesReachTheFile'
    BY <2>1, ReachStep
  <2>5. RanAgrees'
    BY <2>1, RanAgreesStep
  <2>6. ListedTrue'
    BY <2>1, ListedTrueStep
  <2>7. UsesCounted'
    BY <2>1, UsesCountedStep
  <2>8. QED
    BY <2>2, <2>3, <2>4, <2>5, <2>6, <2>7 DEF IInv
<1>2. QED
  BY <1>1, InitIInv, PTL DEF Spec

\* While all the lines ever typed fit in a line history, every line of a shell
\* that quit is in the file, whatever other shells wrote to it meanwhile, and a
\* line of a shell that is open is there or will be written.
THEOREM NoLineIsLost == Spec => []LinesReachTheFile
<1>1. IInv => LinesReachTheFile
  BY DEF IInv
<1>2. QED
  BY <1>1, InductiveInvariant, PTL

\* What shell s saves under the id of an entry that it has listed.
SavesListed(s, name, id) ==
  saved' # saved /\ Save(s, name, id) /\ id \in DOMAIN shell[s][1].listed =>
    [conn |-> shell[s][1].conn, name |-> name, sql |-> shell[s][1].listed[id]] \in saved'

\* A new saved query has the text of the entry, which is the text listed.
LEMMA SaveStep ==
  ASSUME IInv, NEW s \in Shells, NEW name \in Names, NEW id \in DOMAIN history
  PROVE  SavesListed(s, name, id)
<1> SUFFICES ASSUME saved' # saved, Save(s, name, id), id \in DOMAIN shell[s][1].listed
             PROVE  [conn |-> shell[s][1].conn, name |-> name, sql |-> shell[s][1].listed[id]] \in saved'
  BY DEF SavesListed
<1>1. saved' = saved \union {[conn |-> shell[s][1].conn, name |-> name, sql |-> history[id].query]}
  BY DEF Save, Entry
<1>2. shell[s] # <<>>
  BY DEF Save, Reads
<1>3. history[id].query = shell[s][1].listed[id]
  BY <1>2 DEF IInv, ListedTrue
<1>4. QED
  BY <1>1, <1>3

\* \save saves the text that \history has shown with the id.
THEOREM SavesTheListed == Spec => SavesWhatWasListed
<1>1. IInv /\ [Next]_vars
        => [\A s \in Shells, name \in Names, id \in DOMAIN history : SavesListed(s, name, id)]_vars
  BY SaveStep
<1>2. [\A s \in Shells, name \in Names, id \in DOMAIN history : SavesListed(s, name, id)]_vars
        => [\A s \in Shells, name \in Names, id \in DOMAIN history :
              saved' # saved /\ Save(s, name, id) /\ id \in DOMAIN shell[s][1].listed =>
                [conn |-> shell[s][1].conn, name |-> name, sql |-> shell[s][1].listed[id]] \in saved']_vars
  BY DEF SavesListed
<1>3. QED
  BY <1>1, <1>2, InductiveInvariant, PTL DEF Spec, SavesWhatWasListed

\* The queries that shell s shows were run, and none that it leaves out was run
\* after one of them.
ShowsLatest(s) ==
  LET c     == shell[s][1].conn
      shown == ToSet(shell'[s][1].listed)
  IN  \A q \in shown : /\ ran[c][q].times > 0
                       /\ \A p \in Queries \ shown : ran[c][p].times > 0 => ran[c][p].last <= ran[c][q].last

\* A listing takes the latest of the entries there are, each of a query that was run.
LEMMA ListStep ==
  ASSUME IInv, [Next]_vars, NEW s \in Shells, Listing(s)
  PROVE  ShowsLatest(s)
<1>1. TypeOK /\ FilesOK /\ HistoryOK /\ RanAgrees
  BY DEF IInv, TypeOK
<1>2. PICK o \in Shells : ShellStep(o)
  BY DEF Next, Tick, vars, Listing
<1>3. o = s
  BY <1>1, <1>2, ListedCases DEF Listing
<1>4. PICK n : Lists(s, n)
  BY <1>1, <1>2, <1>3, ListedCases DEF Listing
<1>5. PICK c, is : /\ c = shell[s][1].conn /\ is \in Recent(c, n)
                   /\ shell'[s][1].listed = [i \in is |-> history[i].query]
  BY <1>4 DEF Lists
<1>6. PICK shown : shown = ToSet(shell'[s][1].listed)
  OBVIOUS
<1>7. shown = {history[i].query : i \in is}
  BY <1>5, <1>6 DEF ToSet
<1>8. c \in Conns
  BY <1>1, <1>5, OpenShell DEF Listing, IsEditor
<1>9. ASSUME NEW i \in is
      PROVE  /\ i \in DOMAIN history /\ history[i].conn = c
             /\ \A j \in DOMAIN history : history[j].conn = c /\ j \notin is => history[i].at >= history[j].at
  BY <1>5 DEF Recent
<1>10. ASSUME NEW q \in shown
       PROVE  /\ ran[c][q].times > 0
              /\ \A p \in Queries \ shown : ran[c][p].times > 0 => ran[c][p].last <= ran[c][q].last
  <2>1. PICK i \in is : q = history[i].query
    BY <1>7
  <2>2. ran[c][q].times > 0 /\ ran[c][q].last = history[i].at
    BY <1>1, <1>9, <2>1 DEF RanAgrees
  <2>3. ASSUME NEW p \in Queries \ shown, ran[c][p].times > 0 PROVE ran[c][p].last <= ran[c][q].last
    <3>1. PICK j \in DOMAIN history : history[j].conn = c /\ history[j].query = p
      BY <1>1, <1>8, <2>3 DEF RanAgrees
    <3>2. j \notin is
      BY <1>7, <2>3, <3>1
    <3>3. history[i].at >= history[j].at /\ ran[c][p].last = history[j].at
      BY <1>1, <1>9, <3>1, <3>2 DEF RanAgrees
    <3>4. history[i].at \in Nat /\ history[j].at \in Nat
      <4>1. history \in Seq(Entries)
        BY <1>1 DEF HistoryOK, Entries
      <4>2. history[i] \in Entries /\ history[j] \in Entries
        BY <1>9, <4>1, ElementOfSeq, LenProperties
      <4>3. QED
        BY <4>2 DEF Entries
    <3>5. QED
      BY <2>2, <3>3, <3>4
  <2>4. QED
    BY <2>2, <2>3
<1>11. QED
  BY <1>5, <1>6, <1>10 DEF ShowsLatest

\* \history shows queries of the connection that were run, the latest of them.
THEOREM ListingIsTheLatest == Spec => ListsTheLatest
<1>1. IInv /\ [Next]_vars => [\A s \in Shells : Listing(s) => ShowsLatest(s)]_vars
  BY ListStep
<1>2. [\A s \in Shells : Listing(s) => ShowsLatest(s)]_vars
        => [\A s \in Shells : Listing(s) =>
              LET c     == shell[s][1].conn
                  shown == ToSet(shell'[s][1].listed)
              IN  \A q \in shown : /\ ran[c][q].times > 0
                                   /\ \A p \in Queries \ shown : ran[c][p].times > 0 => ran[c][p].last <= ran[c][q].last]_vars
  BY DEF ShowsLatest
<1>3. QED
  BY <1>1, <1>2, InductiveInvariant, PTL DEF Spec, ListsTheLatest

\* There are finitely many tables and columns to rank.
LEMMA RefsFinite == IsFiniteSet(Tables) /\ IsFiniteSet(Columns)
<1>1. ASSUME NEW Of, \A q \in Queries : IsFiniteSet(Of[q])
      PROVE  IsFiniteSet(UNION {Of[q] : q \in Queries})
  <2>1. PICK A : A = {Of[q] : q \in Queries}
    OBVIOUS
  <2>2. PICK f : f = [q \in Queries |-> Of[q]]
    OBVIOUS
  <2>3. f \in Surjection(Queries, A)
    BY <2>1, <2>2 DEF Surjection
  <2>4. IsFiniteSet(A)
    BY <2>1, <2>3, FS_Surjection, HistoryAssumption
  <2>5. \A T \in A : IsFiniteSet(T)
    BY <1>1, <2>1
  <2>6. QED
    BY <2>1, <2>4, <2>5, FS_UNION
<1>2. QED
  BY <1>1, HistoryAssumption DEF Tables, Columns

\* Finitely many numbers have a greatest one.
LEMMA MaxOf ==
  ASSUME NEW S \in SUBSET Nat, IsFiniteSet(S), S # {}
  PROVE  Max(S) \in S /\ \A x \in S : x <= Max(S)
<1> DEFINE T == {s \in SUBSET S : s = {} \/ \E m \in s : \A x \in s : x <= m}
<1>1. {} \in T
  OBVIOUS
<1>2. ASSUME NEW s \in SUBSET S, s # {}, s \ {Picked(s)} \in T PROVE s \in T
  <2>1. PICK y : y = Picked(s)
    OBVIOUS
  <2>2. y \in s
    BY <1>2, <2>1 DEF Picked
  <2>3. CASE s \ {y} = {}
    <3>1. \A x \in s : x = y
      BY <2>2, <2>3
    <3>2. QED
      BY <2>2, <3>1
  <2>4. ASSUME NEW m \in s \ {y}, \A x \in s \ {y} : x <= m PROVE s \in T
    <3>1. CASE y <= m
      BY <2>4, <3>1
    <3>2. CASE m < y
      <4>1. \A x \in s : x <= y
        BY <2>2, <2>4, <3>2
      <4>2. QED
        BY <2>2, <4>1
    <3>3. QED
      BY <2>2, <2>4, <3>1, <3>2
  <2>5. QED
    BY <1>2, <2>1, <2>3, <2>4
<1>3. S \in T
  <2> HIDE DEF T
  <2>1. QED
    BY <1>1, <1>2, ByPicking
<1>4. PICK m \in S : \A x \in S : x <= m
  BY <1>3
<1>5. \A x \in S : m >= x
  BY <1>4
<1>6. PICK n : n = Max(S)
  OBVIOUS
<1>7. n \in S /\ \A x \in S : n >= x
  BY <1>4, <1>5, <1>6 DEF Max
<1>8. QED
  BY <1>6, <1>7

\* Of those that have rows, the ones ranked are in use; they are all, or as many as
\* are ranked at most, and then no other has more.
LEMMA TopRanks ==
  ASSUME NEW S, IsFiniteSet(S), NEW count, \A r \in S : count[r] \in Nat, NEW top \in Frequent(count, S)
  PROVE  /\ top \subseteq S /\ \A r \in top : count[r] > 0
         /\ \A u \in S \ top : count[u] > 0 => Cardinality(top) = FreqLimit /\ \A r \in top : count[r] >= count[u]
<1>1. PICK used : used = {r \in S : count[r] > 0}
  OBVIOUS
<1>2. PICK n : n = Cardinality(used)
  OBVIOUS
<1>3. /\ top \subseteq used /\ Cardinality(top) = (IF n < FreqLimit THEN n ELSE FreqLimit)
      /\ \A r \in top, u \in used \ top : count[r] >= count[u]
  BY <1>1, <1>2 DEF Frequent
<1>4. IsFiniteSet(used) /\ n \in Nat
  <2>1. IsFiniteSet(used)
    BY <1>1, FS_Subset
  <2>2. QED
    BY <1>2, <2>1, FS_CardinalityType
<1>5. ASSUME NEW u \in S \ top, count[u] > 0
      PROVE  Cardinality(top) = FreqLimit /\ \A r \in top : count[r] >= count[u]
  <2>1. u \in used \ top
    BY <1>1, <1>5
  <2>2. Cardinality(top) # n
    BY <1>2, <1>3, <1>4, <2>1, FS_Subset
  <2>3. QED
    BY <1>3, <2>1, <2>2
<1>6. QED
  BY <1>1, <1>3, <1>5

\* The rows of a reference are no more than its uses, and as many if it has them all.
LEMMA RowsAndUses ==
  ASSUME IInv', NEW c \in Conns, NEW r \in Refs
  PROVE  /\ access'[c][r] \in Nat /\ Uses(c, r) \in Nat /\ access'[c][r] <= Uses(c, r)
         /\ Whole(c, r) => access'[c][r] = Uses(c, r)
<1> DEFINE v == [q \in Queries |-> ran'[c][q].times]
<1>1. HistoryOK' /\ access'[c][r] \in Nat /\ RowsFor(c, r)'
  BY DEF IInv, TypeOK, UsesCounted
<1>2. PICK S : S = Naming(r) /\ S \subseteq Queries
  BY DEF Naming
<1>3. IsFiniteSet(S) /\ \A q \in S : v[q] \in Nat
  <2>1. IsFiniteSet(S)
    BY <1>2, FS_Subset, HistoryAssumption
  <2>2. \A q \in S : v[q] \in Nat
    BY <1>1, <1>2 DEF HistoryOK
  <2>3. QED
    BY <2>1, <2>2
<1>4. Uses(c, r) = SumFunctionOnSet(v, S)
  BY <1>2 DEF Uses, Naming
<1>5. Recordings(c, r)' = Times(v, S)
  BY <1>2 DEF Recordings, Naming, RefsOf
<1>6. Uses(c, r) = Cardinality(Recordings(c, r)') /\ Uses(c, r) \in Nat
  <2> HIDE DEF v
  <2>1. QED
    BY <1>3, <1>4, <1>5, SumCounts, TimesFinite, FS_CardinalityType
<1>7. PICK W : W = Writers(<<c, r>>)'
  OBVIOUS
<1>8. /\ IsFiniteSet(W) /\ access'[c][r] + Cardinality(W) <= Uses(c, r)
      /\ <<c, r>> \notin lost' => access'[c][r] + Cardinality(W) = Uses(c, r)
  BY <1>1, <1>6, <1>7 DEF RowsFor
<1>9. Cardinality(W) \in Nat
  BY <1>8, FS_CardinalityType
<1>10. Whole(c, r) => <<c, r>> \notin lost' /\ Cardinality(W) = 0
  <2>1. SUFFICES ASSUME Whole(c, r) PROVE <<c, r>> \notin lost' /\ Cardinality(W) = 0
    OBVIOUS
  <2>2. W = {}
    BY <1>7, <2>1 DEF Whole, Writers
  <2>3. QED
    BY <2>1, <2>2, FS_EmptySet DEF Whole
<1>11. QED
  BY <1>1, <1>6, <1>8, <1>9, <1>10

\* A new editor, of a shell that opens or after a refresh, is told the counts.
LEMMA EditorRanks ==
  ASSUME IInv, [Next]_vars, NEW s \in Shells, NewEditor(s)
  PROVE  Ranks(s)
<1>1. TypeOK /\ FilesOK
  BY DEF IInv, TypeOK
<1>2. CASE shell[s] = <<>>
  <2>1. PICK o \in Shells : ShellStep(o)
    BY <1>2 DEF Next, Tick, vars, NewEditor
  <2>2. o = s
    BY <1>1, <1>2, <2>1, RankCases DEF NewEditor
  <2>3. QED
    BY <1>1, <1>2, <2>1, <2>2, RankCases DEF NewEditor
<1>3. CASE Refreshed(s) /\ Rebuild(s, shell[s][1])
  <2>1. shell[s] # <<>> /\ access' = access
    BY <1>3 DEF Refreshed
  <2>2. PICK ed : ed = shell[s][1]
    OBVIOUS
  <2>3. ed.conn \in Conns
    BY <1>1, <2>1, <2>2, OpenShell DEF IsEditor
  <2>4. PICK tables \in TableFreqs(access[ed.conn]), columns \in ColumnFreqs(access[ed.conn]) :
          shell' = [shell EXCEPT ![s] =
            << [conn |-> ed.conn, entries |-> LastN(file[FileOf[ed.conn]], Capacity),
                onDisk |-> Len(LastN(file[FileOf[ed.conn]], Capacity)),
                tables |-> tables, columns |-> columns, listed |-> ed.listed] >>]
    BY <1>3, <2>2 DEF Rebuild, Build
  <2>5. /\ shell'[s][1].conn = ed.conn
        /\ shell'[s][1].tables = tables /\ shell'[s][1].columns = columns
    BY <1>1, <2>4 DEF FilesOK
  <2>6. QED
    BY <2>1, <2>3, <2>4, <2>5 DEF Ranks
<1>4. QED
  BY <1>2, <1>3 DEF NewEditor

\* The rows counted are the recordings, and the ones ranked have the most.
LEMMA RankStep ==
  ASSUME IInv, IInv', [Next]_vars, NEW s \in Shells, NewEditor(s)
  PROVE  RanksTables(s)
<1>1. PICK c \in Conns : /\ shell'[s][1].conn = c /\ access' = access
                         /\ shell'[s][1].tables \in TableFreqs(access[c])
  BY EditorRanks DEF Ranks
<1>2. PICK count : count = access'[c]
  OBVIOUS
<1>3. PICK top \in Frequent(count, Tables) : shell'[s][1].tables = [t \in top |-> count[t]]
  BY <1>1, <1>2 DEF TableFreqs
<1>4. \A t \in Tables : /\ count[t] \in Nat /\ Uses(c, t) \in Nat /\ count[t] <= Uses(c, t)
                        /\ Whole(c, t) => count[t] = Uses(c, t)
  <2>1. \A t \in Tables : t \in Refs
    BY DEF Refs
  <2>2. QED
    BY <1>2, <2>1, RowsAndUses
<1>5. /\ top \subseteq Tables /\ \A r \in top : count[r] > 0
      /\ \A u \in Tables \ top : count[u] > 0 => Cardinality(top) = FreqLimit /\ \A r \in top : count[r] >= count[u]
  BY <1>3, <1>4, RefsFinite, TopRanks
<1>6. PICK ranks : ranks = shell'[s][1].tables
  OBVIOUS
<1>7. DOMAIN ranks = top /\ \A t \in top : ranks[t] = count[t]
  BY <1>3, <1>6
<1>8. ASSUME NEW t \in top PROVE ranks[t] \in 1 .. Uses(c, t) /\ (Whole(c, t) => ranks[t] = Uses(c, t))
  BY <1>4, <1>5, <1>7
<1>9. ASSUME NEW t \in Tables \ top, Whole(c, t), Uses(c, t) > 0 PROVE Full(ranks, Tables, Uses(c, t))
  <2>1. count[t] = Uses(c, t) /\ count[t] > 0
    BY <1>4, <1>9
  <2>2. Cardinality(top) = FreqLimit /\ \A r \in top : r \in DOMAIN ranks /\ ranks[r] >= Uses(c, t)
    BY <1>5, <1>7, <2>1
  <2>3. QED
    BY <1>5, <2>2 DEF Full
<1>10. QED
  BY <1>1, <1>6, <1>7, <1>8, <1>9 DEF RanksTables

\* The rank of a name is the count of a column that is known by it, the greatest.
LEMMA MergedMax ==
  ASSUME NEW K, IsFiniteSet(K), NEW count, \A r \in K : count[r] \in Nat
  PROVE  /\ DOMAIN Merged(count, K) = {r[2] : r \in K}
         /\ \A name \in DOMAIN Merged(count, K) : \E r \in K : r[2] = name /\ Merged(count, K)[name] = count[r]
         /\ \A r \in K : count[r] <= Merged(count, K)[r[2]]
<1> DEFINE Of(name) == {u \in K : u[2] = name}
           V(name)  == {count[r] : r \in Of(name)}
<1>1. Merged(count, K) = [name \in {r[2] : r \in K} |-> Max(V(name))]
  BY DEF Merged
<1>2. ASSUME NEW name \in {r[2] : r \in K} PROVE Max(V(name)) \in V(name) /\ \A x \in V(name) : x <= Max(V(name))
  <2>1. PICK A : A = Of(name)
    OBVIOUS
  <2>2. IsFiniteSet(A) /\ A # {} /\ A \subseteq K
    BY <2>1, FS_Subset
  <2>3. PICK B : B = {count[r] : r \in A}
    OBVIOUS
  <2>4. IsFiniteSet(B)
    <3>1. PICK f : f = [r \in A |-> count[r]]
      OBVIOUS
    <3>2. f \in Surjection(A, B)
      BY <2>3, <3>1 DEF Surjection
    <3>3. QED
      BY <2>2, <3>2, FS_Surjection
  <2>5. B \in SUBSET Nat /\ B # {}
    BY <2>2, <2>3
  <2>6. Max(B) \in B /\ \A x \in B : x <= Max(B)
    BY <2>4, <2>5, MaxOf
  <2>7. B = V(name)
    BY <2>1, <2>3
  <2> HIDE DEF V
  <2>8. QED
    BY <2>6, <2>7
<1>3. ASSUME NEW name \in {r[2] : r \in K} PROVE \E r \in K : r[2] = name /\ Merged(count, K)[name] = count[r]
  <2>1. Merged(count, K)[name] \in V(name)
    BY <1>1, <1>2
  <2>2. QED
    BY <2>1
<1>4. ASSUME NEW r \in K PROVE count[r] <= Merged(count, K)[r[2]]
  <2>1. r[2] \in {u[2] : u \in K} /\ count[r] \in V(r[2])
    OBVIOUS
  <2>2. Merged(count, K)[r[2]] = Max(V(r[2]))
    BY <1>1, <2>1
  <2> HIDE DEF V
  <2>3. QED
    BY <1>2, <2>1, <2>2
<1>5. QED
  BY <1>1, <1>3, <1>4

\* The columns known of each table are the ones of it that have most rows, and a
\* name has the rank of one of those it is the name of.
LEMMA ColumnRankStep ==
  ASSUME IInv, IInv', [Next]_vars, NEW s \in Shells, NewEditor(s)
  PROVE  RanksColumns(s)
<1> DEFINE Of(t) == {r \in Columns : r[1] = t}
<1>1. PICK c \in Conns : /\ shell'[s][1].conn = c /\ access' = access
                         /\ shell'[s][1].columns \in ColumnFreqs(access[c])
  BY EditorRanks DEF Ranks
<1>2. PICK count : count = access'[c]
  OBVIOUS
<1>3. PICK known \in SUBSET UNION {Frequent(count, Of(t)) : t \in Tables} :
        /\ \A t \in Tables : \E top \in Frequent(count, Of(t)) : {r \in UNION known : r[1] = t} = top
        /\ shell'[s][1].columns = Merged(count, UNION known)
  <2>1. PICK Ks : Ks = {k \in SUBSET UNION {Frequent(count, {r \in Columns : r[1] = t}) : t \in Tables} :
                          \A t \in Tables : \E top \in Frequent(count, {r \in Columns : r[1] = t}) : {r \in UNION k : r[1] = t} = top}
    OBVIOUS
  <2>2. shell'[s][1].columns \in {Merged(count, UNION k) : k \in Ks}
    <3>1. access'[c] = access[c]
      BY <1>1
    <3>2. shell'[s][1].columns \in ColumnFreqs(count)
      BY <1>1, <1>2, <3>1
    <3>3. ColumnFreqs(count) = {Merged(count, UNION k) : k \in Ks}
      BY <2>1 DEF ColumnFreqs
    <3>4. QED
      BY <3>2, <3>3
  <2>3. PICK known \in Ks : shell'[s][1].columns = Merged(count, UNION known)
    BY <2>2
  <2>4. known \in SUBSET UNION {Frequent(count, {r \in Columns : r[1] = t}) : t \in Tables}
    BY <2>1, <2>3, Zenon
  <2>5. \A t \in Tables : \E top \in Frequent(count, {r \in Columns : r[1] = t}) : {r \in UNION known : r[1] = t} = top
    BY <2>1, <2>3, Zenon
  <2>6. QED
    BY <2>3, <2>4, <2>5, Zenon
<1>4. PICK K : K = UNION known
  OBVIOUS
<1>5. \A r \in Columns : /\ count[r] \in Nat /\ Uses(c, r) \in Nat /\ count[r] <= Uses(c, r)
                         /\ Whole(c, r) => count[r] = Uses(c, r)
  <2>1. \A r \in Columns : r \in Refs
    BY DEF Refs
  <2>2. QED
    BY <1>2, <2>1, RowsAndUses
<1>6. ASSUME NEW t \in Tables, NEW top \in Frequent(count, Of(t))
      PROVE  /\ top \subseteq Of(t) /\ \A r \in top : count[r] > 0
             /\ \A u \in Of(t) \ top : count[u] > 0 => Cardinality(top) = FreqLimit /\ \A r \in top : count[r] >= count[u]
  <2>1. PICK S : S = Of(t)
    OBVIOUS
  <2>2. IsFiniteSet(S) /\ \A r \in S : count[r] \in Nat
    BY <1>5, <2>1, RefsFinite, FS_Subset
  <2>3. top \in Frequent(count, S)
    BY <2>1
  <2>4. /\ top \subseteq S /\ \A r \in top : count[r] > 0
        /\ \A u \in S \ top : count[u] > 0 => Cardinality(top) = FreqLimit /\ \A r \in top : count[r] >= count[u]
    BY <2>2, <2>3, TopRanks
  <2>5. QED
    BY <2>1, <2>4
<1>7. ASSUME NEW r \in K PROVE r \in Columns /\ count[r] > 0
  <2>1. PICK k \in known : r \in k
    BY <1>4
  <2>2. PICK t \in Tables : k \in Frequent(count, Of(t))
    BY <1>3
  <2>3. r \in Of(t) /\ count[r] > 0
    BY <1>6, <2>1, <2>2
  <2>4. QED
    BY <2>3
<1>8. IsFiniteSet(K) /\ \A r \in K : count[r] \in Nat
  <2>1. K \subseteq Columns
    BY <1>7
  <2>2. QED
    BY <1>5, <2>1, RefsFinite, FS_Subset
<1>9. PICK ranks : ranks = shell'[s][1].columns
  OBVIOUS
<1>10. /\ DOMAIN ranks = {r[2] : r \in K}
       /\ \A name \in DOMAIN ranks : \E r \in K : r[2] = name /\ ranks[name] = count[r]
       /\ \A r \in K : count[r] <= ranks[r[2]]
  <2>1. ranks = Merged(count, K)
    BY <1>3, <1>4, <1>9
  <2>2. /\ DOMAIN Merged(count, K) = {r[2] : r \in K}
        /\ \A name \in DOMAIN Merged(count, K) : \E r \in K : r[2] = name /\ Merged(count, K)[name] = count[r]
        /\ \A r \in K : count[r] <= Merged(count, K)[r[2]]
    BY <1>8, MergedMax
  <2>3. QED
    BY <2>1, <2>2, Zenon
<1>11. ASSUME NEW name \in DOMAIN ranks
       PROVE  \E r \in Columns :
                r[2] = name /\ ranks[name] \in 1 .. Uses(c, r) /\ (Whole(c, r) => ranks[name] = Uses(c, r))
  <2>1. PICK r \in K : r[2] = name /\ ranks[name] = count[r]
    BY <1>10
  <2>2. /\ r \in Columns /\ count[r] > 0 /\ count[r] \in Nat /\ Uses(c, r) \in Nat /\ count[r] <= Uses(c, r)
        /\ Whole(c, r) => count[r] = Uses(c, r)
    BY <1>5, <1>7
  <2>3. ranks[name] \in 1 .. Uses(c, r)
    BY <2>1, <2>2
  <2>4. QED
    BY <2>1, <2>2, <2>3
<1> DEFINE rankOf == [u \in {v \in Columns : v[2] \in DOMAIN ranks} |-> ranks[u[2]]]
<1>12. ASSUME NEW r \in K, NEW n \in Nat, n <= count[r]
       PROVE  r[2] \in DOMAIN ranks /\ ranks[r[2]] >= n /\ r \in DOMAIN rankOf /\ rankOf[r] >= n
  <2>1. r[2] \in DOMAIN ranks /\ count[r] <= ranks[r[2]] /\ r \in Columns /\ count[r] \in Nat
    BY <1>7, <1>8, <1>10
  <2>2. ranks[r[2]] \in Nat
    BY <1>8, <1>10, <2>1
  <2>3. ranks[r[2]] >= n
    BY <1>12, <2>1, <2>2
  <2>4. QED
    BY <2>1, <2>3
<1>13. ASSUME NEW r \in Columns, r[1] \in Tables, Whole(c, r), Uses(c, r) > 0
       PROVE  \/ r[2] \in DOMAIN ranks /\ ranks[r[2]] >= Uses(c, r)
              \/ Full(rankOf, Of(r[1]), Uses(c, r))
  <2>1. count[r] = Uses(c, r) /\ Uses(c, r) \in Nat /\ count[r] > 0
    BY <1>5, <1>13
  <2>2. PICK top \in Frequent(count, Of(r[1])) : {u \in K : u[1] = r[1]} = top
    BY <1>3, <1>4, <1>13
  <2>3. CASE r \in top
    <3>1. r \in K
      BY <2>2, <2>3
    <3>2. QED
      BY <1>12, <2>1, <3>1
  <2>4. CASE r \notin top
    <3>1. r \in Of(r[1]) \ top
      BY <2>4
    <3>2. /\ top \subseteq Of(r[1]) /\ Cardinality(top) = FreqLimit
          /\ \A u \in top : count[u] >= count[r]
      BY <1>6, <1>13, <2>1, <2>2, <3>1
    <3>3. \A u \in top : u \in K /\ Uses(c, r) <= count[u]
      BY <1>8, <2>1, <2>2, <3>2
    <3> HIDE DEF rankOf, Of
    <3>4. \A u \in top : u \in DOMAIN rankOf /\ rankOf[u] >= Uses(c, r)
      BY <1>12, <2>1, <3>3
    <3>5. QED
      BY <3>2, <3>4 DEF Full
  <2>5. QED
    BY <2>3, <2>4
<1>14. QED
  BY <1>1, <1>9, <1>11, <1>13 DEF RanksColumns

\* The rank of a table in a new editor is the number of statements recorded that
\* named it, or fewer when rows of it are missing; one with all its rows is left
\* out for more used ones only.  The rank of a column name is that of a column of the
\* name, counted so; a column with all its rows is outranked in its table only by
\* more used ones.
THEOREM RanksAreCounts == Spec => RanksByUse
<1>1. IInv /\ IInv' /\ [Next]_vars
        => [\A s \in Shells : NewEditor(s) => RanksTables(s) /\ RanksColumns(s)]_vars
  BY RankStep, ColumnRankStep
<1>2. QED
  BY <1>1, InductiveInvariant, PTL DEF Spec, RanksByUse

=============================================================================
