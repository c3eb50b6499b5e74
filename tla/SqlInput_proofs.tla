----------------------------- MODULE SqlInput_proofs -----------------------------
(***************************************************************************)
(* The theorems about texts of any length and of any symbols. The scan of  *)
(* is_complete_statement is a run, a function from positions to what is    *)
(* known there; what is proved of it is proved from position to position.  *)
(*   - Enter is never refused for good: the scan of a text and that of a   *)
(*     longer one agree up to where something was opened, so that one      *)
(*     closer and a semicolon complete any text.                           *)
(*   - The editor holds a text for complete exactly when PostgreSQL's      *)
(*     lexemes do: the scan goes from lexeme to lexeme, and what is told   *)
(*     of the rest of a text agrees from its end backwards.                *)
(*   - Only whole statements are run: the scan of a trimmed text is that   *)
(*     of the text, shifted.                                               *)
(*   - An argument in quotes arrives as it was typed: tokenize_args is a   *)
(*     run too, and within quotes it adds each sign to the argument.       *)
(* And those about what is recorded of a text (QueryRefs), for queries of  *)
(* any depth: the walks of query/alias.rs over a syntax tree find what     *)
(* they say because what is inside of a query is less deep than it.        *)
(*   - The columns counted for one select over tables are those it reads.  *)
(*   - A qualified column is counted for its table in any text.            *)
(***************************************************************************)
EXTENDS SqlInput, QueryRefs, FiniteSetTheorems, SequenceTheorems, WellFoundedInduction, TLAPS

-----------------------------------------------------------------------------
(* Positions                                                               *)

\* The least of a set of positions is in it: positions are well-founded.
LEMMA MinIsLeast ==
  ASSUME NEW T, T \subseteq Nat, T # {}
  PROVE  Min(T) \in T /\ \A k \in T : Min(T) <= k
<1>1. PICK m \in T : \A k \in T : <<k, m>> \notin OpToRel(<, Nat)
  BY WFMin, NatLessThanWellFounded, Zenon
<1>2. ASSUME NEW k \in T PROVE ~(k < m)
  <2>1. k \in Nat /\ m \in Nat
    OBVIOUS
  <2>2. QED
    BY <1>1, <2>1, Zenon DEF OpToRel
<1>3. \A k \in T : m <= k
  BY <1>2
<1>4. QED
  BY <1>3 DEF Min

\* What holds at the first of some positions, and after each where it holds, holds
\* at all: a first exception would have none before it.
LEMMA FromTo ==
  ASSUME NEW m \in Nat, NEW n \in Nat, NEW T, m \in T, \A k \in m .. n - 1 : k \in T => k + 1 \in T
  PROVE  \A k \in m .. n : k \in T
<1> DEFINE missing == {k \in m .. n : k \notin T}
<1>1. SUFFICES ASSUME missing # {} PROVE FALSE
  OBVIOUS
<1>2. PICK e \in missing : \A k \in missing : e <= k
  <2>1. missing \subseteq Nat
    OBVIOUS
  <2>2. QED
    BY <1>1, <2>1, MinIsLeast
<1>3. e # m /\ e \in m .. n /\ e - 1 \in m .. n - 1
  BY <1>2
<1>4. e - 1 \in T
  BY <1>2, <1>3
<1>5. (e - 1) + 1 = e
  BY <1>3
<1>6. QED
  BY <1>2, <1>3, <1>4, <1>5

-----------------------------------------------------------------------------
(* The scan, position by position                                          *)

\* What the scan has found up to each position.
IsScan(f, s, n) == f[0] = Begin /\ \A i \in 1 .. n : f[i] = Step(s, f[i-1], i)

\* The scan is defined by what it has found one position before.
LEMMA ScanRuns ==
  ASSUME NEW s, Len(s) \in Nat
  PROVE  \E f : IsScan(f, s, Len(s)) /\ Scan(s) = f[Len(s)]
<1> DEFINE n == Len(s)
           Runs(f, k) == f = [i \in 0 .. k |-> IF i = 0 THEN Begin ELSE Step(s, f[i-1], i)]
           T == {k \in Nat : \E f : Runs(f, k)}
<1>1. 0 \in T
  <2>1. Runs([i \in 0 .. 0 |-> Begin], 0)
    OBVIOUS
  <2>2. QED
    BY <2>1
<1>2. ASSUME NEW k \in 0 .. n - 1, k \in T PROVE k + 1 \in T
  <2>1. PICK f : Runs(f, k)
    BY <1>2
  <2> DEFINE g == [i \in 0 .. k + 1 |-> IF i = k + 1 THEN Step(s, f[k], k + 1) ELSE f[i]]
  <2>2. ASSUME NEW i \in 0 .. k + 1
        PROVE  g[i] = IF i = 0 THEN Begin ELSE Step(s, g[i-1], i)
    <3>1. CASE i = 0
      BY <2>1, <3>1
    <3>2. CASE i = k + 1
      <4>1. g[i] = Step(s, f[k], i) /\ g[i-1] = f[k] /\ i # 0
        BY <3>2
      <4>2. QED
        BY <4>1
    <3>3. CASE i # 0 /\ i # k + 1
      <4>1. i \in 0 .. k /\ i - 1 \in 0 .. k + 1 /\ i - 1 # k + 1
        BY <3>3
      <4>2. g[i] = f[i] /\ g[i-1] = f[i-1] /\ f[i] = Step(s, f[i-1], i)
        BY <2>1, <3>3, <4>1
      <4>3. QED
        BY <3>3, <4>2
    <3>4. QED
      BY <3>1, <3>2, <3>3
  <2>3. PICK h : h = g
    OBVIOUS
  <2>4. h = [i \in 0 .. k + 1 |-> h[i]] /\ \A i \in 0 .. k + 1 : h[i] = IF i = 0 THEN Begin ELSE Step(s, h[i-1], i)
    BY <2>2, <2>3
  <2> HIDE DEF g
  <2>5. Runs(h, k + 1)
    BY <2>4
  <2>6. k + 1 \in Nat
    OBVIOUS
  <2> HIDE DEF Runs
  <2>7. \E e : Runs(e, k + 1)
    BY <2>5
  <2>8. QED
    BY <2>6, <2>7
<1>3. n \in T
  <2> HIDE DEF T
  <2>1. n \in Nat /\ 0 \in Nat /\ n \in 0 .. n
    OBVIOUS
  <2>2. \A k \in 0 .. n - 1 : k \in T => k + 1 \in T
    BY <1>2
  <2>3. \A k \in 0 .. n : k \in T
    BY <1>1, <2>1, <2>2, FromTo
  <2>4. QED
    BY <2>1, <2>3
<1>4. PICK r : r = CHOOSE g : Runs(g, n)
  OBVIOUS
<1>5. Runs(r, n)
  BY <1>3, <1>4
<1>6. Scan(s) = r[n]
  BY <1>4 DEF Scan
<1>7. IsScan(r, s, n)
  BY <1>5 DEF IsScan
<1>8. QED
  BY <1>6, <1>7

-----------------------------------------------------------------------------
(* What the scan looks for                                                 *)

\* A dollar quote: a tag, which may be empty, between two dollars.
Tagged(d) ==
  /\ d \in Seq(Word) /\ Len(d) \in Nat /\ Len(d) >= 2 /\ d[1] = "$" /\ d[Len(d)] = "$"
  /\ \A k \in 2 .. Len(d) - 1 : d[k] \in Letters \union Digits
  /\ Len(d) > 2 => d[2] \in Letters

Marks == {<<"-", "-">>, <<"/", "*">>, <<"*", "/">>, <<"nl">>} \union {<<q>> : q \in Quotes}
Pattern(d) == d \in Marks \/ Tagged(d)

Semicolon == ";"
Signs == Word \union Quotes \union {"-", "/", "*", "nl"}

\* No symbol is of two kinds.
LEMMA SignsDiffer ==
  /\ Semicolon \notin Signs /\ Semicolon \notin Blank
  /\ Quotes \intersect (Word \union {"-", "/", "*", "nl"}) = {}
  /\ Word \intersect {"-", "/", "*", "nl"} = {} /\ "$" \notin Letters \union Digits /\ "$" \in Word
  /\ "nl" \in Blank
<1>1. Semicolon \notin Signs /\ Semicolon \notin Blank
  BY Zenon DEF Semicolon, Signs, Word, Letters, Digits, Quotes, Blank
<1>2. Quotes \intersect (Word \union {"-", "/", "*", "nl"}) = {}
  BY Zenon DEF Word, Letters, Digits, Quotes
<1>3. Word \intersect {"-", "/", "*", "nl"} = {} /\ "$" \notin Letters \union Digits /\ "$" \in Word
  BY Zenon DEF Word, Letters, Digits
<1>4. "nl" \in Blank
  BY Zenon DEF Blank
<1>5. QED
  BY <1>1, <1>2, <1>3, <1>4

\* A pattern is made of such symbols.
LEMMA PatternType ==
  ASSUME NEW d, Pattern(d)
  PROVE  d \in Seq(Signs) /\ Len(d) \in Nat \ {0} /\ \A k \in 1 .. Len(d) : d[k] \in Signs
<1>1. CASE d \in {<<q>> : q \in Quotes \union {"nl"}}
  <2>1. PICK x \in Signs : d = <<x>>
    BY <1>1 DEF Signs
  <2>2. QED
    BY <2>1
<1>2. CASE d \in {<<"-", "-">>, <<"/", "*">>, <<"*", "/">>}
  <2>1. PICK x, y \in Signs : d = <<x, y>>
    BY <1>2 DEF Signs
  <2>2. QED
    BY <2>1
<1>3. CASE Tagged(d)
  <2>1. d \in Seq(Word) /\ Len(d) \in Nat \ {0} /\ Word \subseteq Signs
    BY <1>3 DEF Tagged, Signs
  <2>2. d = [k \in 1 .. Len(d) |-> d[k]] /\ \A k \in 1 .. Len(d) : d[k] \in Signs
    BY <2>1
  <2>3. d \in Seq(Signs)
    BY <2>1, <2>2
  <2>4. QED
    BY <2>1, <2>2, <2>3
<1>4. QED
  BY <1>1, <1>2, <1>3 DEF Pattern, Marks

\* A text has a pattern at a position when it has its symbols from there on.
LEMMA HasIs ==
  ASSUME NEW S, NEW s \in Seq(S), NEW d, Pattern(d), NEW i \in Nat \ {0}
  PROVE  Has(s, i, d) <=> i + Len(d) - 1 <= Len(s) /\ \A k \in 1 .. Len(d) : s[i+k-1] = d[k]
<1>1. d \in Seq(Signs) /\ Len(d) \in Nat \ {0} /\ Len(s) \in Nat
  BY PatternType, LenProperties
<1>2. SUFFICES ASSUME i + Len(d) - 1 <= Len(s)
               PROVE  SubSeq(s, i, i + Len(d) - 1) = d <=> \A k \in 1 .. Len(d) : s[i+k-1] = d[k]
  BY DEF Has
<1> DEFINE sub == SubSeq(s, i, i + Len(d) - 1)
<1>3. sub \in Seq(S) /\ Len(sub) = Len(d) /\ \A k \in 1 .. Len(d) : sub[k] = s[i+k-1]
  <2>1. i \in 1 .. Len(s) + 1 /\ i + Len(d) - 1 \in i - 1 .. Len(s)
    BY <1>1, <1>2
  <2>2. i + Len(d) - 1 - i + 1 = Len(d)
    BY <1>1
  <2>3. QED
    BY <1>1, <2>1, <2>2, SubSeqProperties
<1> HIDE DEF sub
<1>4. d = [k \in 1 .. Len(d) |-> d[k]] /\ sub = [k \in 1 .. Len(d) |-> sub[k]]
  BY <1>1, <1>3
<1>5. sub = d <=> \A k \in 1 .. Len(d) : sub[k] = d[k]
  BY <1>4
<1>6. QED
  BY <1>3, <1>5 DEF sub

\* It begins and ends within the text.
LEMMA HasFirst ==
  ASSUME NEW S, NEW s \in Seq(S), NEW d, Pattern(d), NEW i \in Nat \ {0}, Has(s, i, d)
  PROVE  s[i] = d[1] /\ i + Len(d) - 1 <= Len(s)
<1>1. Len(d) \in Nat \ {0}
  BY PatternType
<1>2. 1 \in 1 .. Len(d) /\ i + 1 - 1 = i
  BY <1>1
<1>3. QED
  BY <1>2, HasIs

\* The two pairs that begin a comment.
LEMMA Pairs ==
  ASSUME NEW S, NEW s \in Seq(S), NEW i \in Nat \ {0}
  PROVE  /\ Has(s, i, <<"-", "-">>) => s[i] = "-" /\ i + 1 <= Len(s)
         /\ Has(s, i, <<"/", "*">>) => s[i] = "/" /\ i + 1 <= Len(s)
<1>1. ASSUME NEW x, NEW y, Pattern(<<x, y>>), Has(s, i, <<x, y>>)
      PROVE  s[i] = x /\ i + 1 <= Len(s)
  <2>1. PICK d : d = <<x, y>>
    OBVIOUS
  <2>2. Len(d) = 2 /\ d[1] = x /\ Pattern(d) /\ Has(s, i, d)
    BY <1>1, <2>1
  <2>3. s[i] = d[1] /\ i + Len(d) - 1 <= Len(s)
    BY <2>2, HasFirst
  <2>4. Len(s) \in Nat
    BY LenProperties
  <2>5. QED
    BY <2>2, <2>3, <2>4
<1>2. Pattern(<<"-", "-">>) /\ Pattern(<<"/", "*">>)
  BY DEF Pattern, Marks
<1>3. QED
  BY <1>1, <1>2

\* DollarsAt finds the dollar quotes that are there.
LEMMA DollarIs ==
  ASSUME NEW S, NEW s \in Seq(S), NEW i \in 1 .. Len(s), NEW d
  PROVE  d \in DollarsAt(s, i) <=> Tagged(d) /\ Has(s, i, d)
<1>0. Len(s) \in Nat
  BY LenProperties
<1>1. ASSUME d \in DollarsAt(s, i) PROVE Tagged(d) /\ Has(s, i, d)
  <2>1. PICK k \in i + 1 .. Len(s) : d = SubSeq(s, i, k) /\ s[i] = "$" /\ s[k] = "$" /\ IsTag(SubSeq(s, i + 1, k - 1))
    BY <1>1 DEF DollarsAt
  <2> DEFINE tag == SubSeq(s, i + 1, k - 1)
  <2>2. /\ tag \in Seq(S) /\ Len(tag) = k - i - 1 /\ DOMAIN tag = 1 .. k - i - 1
        /\ \A j \in 1 .. k - i - 1 : tag[j] = s[i+j]
    <3>1. i + 1 \in 1 .. Len(s) + 1 /\ k - 1 \in (i + 1) - 1 .. Len(s) /\ k - 1 - (i + 1) + 1 = k - i - 1
      BY <1>0, <2>1
    <3>2. \A j \in 1 .. k - i - 1 : (i + 1) + j - 1 = i + j
      BY <1>0, <2>1
    <3>3. QED
      BY <3>1, <3>2, SubSeqProperties
  <2>3. /\ d \in Seq(S) /\ Len(d) = k - i + 1
        /\ \A j \in 1 .. k - i + 1 : d[j] = s[i+j-1]
    <3>1. i \in 1 .. Len(s) + 1 /\ k \in i - 1 .. Len(s) /\ k - i + 1 \in Nat
      BY <1>0, <2>1
    <3>2. QED
      BY <2>1, <3>1, SubSeqProperties
  <2>4. \A j \in 1 .. k - i - 1 : tag[j] \in Letters \union Digits
    BY <2>1, <2>2 DEF IsTag, ToSet
  <2>5. \A j \in 2 .. Len(d) - 1 : d[j] \in Letters \union Digits
    <3>1. SUFFICES ASSUME NEW j \in 2 .. Len(d) - 1 PROVE d[j] \in Letters \union Digits
      OBVIOUS
    <3>2. j - 1 \in 1 .. k - i - 1 /\ j \in 1 .. k - i + 1 /\ i + j - 1 = i + (j - 1)
      BY <1>0, <2>1, <2>3
    <3>3. QED
      BY <2>2, <2>3, <2>4, <3>2
  <2>6. d[1] = "$" /\ d[Len(d)] = "$" /\ Len(d) >= 2 /\ Len(d) \in Nat
    <3>1. i + 1 - 1 = i /\ i + (k - i + 1) - 1 = k /\ 1 \in 1 .. k - i + 1 /\ k - i + 1 \in 1 .. k - i + 1 /\ k - i + 1 >= 2
      BY <1>0, <2>1
    <3>2. QED
      BY <2>1, <2>3, <3>1
  <2>7. Len(d) > 2 => d[2] \in Letters
    <3>1. SUFFICES ASSUME Len(d) > 2 PROVE d[2] \in Letters
      OBVIOUS
    <3>2. 1 \in 1 .. k - i - 1 /\ 2 \in 1 .. k - i + 1 /\ i + 2 - 1 = i + 1 /\ k - i - 1 # 0
      BY <1>0, <2>1, <2>3, <3>1
    <3>3. tag # <<>>
      BY <2>2, <3>2
    <3>4. tag[1] \in Letters
      BY <2>1, <3>3 DEF IsTag
    <3>5. QED
      BY <2>2, <2>3, <3>2, <3>4
  <2>8. d \in Seq(Word)
    <3>1. \A j \in 1 .. Len(d) : d[j] \in Word
      BY <2>5, <2>6 DEF Word
    <3>2. d = [j \in 1 .. Len(d) |-> d[j]]
      BY <2>3
    <3>3. QED
      BY <2>6, <3>1, <3>2
  <2>9. Has(s, i, d)
    <3>1. i + Len(d) - 1 = k /\ k <= Len(s)
      BY <1>0, <2>1, <2>3
    <3>2. QED
      BY <2>1, <3>1 DEF Has
  <2>10. QED
    BY <2>5, <2>6, <2>7, <2>8, <2>9 DEF Tagged
<1>2. ASSUME Tagged(d), Has(s, i, d) PROVE d \in DollarsAt(s, i)
  <2> DEFINE k == i + Len(d) - 1
             tag == SubSeq(s, i + 1, k - 1)
  <2>1. Len(d) \in Nat /\ Len(d) >= 2 /\ k \in i + 1 .. Len(s) /\ d = SubSeq(s, i, k)
    BY <1>0, <1>2 DEF Tagged, Has
  <2>2. \A j \in 1 .. Len(d) : s[i+j-1] = d[j]
    BY <1>2, HasIs DEF Pattern
  <2>3. s[i] = "$" /\ s[k] = "$"
    <3>1. i + 1 - 1 = i /\ 1 \in 1 .. Len(d) /\ Len(d) \in 1 .. Len(d)
      BY <1>0, <2>1
    <3>2. QED
      BY <1>2, <2>2, <3>1 DEF Tagged
  <2>4. /\ tag \in Seq(S) /\ Len(tag) = Len(d) - 2 /\ DOMAIN tag = 1 .. Len(d) - 2
        /\ \A j \in 1 .. Len(d) - 2 : tag[j] = d[j+1]
    <3>1. i + 1 \in 1 .. Len(s) + 1 /\ k - 1 \in (i + 1) - 1 .. Len(s) /\ k - 1 - (i + 1) + 1 = Len(d) - 2
      BY <1>0, <2>1
    <3>2. /\ tag \in Seq(S) /\ Len(tag) = Len(d) - 2 /\ DOMAIN tag = 1 .. Len(d) - 2
          /\ \A j \in 1 .. Len(d) - 2 : tag[j] = s[(i+1)+j-1]
      BY <3>1, SubSeqProperties
    <3>3. \A j \in 1 .. Len(d) - 2 : j + 1 \in 1 .. Len(d) /\ (i + 1) + j - 1 = i + (j + 1) - 1
      BY <1>0, <2>1
    <3>4. QED
      BY <2>2, <3>2, <3>3
  <2>5. IsTag(tag)
    <3>1. \A j \in 1 .. Len(d) - 2 : j + 1 \in 2 .. Len(d) - 1
      BY <2>1
    <3>2. ToSet(tag) \subseteq Letters \union Digits
      BY <1>2, <2>4, <3>1 DEF ToSet, Tagged
    <3>3. ASSUME tag # <<>> PROVE tag[1] \in Letters
      <4>1. Len(d) - 2 # 0
        BY <2>4, <3>3, EmptySeq
      <4>2. Len(d) > 2 /\ 1 \in 1 .. Len(d) - 2 /\ 1 + 1 = 2
        BY <2>1, <4>1
      <4>3. QED
        BY <1>2, <2>4, <4>2 DEF Tagged
    <3>4. QED
      BY <3>2, <3>3 DEF IsTag
  <2>6. QED
    BY <2>1, <2>3, <2>5 DEF DollarsAt
<1>3. QED
  BY <1>1, <1>2

\* No two dollar quotes are at one position: a tag has no dollar.
LEMMA OneDollar ==
  ASSUME NEW S, NEW s \in Seq(S), NEW i \in 1 .. Len(s), NEW d \in DollarsAt(s, i), NEW e \in DollarsAt(s, i)
  PROVE  d = e
<1>1. ASSUME NEW a, NEW b, Tagged(a), Tagged(b), Has(s, i, a), Has(s, i, b), Len(a) < Len(b) PROVE FALSE
  <2>1. Len(a) \in 2 .. Len(b) - 1 /\ Len(a) \in 1 .. Len(a) /\ Len(a) \in 1 .. Len(b)
    BY <1>1 DEF Tagged
  <2>2. s[i+Len(a)-1] = a[Len(a)] /\ s[i+Len(a)-1] = b[Len(a)]
    BY <1>1, <2>1, HasIs DEF Pattern
  <2>3. b[Len(a)] \in Letters \union Digits /\ a[Len(a)] = "$"
    BY <1>1, <2>1 DEF Tagged
  <2>4. QED
    BY <2>2, <2>3 DEF Letters, Digits
<1>2. Tagged(d) /\ Tagged(e) /\ Has(s, i, d) /\ Has(s, i, e)
  BY DollarIs
<1>3. Len(d) = Len(e)
  BY <1>1, <1>2 DEF Tagged
<1>4. QED
  BY <1>2, <1>3 DEF Has

-----------------------------------------------------------------------------
(* One position of the scan                                                *)

\* Nothing begins at a position.
Unmarked(s, i) ==
  ~Has(s, i, <<"-", "-">>) /\ ~Has(s, i, <<"/", "*">>) /\ DollarsAt(s, i) = {} /\ s[i] \notin Quotes

\* What begins at a position is one thing only.
LEMMA OneBegins ==
  ASSUME NEW S, NEW s \in Seq(S), NEW i \in 1 .. Len(s)
  PROVE  /\ Has(s, i, <<"-", "-">>) => ~Has(s, i, <<"/", "*">>) /\ DollarsAt(s, i) = {} /\ s[i] \notin Quotes
         /\ Has(s, i, <<"/", "*">>) => DollarsAt(s, i) = {} /\ s[i] \notin Quotes
         /\ DollarsAt(s, i) # {} => s[i] \notin Quotes
         /\ ~Unmarked(s, i) => s[i] \notin Blank
<1> DEFINE dashes == Has(s, i, <<"-", "-">>)
           slash  == Has(s, i, <<"/", "*">>)
           dollar == DollarsAt(s, i) # {}
           quote  == s[i] \in Quotes
           blank  == s[i] \in Blank
<1>1. (dashes => s[i] = "-") /\ (slash => s[i] = "/")
  BY Pairs
<1>2. dollar => s[i] = "$"
  BY DollarIs, HasFirst DEF Tagged, Pattern
<1>3. s[i] \in {"-", "/", "$"} => ~quote /\ ~blank
  BY Zenon DEF Quotes, Blank
<1>4. quote => ~blank
  BY Zenon DEF Quotes, Blank
<1>5. QED
  BY <1>1, <1>2, <1>3, <1>4 DEF Unmarked

\* At the top level: what begins is taken, and what does not is passed over.
LEMMA TopDashes ==
  ASSUME NEW S, NEW s \in Seq(S), NEW i \in 1 .. Len(s), NEW a, Has(s, i, <<"-", "-">>)
  PROVE  ScanTop(s, a, i) = Inside(a, <<"nl">>, 2, i)
<1>1. ~Has(s, i, <<"/", "*">>) /\ DollarsAt(s, i) = {} /\ s[i] \notin Quotes /\ s[i] \notin Blank
  BY OneBegins DEF Unmarked
<1>2. QED
  BY <1>1 DEF ScanTop

\* A comment of the other kind.
LEMMA TopSlash ==
  ASSUME NEW S, NEW s \in Seq(S), NEW i \in 1 .. Len(s), NEW a, Has(s, i, <<"/", "*">>)
  PROVE  ScanTop(s, a, i) = Inside(a, <<"*", "/">>, 2, i)
<1>1. ~Has(s, i, <<"-", "-">>) /\ DollarsAt(s, i) = {} /\ s[i] \notin Quotes /\ s[i] \notin Blank
  BY OneBegins DEF Unmarked
<1>2. QED
  BY <1>1 DEF ScanTop

\* A dollar quote; its tag is the one that begins here.
LEMMA TopDollar ==
  ASSUME NEW S, NEW s \in Seq(S), NEW i \in 1 .. Len(s), NEW a, NEW d \in DollarsAt(s, i)
  PROVE  ScanTop(s, a, i) = [Inside(a, d, Len(d), i) EXCEPT !.last = "$"]
<1>1. ~Has(s, i, <<"-", "-">>) /\ ~Has(s, i, <<"/", "*">>) /\ s[i] \notin Quotes /\ s[i] \notin Blank
  BY OneBegins DEF Unmarked
<1>2. PICK e : e = CHOOSE x \in DollarsAt(s, i) : TRUE
  OBVIOUS
<1>3. e \in DollarsAt(s, i)
  BY <1>2
<1>4. e = d
  BY <1>3, OneDollar
<1>5. ScanTop(s, a, i) = [Inside(a, e, Len(e), i) EXCEPT !.last = "$"]
  BY <1>1, <1>2 DEF ScanTop
<1>6. QED
  BY <1>4, <1>5

\* A quote.
LEMMA TopQuote ==
  ASSUME NEW S, NEW s \in Seq(S), NEW i \in 1 .. Len(s), NEW a, s[i] \in Quotes
  PROVE  ScanTop(s, a, i) = [Inside(a, <<s[i]>>, 1, i) EXCEPT !.last = s[i]]
<1>1. ~Has(s, i, <<"-", "-">>) /\ ~Has(s, i, <<"/", "*">>) /\ DollarsAt(s, i) = {} /\ s[i] \notin Blank
  BY OneBegins DEF Unmarked
<1>2. QED
  BY <1>1 DEF ScanTop

\* Nothing begins: a blank is passed over.
LEMMA TopBlank ==
  ASSUME NEW S, NEW s \in Seq(S), NEW i \in 1 .. Len(s), NEW a, s[i] \in Blank
  PROVE  Unmarked(s, i) /\ ScanTop(s, a, i) = [a EXCEPT !.at = i + 1]
<1>1. Unmarked(s, i)
  BY OneBegins
<1>2. QED
  BY <1>1 DEF ScanTop, Unmarked

\* Any other sign is remembered as the last one.
LEMMA TopPlain ==
  ASSUME NEW s, NEW i, NEW a, Unmarked(s, i), s[i] \notin Blank
  PROVE  ScanTop(s, a, i) = [a EXCEPT !.at = i + 1, !.last = s[i]]
BY DEF ScanTop, Unmarked

\* So it is one of these.
LEMMA TopCases ==
  ASSUME NEW S, NEW s \in Seq(S), NEW i \in 1 .. Len(s), NEW a
  PROVE  \/ Has(s, i, <<"-", "-">>) /\ ScanTop(s, a, i) = Inside(a, <<"nl">>, 2, i)
         \/ Has(s, i, <<"/", "*">>) /\ ScanTop(s, a, i) = Inside(a, <<"*", "/">>, 2, i)
         \/ \E d \in DollarsAt(s, i) : ScanTop(s, a, i) = [Inside(a, d, Len(d), i) EXCEPT !.last = "$"]
         \/ s[i] \in Quotes /\ ScanTop(s, a, i) = [Inside(a, <<s[i]>>, 1, i) EXCEPT !.last = s[i]]
         \/ Unmarked(s, i) /\ s[i] \in Blank /\ ScanTop(s, a, i) = [a EXCEPT !.at = i + 1]
         \/ Unmarked(s, i) /\ s[i] \notin Blank /\ ScanTop(s, a, i) = [a EXCEPT !.at = i + 1, !.last = s[i]]
<1>1. CASE Has(s, i, <<"-", "-">>)
  BY <1>1, TopDashes
<1>2. CASE Has(s, i, <<"/", "*">>)
  BY <1>2, TopSlash
<1>3. CASE DollarsAt(s, i) # {}
  <2>1. PICK d : d \in DollarsAt(s, i)
    BY <1>3
  <2>2. ScanTop(s, a, i) = [Inside(a, d, Len(d), i) EXCEPT !.last = "$"]
    BY <2>1, TopDollar
  <2>3. QED
    BY <2>1, <2>2
<1>4. CASE s[i] \in Quotes
  BY <1>4, TopQuote
<1>5. CASE Unmarked(s, i) /\ s[i] \in Blank
  BY <1>5, TopBlank
<1>6. CASE Unmarked(s, i) /\ s[i] \notin Blank
  BY <1>6, TopPlain
<1>7. QED
  BY <1>1, <1>2, <1>3, <1>4, <1>5, <1>6 DEF Unmarked

\* A state of the scan after i positions of s: inside of nothing, or of what a
\* pattern ends, with the next position to look at.
Fine(a, s, i) ==
  /\ a = [closer |-> a.closer, last |-> a.last, at |-> a.at]
  /\ a.at \in i + 1 .. Len(s) + 1
  /\ a.closer = <<>> \/ (Pattern(a.closer) /\ a.closer \in Closers(s))

\* What closes what begins at a position.
LEMMA Opening ==
  ASSUME NEW S, NEW s \in Seq(S), NEW i \in 1 .. Len(s), NEW a,
         a = [closer |-> a.closer, last |-> a.last, at |-> a.at], a.closer = <<>>
  PROVE  LET b == ScanTop(s, a, i)
         IN  /\ Fine(b, s, i)
             /\ b.closer # <<>> => s[i] \notin Letters \union Digits
<1>0. Len(s) \in Nat
  BY LenProperties
<1>1. CASE Has(s, i, <<"-", "-">>) /\ ScanTop(s, a, i) = Inside(a, <<"nl">>, 2, i)
  <2>1. Pattern(<<"-", "-">>) /\ Pattern(<<"nl">>) /\ <<"nl">> \in Closers(s)
    BY DEF Pattern, Marks, Closers
  <2>2. i + 1 <= Len(s) /\ s[i] = "-"
    BY <1>1, Pairs
  <2>3. ScanTop(s, a, i) = [closer |-> <<"nl">>, last |-> a.last, at |-> i + 2]
    BY <1>1 DEF Inside
  <2>4. s[i] \notin Letters \union Digits
    BY <2>2, SignsDiffer DEF Word
  <2>5. QED
    BY <1>0, <2>1, <2>2, <2>3, <2>4 DEF Fine
<1>2. CASE Has(s, i, <<"/", "*">>) /\ ScanTop(s, a, i) = Inside(a, <<"*", "/">>, 2, i)
  <2>1. Pattern(<<"/", "*">>) /\ Pattern(<<"*", "/">>) /\ <<"*", "/">> \in Closers(s)
    BY DEF Pattern, Marks, Closers
  <2>2. i + 1 <= Len(s) /\ s[i] = "/"
    BY <1>2, Pairs
  <2>3. ScanTop(s, a, i) = [closer |-> <<"*", "/">>, last |-> a.last, at |-> i + 2]
    BY <1>2 DEF Inside
  <2>4. s[i] \notin Letters \union Digits
    BY <2>2, SignsDiffer DEF Word
  <2>5. QED
    BY <1>0, <2>1, <2>2, <2>3, <2>4 DEF Fine
<1>3. ASSUME NEW d \in DollarsAt(s, i), ScanTop(s, a, i) = [Inside(a, d, Len(d), i) EXCEPT !.last = "$"]
      PROVE  Fine(ScanTop(s, a, i), s, i) /\ s[i] \notin Letters \union Digits
  <2>1. Tagged(d) /\ Pattern(d) /\ Has(s, i, d)
    BY DollarIs DEF Pattern
  <2>2. d \in Closers(s)
    <3>1. i \in DOMAIN s
      BY <1>0
    <3>2. d \in UNION {DollarsAt(s, j) : j \in DOMAIN s}
      BY <3>1
    <3>3. QED
      BY <3>2 DEF Closers
  <2>3. Len(d) \in Nat \ {0} /\ i + Len(d) - 1 <= Len(s) /\ s[i] = "$"
    BY <2>1, HasFirst DEF Tagged
  <2>4. ScanTop(s, a, i) = [closer |-> d, last |-> "$", at |-> i + Len(d)]
    BY <1>3 DEF Inside
  <2>5. s[i] \notin Letters \union Digits
    BY <2>3, SignsDiffer
  <2>6. QED
    BY <1>0, <2>1, <2>2, <2>3, <2>4, <2>5 DEF Fine
<1>4. CASE s[i] \in Quotes /\ ScanTop(s, a, i) = [Inside(a, <<s[i]>>, 1, i) EXCEPT !.last = s[i]]
  <2>1. Pattern(<<s[i]>>)
    BY <1>4 DEF Pattern, Marks
  <2>2. <<s[i]>> \in Closers(s)
    BY <1>4, Zenon DEF Closers, Quotes
  <2>3. ScanTop(s, a, i) = [closer |-> <<s[i]>>, last |-> s[i], at |-> i + 1]
    BY <1>4 DEF Inside
  <2>4. s[i] \notin Letters \union Digits
    BY <1>4, SignsDiffer DEF Word
  <2>5. QED
    BY <1>0, <2>1, <2>2, <2>3, <2>4 DEF Fine
<1>5. CASE ScanTop(s, a, i) = [a EXCEPT !.at = i + 1]
  BY <1>0, <1>5 DEF Fine
<1>6. CASE ScanTop(s, a, i) = [a EXCEPT !.at = i + 1, !.last = s[i]]
  <2>1. ScanTop(s, a, i) = [closer |-> <<>>, last |-> s[i], at |-> i + 1]
    BY <1>6
  <2>2. QED
    BY <1>0, <2>1 DEF Fine
<1>7. QED
  BY <1>1, <1>2, <1>3, <1>4, <1>5, <1>6, TopCases

\* Each step of a scan leaves it in such a state.
LEMMA FineStep ==
  ASSUME NEW S, NEW s \in Seq(S), NEW i \in 1 .. Len(s), NEW a, Fine(a, s, i - 1)
  PROVE  Fine(Step(s, a, i), s, i)
<1>0. Len(s) \in Nat
  BY LenProperties
<1>1. CASE i < a.at
  BY <1>0, <1>1 DEF Fine, Step
<1>2. CASE ~(i < a.at) /\ a.closer = <<>>
  BY <1>2, Opening DEF Fine, Step
<1>3. CASE ~(i < a.at) /\ a.closer # <<>>
  <2>1. Step(s, a, i) = ScanInside(s, a, i) /\ Pattern(a.closer) /\ Len(a.closer) \in Nat \ {0}
    BY <1>3, PatternType DEF Step, Fine
  <2>2. CASE a.closer = <<s[i]>> /\ s[i] \in Quotes /\ Has(s, i + 1, a.closer)
    <3>1. i + 1 \in Nat \ {0} /\ i + 1 + Len(a.closer) - 1 <= Len(s)
      <4>1. i + 1 \in Nat \ {0}
        OBVIOUS
      <4>2. QED
        BY <2>1, <2>2, <4>1, HasIs
    <3>2. ScanInside(s, a, i) = [a EXCEPT !.at = i + 2] /\ i + 2 \in i + 1 .. Len(s) + 1
      BY <1>0, <2>1, <2>2, <3>1 DEF ScanInside
    <3>3. QED
      BY <2>1, <3>2 DEF Fine
  <2>3. CASE ~(a.closer = <<s[i]>> /\ s[i] \in Quotes /\ Has(s, i + 1, a.closer)) /\ Has(s, i, a.closer)
    <3>1. i + Len(a.closer) - 1 <= Len(s)
      BY <2>1, <2>3, HasIs
    <3>2. ScanInside(s, a, i) = Inside(a, <<>>, Len(a.closer), i)
      BY <2>3, Zenon DEF ScanInside
    <3>3. ScanInside(s, a, i) = [closer |-> <<>>, last |-> a.last, at |-> i + Len(a.closer)]
      BY <3>2 DEF Inside, Fine
    <3>4. QED
      BY <1>0, <2>1, <3>1, <3>3 DEF Fine
  <2>4. CASE ~Has(s, i, a.closer) /\ ~(a.closer = <<s[i]>> /\ s[i] \in Quotes /\ Has(s, i + 1, a.closer))
    <3>1. ScanInside(s, a, i) = [a EXCEPT !.at = i + 1]
      BY <2>4 DEF ScanInside
    <3>2. QED
      BY <1>0, <2>1, <3>1 DEF Fine
  <2>5. QED
    BY <2>2, <2>3, <2>4
<1>4. QED
  BY <1>1, <1>2, <1>3

\* So a scan is in one after every position.
LEMMA ScanFine ==
  ASSUME NEW S, NEW s \in Seq(S), NEW f, IsScan(f, s, Len(s))
  PROVE  \A i \in 0 .. Len(s) : Fine(f[i], s, i)
<1> DEFINE T == {i \in Nat : Fine(f[i], s, i)}
<1>0. Len(s) \in Nat
  BY LenProperties
<1>1. 0 \in T
  BY <1>0 DEF IsScan, Begin, Fine
<1>2. ASSUME NEW k \in 0 .. Len(s) - 1, k \in T PROVE k + 1 \in T
  <2>1. k + 1 \in 1 .. Len(s) /\ (k + 1) - 1 = k /\ k + 1 \in Nat
    BY <1>0
  <2>2. f[k+1] = Step(s, f[k], k + 1)
    BY <2>1 DEF IsScan
  <2>3. Fine(f[k], s, (k + 1) - 1)
    BY <1>2, <2>1
  <2>4. QED
    BY <2>1, <2>2, <2>3, FineStep
<1> HIDE DEF T
<1>3. \A k \in 0 .. Len(s) : k \in T
  <2>1. \A k \in 0 .. Len(s) - 1 : k \in T => k + 1 \in T
    BY <1>2
  <2>2. QED
    BY <1>0, <1>1, <2>1, FromTo
<1>4. QED
  BY <1>3 DEF T

-----------------------------------------------------------------------------
(* Two texts that look the same at a position                              *)

Alike(s, t, i) == s[i] = t[i] /\ \A d : Pattern(d) => (Has(s, i, d) <=> Has(t, i, d))

\* A quote is doubled there in both or in none.
Doubled(s, i) == s[i] \in Quotes /\ Has(s, i + 1, <<s[i]>>)

\* At such a position the same begins at the top level.
LEMMA TopAlike ==
  ASSUME NEW S, NEW s \in Seq(S), NEW t \in Seq(S), NEW i \in 1 .. Len(s), i \in 1 .. Len(t),
         NEW a, Alike(s, t, i)
  PROVE  ScanTop(s, a, i) = ScanTop(t, a, i)
<1>1. /\ Has(s, i, <<"-", "-">>) <=> Has(t, i, <<"-", "-">>)
      /\ Has(s, i, <<"/", "*">>) <=> Has(t, i, <<"/", "*">>)
  BY DEF Alike, Pattern, Marks
<1>2. \A d : d \in DollarsAt(s, i) <=> d \in DollarsAt(t, i)
  BY DollarIs DEF Alike, Pattern
<1>3. DollarsAt(s, i) = DollarsAt(t, i)
  BY <1>2
<1>4. s[i] = t[i]
  BY DEF Alike
<1>5. QED
  BY <1>1, <1>3, <1>4 DEF ScanTop

\* There, a step of the scan is the same.
LEMMA StepAlike ==
  ASSUME NEW S, NEW s \in Seq(S), NEW t \in Seq(S), NEW i \in 1 .. Len(s), i \in 1 .. Len(t),
         NEW a, a.closer = <<>> \/ Pattern(a.closer), Alike(s, t, i), Doubled(s, i) <=> Doubled(t, i)
  PROVE  Step(s, a, i) = Step(t, a, i)
<1>1. s[i] = t[i]
  BY DEF Alike
<1>2. ScanTop(s, a, i) = ScanTop(t, a, i)
  BY TopAlike
<1>3. ASSUME a.closer # <<>> PROVE ScanInside(s, a, i) = ScanInside(t, a, i)
  <2>1. Has(s, i, a.closer) <=> Has(t, i, a.closer)
    BY <1>3 DEF Alike
  <2>2. /\ a.closer = <<s[i]>> /\ s[i] \in Quotes /\ Has(s, i + 1, a.closer) <=> a.closer = <<s[i]>> /\ Doubled(s, i)
        /\ a.closer = <<t[i]>> /\ t[i] \in Quotes /\ Has(t, i + 1, a.closer) <=> a.closer = <<t[i]>> /\ Doubled(t, i)
    BY DEF Doubled
  <2>3. QED
    BY <1>1, <2>1, <2>2 DEF ScanInside
<1>4. QED
  BY <1>2, <1>3 DEF Step

\* As far as two texts look the same, so do their scans.
LEMMA ScanAlike ==
  ASSUME NEW S, NEW s \in Seq(S), NEW t \in Seq(S), NEW f, NEW g, IsScan(f, s, Len(s)), IsScan(g, t, Len(t)),
         NEW q \in 0 .. Len(s), q <= Len(t),
         \A i \in 1 .. q : Alike(s, t, i) /\ (Doubled(s, i) <=> Doubled(t, i))
  PROVE  g[q] = f[q]
<1> DEFINE T == {i \in Nat : g[i] = f[i]}
<1>0. Len(s) \in Nat /\ Len(t) \in Nat /\ q \in Nat
  BY LenProperties
<1>1. 0 \in T
  BY DEF IsScan
<1>2. ASSUME NEW k \in 0 .. q - 1, k \in T PROVE k + 1 \in T
  <2>1. k + 1 \in 1 .. q /\ k + 1 \in 1 .. Len(s) /\ k + 1 \in 1 .. Len(t) /\ (k + 1) - 1 = k /\ k \in 0 .. Len(s) /\ k + 1 \in Nat
    BY <1>0
  <2>2. f[k+1] = Step(s, f[k], k + 1) /\ g[k+1] = Step(t, g[k], k + 1) /\ g[k] = f[k]
    BY <1>2, <2>1 DEF IsScan
  <2>3. f[k].closer = <<>> \/ Pattern(f[k].closer)
    BY <2>1, ScanFine DEF Fine
  <2>4. Step(s, f[k], k + 1) = Step(t, f[k], k + 1)
    BY <2>1, <2>3, StepAlike
  <2>5. QED
    BY <2>1, <2>2, <2>4
<1> HIDE DEF T
<1>3. \A k \in 0 .. q : k \in T
  <2>1. \A k \in 0 .. q - 1 : k \in T => k + 1 \in T
    BY <1>2
  <2>2. QED
    BY <1>0, <1>1, <2>1, FromTo
<1>4. q \in T
  BY <1>0, <1>3
<1>5. QED
  BY <1>4 DEF T

\* t begins with s.
Extends(s, t) == Len(s) <= Len(t) /\ \A j \in 1 .. Len(s) : t[j] = s[j]

\* What a text has, one that begins with it has; and what the longer has within
\* the shorter, the shorter has.
LEMMA HasWithin ==
  ASSUME NEW S, NEW s \in Seq(S), NEW t \in Seq(S), Extends(s, t),
         NEW i \in Nat \ {0}, NEW d, Pattern(d)
  PROVE  Has(s, i, d) <=> Has(t, i, d) /\ i + Len(d) - 1 <= Len(s)
<1>1. Len(d) \in Nat \ {0} /\ Len(s) \in Nat /\ Len(t) \in Nat
  BY PatternType, LenProperties
<1>2. Has(s, i, d) <=> i + Len(d) - 1 <= Len(s) /\ \A k \in 1 .. Len(d) : s[i+k-1] = d[k]
  BY HasIs
<1>3. Has(t, i, d) <=> i + Len(d) - 1 <= Len(t) /\ \A k \in 1 .. Len(d) : t[i+k-1] = d[k]
  BY HasIs
<1>4. ASSUME i + Len(d) - 1 <= Len(s) PROVE \A k \in 1 .. Len(d) : t[i+k-1] = s[i+k-1]
  <2>1. \A k \in 1 .. Len(d) : i + k - 1 \in 1 .. Len(s)
    BY <1>1, <1>4
  <2>2. QED
    BY <2>1 DEF Extends
<1>5. i + Len(d) - 1 <= Len(s) => i + Len(d) - 1 <= Len(t)
  BY <1>1 DEF Extends
<1>6. QED
  BY <1>2, <1>3, <1>4, <1>5

\* A text and what begins with it look the same wherever no pattern of the longer
\* one runs over the end of the shorter.
LEMMA WithinAlike ==
  ASSUME NEW S, NEW s \in Seq(S), NEW t \in Seq(S), Extends(s, t),
         NEW i \in 1 .. Len(s), \A d : Pattern(d) /\ Has(t, i, d) => i + Len(d) - 1 <= Len(s)
  PROVE  Alike(s, t, i)
<1>1. i \in Nat \ {0} /\ s[i] = t[i]
  BY DEF Extends
<1>2. QED
  BY <1>1, HasWithin DEF Alike

\* A quote is doubled in the shorter when it is in the longer, short of its end.
LEMMA WithinDoubled ==
  ASSUME NEW S, NEW s \in Seq(S), NEW t \in Seq(S), Extends(s, t),
         NEW i \in 1 .. Len(s), i + 1 <= Len(s) \/ ~Doubled(t, i)
  PROVE  Doubled(s, i) <=> Doubled(t, i)
<1>1. Len(s) \in Nat /\ s[i] = t[i]
  BY LenProperties DEF Extends
<1>2. ASSUME s[i] \in Quotes
      PROVE  Has(s, i + 1, <<s[i]>>) <=> Has(t, i + 1, <<s[i]>>) /\ i + 1 <= Len(s)
  <2>1. PICK d : d = <<s[i]>>
    OBVIOUS
  <2>2. Pattern(d) /\ Len(d) = 1 /\ i + 1 \in Nat \ {0}
    BY <1>2, <2>1 DEF Pattern, Marks
  <2>3. (i + 1) + Len(d) - 1 = i + 1
    BY <2>2
  <2>4. QED
    BY <2>1, <2>2, <2>3, HasWithin
<1>3. QED
  BY <1>1, <1>2 DEF Doubled

-----------------------------------------------------------------------------
(* A text, what closes it, and a semicolon                                 *)

\* t is s, the closer c and a semicolon.
Completed(s, c, t) ==
  /\ Len(s) \in Nat /\ Len(c) \in Nat /\ Len(t) = Len(s) + Len(c) + 1
  /\ \A i \in 1 .. Len(s) : t[i] = s[i]
  /\ \A k \in 1 .. Len(c) : t[Len(s) + k] = c[k]
  /\ t[Len(s) + Len(c) + 1] = Semicolon

\* The concatenation of the three is such a text.
LEMMA Concatenated ==
  ASSUME NEW S, NEW s \in Seq(S), NEW c \in Seq(Signs)
  PROVE  /\ s \o c \o <<Semicolon>> \in Seq(S \union Signs \union {Semicolon})
         /\ s \in Seq(S \union Signs \union {Semicolon})
         /\ Completed(s, c, s \o c \o <<Semicolon>>)
<1> DEFINE R == S \union Signs \union {Semicolon}
           t == s \o c
           e == <<Semicolon>>
<1>1. s \in Seq(R) /\ c \in Seq(R) /\ e \in Seq(R) /\ Len(e) = 1 /\ e[1] = Semicolon
  <2>1. Len(s) \in Nat /\ s = [k \in 1 .. Len(s) |-> s[k]] /\ \A k \in 1 .. Len(s) : s[k] \in R
    OBVIOUS
  <2>2. Len(c) \in Nat /\ c = [k \in 1 .. Len(c) |-> c[k]] /\ \A k \in 1 .. Len(c) : c[k] \in R
    OBVIOUS
  <2>3. s \in Seq(R) /\ c \in Seq(R)
    BY <2>1, <2>2
  <2>4. e \in Seq(R) /\ Len(e) = 1 /\ e[1] = Semicolon
    BY Semicolon \in R
  <2>5. QED
    BY <2>3, <2>4
<1> HIDE DEF R, e
<1>2. /\ t \in Seq(R) /\ Len(t) = Len(s) + Len(c) /\ Len(s) \in Nat /\ Len(c) \in Nat
      /\ \A i \in 1 .. Len(s) : t[i] = s[i]
      /\ \A k \in 1 .. Len(c) : t[Len(s) + k] = c[k]
  <2>1. \A k \in 1 .. Len(c) : Len(s) + k \in 1 .. Len(s) + Len(c) /\ Len(s) + k > Len(s) /\ Len(s) + k - Len(s) = k
    BY <1>1
  <2>2. QED
    BY <1>1, <2>1, ConcatProperties
<1> HIDE DEF t
<1>3. /\ t \o e \in Seq(R) /\ Len(t \o e) = Len(t) + 1
      /\ \A i \in 1 .. Len(t) : (t \o e)[i] = t[i]
      /\ (t \o e)[Len(t) + 1] = Semicolon
  <2>1. /\ t \o e \in Seq(R) /\ Len(t \o e) = Len(t) + Len(e)
        /\ \A i \in 1 .. Len(t) + Len(e) : (t \o e)[i] = IF i <= Len(t) THEN t[i] ELSE e[i - Len(t)]
    <3>1. t \in Seq(R) /\ e \in Seq(R)
      BY <1>1, <1>2
    <3>2. QED
      BY <3>1, ConcatProperties, Zenon
  <2>2. Len(t) \in Nat /\ Len(t) + 1 \in 1 .. Len(t) + 1 /\ Len(t) + 1 - Len(t) = 1 /\ ~(Len(t) + 1 <= Len(t))
    BY <1>2
  <2>3. \A i \in 1 .. Len(t) : i \in 1 .. Len(t) + 1 /\ i <= Len(t)
    BY <2>2
  <2>4. QED
    BY <1>1, <2>1, <2>2, <2>3
<1>4. /\ \A i \in 1 .. Len(s) : (t \o e)[i] = s[i]
      /\ \A k \in 1 .. Len(c) : (t \o e)[Len(s) + k] = c[k]
  <2>1. \A i \in 1 .. Len(s) : i \in 1 .. Len(t)
    BY <1>2
  <2>2. \A k \in 1 .. Len(c) : Len(s) + k \in 1 .. Len(t)
    BY <1>2
  <2>3. QED
    BY <1>2, <1>3, <2>1, <2>2
<1>5. Completed(s, c, t \o e)
  BY <1>2, <1>3, <1>4 DEF Completed
<1>6. QED
  BY <1>1, <1>3, <1>5 DEF R, t, e

\* At the last position, at the top level, the semicolon completes it.
LEMMA LastSemicolon ==
  ASSUME NEW S, NEW t \in Seq(S), NEW g, IsScan(g, t, Len(t)), Scan(t) = g[Len(t)],
         Len(t) \in Nat \ {0}, t[Len(t)] = Semicolon,
         g[Len(t)-1].closer = <<>>, g[Len(t)-1].at = Len(t)
  PROVE  IsCompleteStatement(t)
<1> DEFINE n == Len(t)
           a == g[n-1]
<1>1. n \in 1 .. n /\ n - 1 \in 0 .. n /\ ~(n < a.at)
  OBVIOUS
<1>2. g[n] = ScanTop(t, a, n)
  BY <1>1 DEF IsScan, Step
<1>3. a = [closer |-> a.closer, last |-> a.last, at |-> a.at]
  BY <1>1, ScanFine DEF Fine
<1>4. ASSUME NEW d, Pattern(d) PROVE ~Has(t, n, d)
  <2>1. d[1] \in Signs
    BY <1>4, PatternType
  <2>2. QED
    BY <1>1, <1>4, <2>1, HasFirst, SignsDiffer
<1>5. ~Has(t, n, <<"-", "-">>) /\ ~Has(t, n, <<"/", "*">>)
  BY <1>4 DEF Pattern, Marks
<1>6. DollarsAt(t, n) = {}
  BY <1>1, <1>4, DollarIs DEF Pattern
<1>7. t[n] \notin Quotes /\ t[n] \notin Blank
  BY SignsDiffer DEF Signs
<1>8. g[n] = [a EXCEPT !.at = n + 1, !.last = t[n]]
  BY <1>1, <1>2, <1>5, <1>6, <1>7, TopCases
<1>9. g[n].closer = <<>> /\ g[n].last = Semicolon
  BY <1>3, <1>8
<1>10. QED
  BY <1>9, Zenon DEF IsCompleteStatement, Semicolon

-----------------------------------------------------------------------------
(* Where the closer may match early                                        *)

\* What closes an open text is a dollar quote, a quote, the end of a line or of a
\* comment.
LEMMA CloserIs ==
  ASSUME NEW S, NEW s \in Seq(S), NEW c \in Closers(s), c # <<>>
  PROVE  Tagged(c) \/ c = <<"*", "/">> \/ \E q \in Quotes \union {"nl"} : c = <<q>>
<1>1. CASE c \in UNION {DollarsAt(s, i) : i \in DOMAIN s}
  <2>1. PICK i \in DOMAIN s : c \in DollarsAt(s, i)
    BY <1>1
  <2>2. i \in 1 .. Len(s)
    OBVIOUS
  <2>3. QED
    BY <2>1, <2>2, DollarIs
<1>2. CASE c \in {<<"'">>, <<"\"">>}
  BY <1>2, Zenon DEF Quotes
<1>3. CASE c \in {<<"nl">>, <<"*", "/">>}
  BY <1>3
<1>4. QED
  BY <1>1, <1>2, <1>3 DEF Closers

\* A text has no symbol of a pattern where it has a semicolon.
LEMMA NotOverSemicolon ==
  ASSUME NEW S, NEW t \in Seq(S), NEW i \in Nat \ {0}, NEW j \in Nat, i <= j, t[j] = Semicolon,
         NEW d, Pattern(d), Has(t, i, d)
  PROVE  i + Len(d) - 1 < j
<1>1. Len(d) \in Nat \ {0} /\ \A k \in 1 .. Len(d) : d[k] \in Signs
  BY PatternType
<1>2. \A k \in 1 .. Len(d) : t[i+k-1] = d[k]
  BY HasIs
<1>3. SUFFICES ASSUME j <= i + Len(d) - 1 PROVE FALSE
  BY <1>1
<1>4. PICK k : k = j - i + 1
  OBVIOUS
<1>5. k \in 1 .. Len(d) /\ i + k - 1 = j
  BY <1>1, <1>3, <1>4
<1>6. QED
  BY <1>1, <1>2, <1>5, SignsDiffer

\* Only a dollar quote begins before the end and matches beyond it, and only with
\* its last dollar on the first of the closer.
LEMMA Overlap ==
  ASSUME NEW S, NEW s \in Seq(S), NEW t \in Seq(S), NEW c \in Closers(s), c # <<>>, Pattern(c), Completed(s, c, t),
         NEW i \in 1 .. Len(s), Has(t, i, c), i + Len(c) - 1 > Len(s)
  PROVE  Tagged(c) /\ i + Len(c) = Len(s) + 2
<1>1. Len(c) \in Nat \ {0} /\ Len(s) \in Nat
  BY PatternType, LenProperties
<1>2. \A k \in 1 .. Len(c) : t[i+k-1] = c[k]
  BY HasIs
<1>3. PICK k : k = Len(s) + 2 - i
  OBVIOUS
<1>4. k \in 2 .. Len(c) /\ k \in 1 .. Len(c) /\ i + k - 1 = Len(s) + 1 /\ 1 \in 1 .. Len(c)
  BY <1>1, <1>3
<1>5. c[k] = c[1]
  BY <1>2, <1>4 DEF Completed
<1>6. Tagged(c)
  <2>1. ASSUME NEW q, c = <<q>> PROVE FALSE
    BY <1>1, <1>4, <2>1
  <2>2. ASSUME c = <<"*", "/">> PROVE FALSE
    <3>1. Len(c) = 2 /\ c[1] = "*" /\ c[2] = "/"
      BY <2>2
    <3>2. k = 2
      BY <1>4, <3>1
    <3>3. QED
      BY <1>5, <3>1, <3>2
  <2>3. QED
    BY <2>1, <2>2, CloserIs
<1>7. k = Len(c)
  <2>1. c[1] = "$" /\ \A j \in 2 .. Len(c) - 1 : c[j] \in Letters \union Digits
    BY <1>6 DEF Tagged
  <2>2. SUFFICES ASSUME k # Len(c) PROVE FALSE
    OBVIOUS
  <2>3. k \in 2 .. Len(c) - 1
    BY <1>1, <1>4, <2>2
  <2>4. QED
    BY <1>5, <2>1, <2>3, SignsDiffer
<1>8. QED
  BY <1>1, <1>3, <1>6, <1>7

\* What begins before a sign that no tag has ends before the text does, when that
\* sign is in it.
LEMMA NotOverSign ==
  ASSUME NEW S, NEW s \in Seq(S), NEW t \in Seq(S), Extends(s, t),
         NEW p \in 1 .. Len(s), s[p] \notin Letters \union Digits,
         NEW i \in 1 .. Len(s), i < p, NEW d, Pattern(d), Has(t, i, d)
  PROVE  i + Len(d) - 1 <= Len(s)
<1>1. Len(d) \in Nat \ {0} /\ Len(s) \in Nat
  BY PatternType, LenProperties
<1>2. \A k \in 1 .. Len(d) : t[i+k-1] = d[k]
  BY HasIs
<1>3. Tagged(d) \/ Len(d) <= 2
  <2>1. ASSUME NEW q, d = <<q>> PROVE Len(d) <= 2
    BY <2>1
  <2>2. ASSUME NEW x, NEW y, d = <<x, y>> PROVE Len(d) <= 2
    BY <2>2
  <2>3. QED
    BY <2>1, <2>2 DEF Pattern, Marks
<1>4. SUFFICES ASSUME i + Len(d) - 1 > Len(s) PROVE FALSE
  BY <1>1
<1>5. PICK k : k = p - i + 1
  OBVIOUS
<1>6. k \in 2 .. Len(d) - 1 /\ k \in 1 .. Len(d) /\ i + k - 1 = p /\ ~(Len(d) <= 2)
  BY <1>1, <1>4, <1>5
<1>7. Tagged(d) /\ t[p] = d[k]
  BY <1>2, <1>3, <1>6
<1>8. t[p] = s[p]
  BY DEF Extends
<1>9. QED
  BY <1>6, <1>7, <1>8 DEF Tagged

-----------------------------------------------------------------------------
(* The scan of the completed text                                          *)

\* The scan after the text and i - Len(s) symbols of its closer: done with all of
\* it, or after a dollar quote that matched early, passing over the rest.
Closed(a, s, c, i) ==
  a.closer = <<>> /\ (a.at = Len(s) + Len(c) + 1 \/ (Tagged(c) /\ a.at = i + 1))

\* From where the text ends, the closer closes it, whether it matches there or
\* has matched early.
LEMMA ClosedByCloser ==
  ASSUME NEW S, NEW s \in Seq(S), NEW t \in Seq(S), NEW c \in Closers(s), c # <<>>, Pattern(c), Completed(s, c, t),
         NEW a, \/ a.closer = c /\ a.at = Len(s) + 1
                \/ Tagged(c) /\ a.closer = <<>> /\ a.at = Len(s) + 2,
         a = [closer |-> a.closer, last |-> a.last, at |-> a.at]
  PROVE  Closed(Step(t, a, Len(s) + 1), s, c, Len(s) + 1)
<1> DEFINE i == Len(s) + 1
<1>0. Len(s) \in Nat /\ Len(c) \in Nat \ {0} /\ i \in Nat \ {0} /\ Len(t) = Len(s) + Len(c) + 1
  BY PatternType DEF Completed
<1>1. CASE Tagged(c) /\ a.closer = <<>> /\ a.at = Len(s) + 2
  <2>1. i < a.at
    BY <1>0, <1>1
  <2>2. Step(t, a, i) = a
    BY <2>1 DEF Step
  <2>3. a.at = i + 1
    BY <1>0, <1>1
  <2>4. QED
    BY <1>1, <2>2, <2>3 DEF Closed
<1>2. CASE a.closer = c /\ a.at = i
  <2>1. ~(i < a.at) /\ a.closer # <<>>
    BY <1>0, <1>2
  <2>2. Step(t, a, i) = ScanInside(t, a, i)
    BY <2>1 DEF Step
  <2>3. Has(t, i, c)
    <3>1. i + Len(c) - 1 <= Len(t)
      BY <1>0
    <3>2. \A k \in 1 .. Len(c) : i + k - 1 = Len(s) + k
      BY <1>0
    <3>3. \A k \in 1 .. Len(c) : t[i+k-1] = c[k]
      BY <3>2 DEF Completed
    <3>4. QED
      BY <1>0, <3>1, <3>3, HasIs
  <2>4. ~(c = <<t[i]>> /\ t[i] \in Quotes /\ Has(t, i + 1, c))
    <3>1. SUFFICES ASSUME c = <<t[i]>>, Has(t, i + 1, c) PROVE FALSE
      OBVIOUS
    <3>2. Len(c) = 1
      BY <3>1
    <3>3. t[i+1] = Semicolon /\ i + 1 \in Nat \ {0} /\ i + 1 \in Nat /\ i + 1 <= i + 1
      <4>1. Len(s) + Len(c) + 1 = i + 1
        BY <1>0, <3>2
      <4>2. QED
        BY <1>0, <4>1 DEF Completed
    <3>4. (i + 1) + Len(c) - 1 < i + 1
      BY <3>1, <3>3, NotOverSemicolon
    <3>5. QED
      BY <1>0, <3>2, <3>4
  <2>5. Step(t, a, i) = Inside(a, <<>>, Len(c), i)
    BY <1>2, <2>2, <2>3, <2>4 DEF ScanInside
  <2>6. Step(t, a, i) = [closer |-> <<>>, last |-> a.last, at |-> i + Len(c)]
    BY <2>5 DEF Inside
  <2>7. i + Len(c) = Len(s) + Len(c) + 1
    BY <1>0
  <2>8. QED
    BY <2>6, <2>7 DEF Closed
<1>3. QED
  BY <1>1, <1>2

\* The rest of a dollar quote that matched early begins nothing.
LEMMA ClosedStep ==
  ASSUME NEW S, NEW s \in Seq(S), NEW t \in Seq(S), NEW c, Pattern(c), Completed(s, c, t),
         NEW i \in Len(s) + 2 .. Len(s) + Len(c), NEW a, Closed(a, s, c, i - 1),
         a = [closer |-> a.closer, last |-> a.last, at |-> a.at]
  PROVE  Closed(Step(t, a, i), s, c, i)
<1>0. Len(s) \in Nat /\ Len(c) \in Nat \ {0} /\ i \in Nat \ {0} /\ Len(t) = Len(s) + Len(c) + 1 /\ i \in 1 .. Len(t)
  BY PatternType DEF Completed
<1>1. CASE a.at = Len(s) + Len(c) + 1
  <2>1. i < a.at
    BY <1>0, <1>1
  <2>2. QED
    BY <1>1, <2>1 DEF Closed, Step
<1>2. CASE Tagged(c) /\ a.at = i
  <2>1. ~(i < a.at) /\ a.closer = <<>>
    BY <1>0, <1>2 DEF Closed
  <2>2. Step(t, a, i) = ScanTop(t, a, i)
    BY <2>1 DEF Step
  <2>3. PICK k : k = i - Len(s)
    OBVIOUS
  <2>4. k \in 2 .. Len(c) /\ k \in 1 .. Len(c) /\ Len(s) + k = i
    BY <1>0, <2>3, SMTT(30)
  <2>5. t[i] = c[k]
    BY <2>4 DEF Completed
  <2>6. t[i] \in Word
    <3>1. k \in 2 .. Len(c) - 1 \/ k = Len(c)
      BY <1>0, <2>4
    <3>2. QED
      BY <1>2, <2>5, <3>1 DEF Tagged, Word
  <2>7. t[i] \notin {"-", "/"} /\ t[i] \notin Quotes
    BY <2>6, SignsDiffer
  <2>8. ASSUME NEW d \in DollarsAt(t, i) PROVE FALSE
    <3>1. Tagged(d) /\ Has(t, i, d) /\ Pattern(d)
      BY <1>0, DollarIs DEF Pattern
    <3>2. t[i] = "$" /\ Len(d) \in Nat /\ Len(d) >= 2
      BY <1>0, <3>1, HasFirst DEF Tagged
    <3>3. k = Len(c)
      <4>1. SUFFICES ASSUME k # Len(c) PROVE FALSE
        OBVIOUS
      <4>2. k \in 2 .. Len(c) - 1
        BY <1>0, <2>4, <4>1
      <4>3. QED
        BY <1>2, <2>5, <3>2, <4>2, SignsDiffer DEF Tagged
    <3>4. t[i+1] = Semicolon /\ i + 1 \in Nat /\ i <= i + 1
      <4>1. Len(s) + Len(c) + 1 = i + 1
        BY <1>0, <2>4, <3>3
      <4>2. QED
        BY <1>0, <4>1 DEF Completed
    <3>5. i + Len(d) - 1 < i + 1
      BY <1>0, <3>1, <3>4, NotOverSemicolon
    <3>6. QED
      BY <1>0, <3>2, <3>5
  <2>9. ~Has(t, i, <<"-", "-">>) /\ ~Has(t, i, <<"/", "*">>)
    BY <1>0, <2>7, Pairs
  <2>10. ScanTop(t, a, i) = [a EXCEPT !.at = i + 1] \/ ScanTop(t, a, i) = [a EXCEPT !.at = i + 1, !.last = t[i]]
    BY <1>0, <2>7, <2>8, <2>9, TopCases
  <2>11. Step(t, a, i).closer = <<>> /\ Step(t, a, i).at = i + 1
    <3>1. CASE ScanTop(t, a, i) = [a EXCEPT !.at = i + 1]
      BY <2>1, <2>2, <3>1
    <3>2. CASE ScanTop(t, a, i) = [a EXCEPT !.at = i + 1, !.last = t[i]]
      BY <2>1, <2>2, <3>2
    <3>3. QED
      BY <2>10, <3>1, <3>2
  <2>12. QED
    BY <1>2, <2>11 DEF Closed
<1>3. QED
  BY <1>0, <1>1, <1>2 DEF Closed

\* A scan that is inside of c goes on alike in the longer text, or closes early.
\* a is where both are, b what the shorter makes of the next position.
LEMMA OverrunStep ==
  ASSUME NEW S, NEW s \in Seq(S), NEW t \in Seq(S), NEW c \in Closers(s), c # <<>>, Pattern(c), Completed(s, c, t),
         NEW i \in 1 .. Len(s), NEW a, a.closer = c, Step(s, a, i).closer = c, Extends(s, t),
         a = [closer |-> a.closer, last |-> a.last, at |-> a.at]
  PROVE  \/ Step(t, a, i) = Step(s, a, i)
         \/ /\ Tagged(c)
            /\ Step(t, a, i) = [closer |-> <<>>, last |-> a.last, at |-> Len(s) + 2]
<1>0. Len(s) \in Nat /\ i \in Nat \ {0} /\ Len(c) \in Nat \ {0} /\ s[i] = t[i]
  BY PatternType, LenProperties DEF Extends
<1>1. CASE i < a.at
  BY <1>1 DEF Step
<1>2. CASE ~(i < a.at)
  <2>1. Step(s, a, i) = ScanInside(s, a, i) /\ Step(t, a, i) = ScanInside(t, a, i)
    BY <1>2 DEF Step
  <2>2. CASE c = <<s[i]>> /\ Doubled(s, i)
    <3>1. Doubled(t, i)
      <4>1. i + 1 \in Nat \ {0} /\ c = <<s[i]>>
        BY <1>0, <2>2
      <4>2. Has(t, i + 1, c)
        BY <2>2, <4>1, HasWithin DEF Doubled
      <4>3. QED
        BY <1>0, <2>2, <4>2 DEF Doubled
    <3>2. QED
      BY <1>0, <2>1, <2>2, <3>1 DEF ScanInside, Doubled
  <2>3. CASE ~(c = <<s[i]>> /\ Doubled(s, i))
    <3>1. ~(c = <<s[i]>> /\ s[i] \in Quotes /\ Has(s, i + 1, c))
      BY <2>3 DEF Doubled
    <3>2. ~Has(s, i, c)
      <4>1. SUFFICES ASSUME Has(s, i, c) PROVE FALSE
        OBVIOUS
      <4>2. Step(s, a, i) = Inside(a, <<>>, Len(c), i)
        BY <2>1, <3>1, <4>1 DEF ScanInside
      <4>3. Step(s, a, i) = [closer |-> <<>>, last |-> a.last, at |-> i + Len(c)]
        BY <4>2 DEF Inside
      <4>4. QED
        BY <4>3
    <3>3. ~(c = <<t[i]>> /\ t[i] \in Quotes /\ Has(t, i + 1, c))
      <4>1. SUFFICES ASSUME c = <<t[i]>> PROVE FALSE
        OBVIOUS
      <4>2. Len(c) = 1 /\ c[1] = s[i] /\ i + Len(c) - 1 <= Len(s)
        BY <1>0, <4>1
      <4>3. \A k \in 1 .. Len(c) : s[i+k-1] = c[k]
        BY <1>0, <4>2
      <4>4. QED
        BY <1>0, <3>2, <4>2, <4>3, HasIs
    <3>4. Step(s, a, i) = [a EXCEPT !.at = i + 1]
      BY <2>1, <3>1, <3>2 DEF ScanInside
    <3>5. CASE Has(t, i, c)
      <4>1. i + Len(c) - 1 > Len(s)
        <5>1. ~(i + Len(c) - 1 <= Len(s))
          BY <1>0, <3>2, <3>5, HasWithin
        <5>2. QED
          BY <1>0, <5>1
      <4>2. Tagged(c) /\ i + Len(c) = Len(s) + 2
        BY <3>5, <4>1, Overlap
      <4>3. Step(t, a, i) = Inside(a, <<>>, Len(c), i)
        BY <2>1, <3>3, <3>5 DEF ScanInside
      <4>4. Step(t, a, i) = [closer |-> <<>>, last |-> a.last, at |-> i + Len(c)]
        BY <4>3 DEF Inside
      <4>5. QED
        BY <4>2, <4>4
    <3>6. CASE ~Has(t, i, c)
      <4>1. Step(t, a, i) = [a EXCEPT !.at = i + 1]
        BY <2>1, <3>3, <3>6 DEF ScanInside
      <4>2. QED
        BY <3>4, <4>1
    <3>7. QED
      BY <3>5, <3>6
  <2>4. QED
    BY <2>2, <2>3
<1>3. QED
  BY <1>1, <1>2

\* Where something is left open in the end, the longer text opens it too.
LEMMA OpenedAlike ==
  ASSUME NEW S, NEW s \in Seq(S), NEW t \in Seq(S), Extends(s, t),
         NEW p \in 1 .. Len(s), NEW a, a = [closer |-> a.closer, last |-> a.last, at |-> a.at], a.closer = <<>>,
         ScanTop(s, a, p).closer # <<>>
  PROVE  ScanTop(t, a, p) = ScanTop(s, a, p)
<1>0. Len(s) \in Nat /\ p \in Nat \ {0} /\ p \in 1 .. Len(t) /\ s[p] = t[p] /\ Len(t) \in Nat
  BY LenProperties DEF Extends
<1>1. \/ Has(s, p, <<"-", "-">>)
      \/ Has(s, p, <<"/", "*">>)
      \/ DollarsAt(s, p) # {}
      \/ s[p] \in Quotes
  <2>1. CASE ScanTop(s, a, p) = [a EXCEPT !.at = p + 1]
    BY <2>1
  <2>2. CASE ScanTop(s, a, p) = [a EXCEPT !.at = p + 1, !.last = s[p]]
    <3>1. ScanTop(s, a, p) = [closer |-> <<>>, last |-> s[p], at |-> p + 1]
      BY <2>2
    <3>2. QED
      BY <3>1
  <2>3. QED
    BY <2>1, <2>2, TopCases
<1>2. \/ s[p] = "-" /\ p + 1 <= Len(s)
      \/ s[p] = "/" /\ p + 1 <= Len(s)
      \/ s[p] = "$" /\ DollarsAt(s, p) # {}
      \/ s[p] \in Quotes
  <2>1. DollarsAt(s, p) # {} => s[p] = "$"
    BY <1>0, DollarIs, HasFirst DEF Tagged, Pattern
  <2>2. QED
    BY <1>0, <1>1, <2>1, Pairs
<1>3. ASSUME NEW d, Pattern(d), Has(t, p, d) PROVE p + Len(d) - 1 <= Len(s)
  <2>1. t[p] = d[1] /\ Len(d) \in Nat \ {0}
    BY <1>0, <1>3, HasFirst, PatternType
  <2>2. ASSUME NEW q, d = <<q>> PROVE p + Len(d) - 1 <= Len(s)
    BY <1>0, <2>2
  <2>3. ASSUME NEW x, NEW y, d = <<x, y>>, x \in {"-", "/", "*"} PROVE p + Len(d) - 1 <= Len(s)
    <3>1. Len(d) = 2 /\ s[p] \in {"-", "/", "*"}
      BY <1>0, <2>1, <2>3
    <3>2. s[p] # "*" => s[p] \in {"-", "/"}
      BY <3>1
    <3>3. s[p] \notin Quotes /\ s[p] # "$"
      BY <3>1, SignsDiffer
    <3>4. p + 1 <= Len(s)
      BY <1>2, <3>3
    <3>5. QED
      BY <1>0, <3>1, <3>4
  <2>4. ASSUME Tagged(d) PROVE p + Len(d) - 1 <= Len(s)
    <3>1. s[p] = "$" /\ s[p] \notin Quotes
      BY <1>0, <2>1, <2>4, SignsDiffer DEF Tagged
    <3>2. PICK e : e \in DollarsAt(s, p)
      BY <1>2, <3>1
    <3>3. Tagged(e) /\ Has(s, p, e) /\ Pattern(e)
      BY <3>2, DollarIs DEF Pattern
    <3>4. Has(t, p, e) /\ p + Len(e) - 1 <= Len(s)
      BY <1>0, <3>3, HasWithin
    <3>5. e \in DollarsAt(t, p) /\ d \in DollarsAt(t, p)
      BY <1>0, <1>3, <2>4, <3>3, <3>4, DollarIs
    <3>6. d = e
      BY <1>0, <3>5, OneDollar
    <3>7. QED
      BY <3>4, <3>6
  <2>5. QED
    BY <1>3, <2>2, <2>3, <2>4 DEF Pattern, Marks
<1>4. Alike(s, t, p)
  BY <1>3, WithinAlike
<1>5. QED
  BY <1>0, <1>4, TopAlike

\* What is open in the end was opened somewhere, and has stayed open.
LEMMA OpenedAt ==
  ASSUME NEW S, NEW s \in Seq(S), NEW f, IsScan(f, s, Len(s)), f[Len(s)].closer # <<>>
  PROVE  \E p \in 1 .. Len(s) :
           /\ f[p-1].closer = <<>> /\ f[p] = ScanTop(s, f[p-1], p)
           /\ \A j \in p .. Len(s) : f[j].closer = f[Len(s)].closer
<1> DEFINE n == Len(s)
           c == f[n].closer
           since == {p \in 1 .. n : \A j \in p .. n : f[j].closer = c}
<1>0. n \in Nat
  BY LenProperties
<1>1. f[0].closer = <<>>
  BY DEF IsScan, Begin
<1>2. n \in since
  <2>1. n # 0
    BY <1>1
  <2>2. n \in 1 .. n /\ \A j \in n .. n : j = n
    BY <1>0, <2>1
  <2>3. QED
    BY <2>2
<1>3. PICK p \in since : \A k \in since : p <= k
  <2>1. since \subseteq Nat /\ since # {}
    BY <1>2
  <2> HIDE DEF since
  <2>2. QED
    BY <2>1, MinIsLeast
<1>4. p \in 1 .. n /\ p - 1 \in 0 .. n /\ (p - 1) + 1 = p
  BY <1>0, <1>3
<1>5. f[p-1].closer # c
  <2>1. SUFFICES ASSUME f[p-1].closer = c PROVE FALSE
    OBVIOUS
  <2>2. p - 1 # 0
    BY <1>1, <2>1
  <2>3. p - 1 \in 1 .. n /\ ~(p <= p - 1)
    BY <1>0, <1>4, <2>2
  <2>4. \A j \in p - 1 .. n : j = p - 1 \/ j \in p .. n
    BY <1>0, <1>4
  <2>5. \A j \in p - 1 .. n : f[j].closer = c
    BY <1>3, <2>1, <2>4
  <2>6. p - 1 \in since
    BY <2>3, <2>5
  <2>7. QED
    BY <1>3, <2>3, <2>6
<1>6. f[p].closer = c /\ f[p] = Step(s, f[p-1], p)
  <2>1. p \in p .. n
    BY <1>0, <1>4
  <2>2. QED
    BY <1>3, <1>4, <2>1 DEF IsScan
<1>7. PICK a : a = f[p-1]
  OBVIOUS
<1>8. a = [closer |-> a.closer, last |-> a.last, at |-> a.at]
  BY <1>4, <1>7, ScanFine DEF Fine
<1>9. ~(p < a.at)
  BY <1>5, <1>6, <1>7 DEF Step
<1>10. a.closer = <<>>
  <2>1. SUFFICES ASSUME a.closer # <<>> PROVE FALSE
    OBVIOUS
  <2>2. f[p] = ScanInside(s, a, p)
    BY <1>6, <1>7, <1>9, <2>1 DEF Step
  <2>3. \/ f[p] = [a EXCEPT !.at = p + 2]
        \/ f[p] = Inside(a, <<>>, Len(a.closer), p)
        \/ f[p] = [a EXCEPT !.at = p + 1]
    BY <2>2 DEF ScanInside
  <2>4. CASE f[p] = [a EXCEPT !.at = p + 2]
    BY <1>5, <1>6, <1>7, <1>8, <2>4
  <2>5. CASE f[p] = [a EXCEPT !.at = p + 1]
    BY <1>5, <1>6, <1>7, <1>8, <2>5
  <2>6. CASE f[p] = Inside(a, <<>>, Len(a.closer), p)
    <3>1. f[p] = [closer |-> <<>>, last |-> a.last, at |-> p + Len(a.closer)]
      BY <1>8, <2>6 DEF Inside
    <3>2. QED
      BY <1>6, <3>1
  <2>7. QED
    BY <2>3, <2>4, <2>5, <2>6
<1>11. f[p] = ScanTop(s, a, p)
  BY <1>6, <1>7, <1>9, <1>10 DEF Step
<1>12. QED
  BY <1>3, <1>4, <1>7, <1>10, <1>11

\* From where it was opened to the end of the text, the two scans are alike but
\* for an early match.
LEMMA InsideAlike ==
  ASSUME NEW S, NEW s \in Seq(S), NEW t \in Seq(S), NEW f, NEW g, IsScan(f, s, Len(s)), IsScan(g, t, Len(t)),
         NEW c \in Closers(s), c # <<>>, Pattern(c), Completed(s, c, t), Extends(s, t), f[Len(s)].closer = c
  PROVE  \/ g[Len(s)].closer = c /\ g[Len(s)].at = Len(s) + 1
         \/ Tagged(c) /\ g[Len(s)].closer = <<>> /\ g[Len(s)].at = Len(s) + 2
<1> DEFINE n == Len(s)
           early(a) == Tagged(c) /\ a.closer = <<>> /\ a.at = n + 2
           T == {i \in Nat : g[i] = f[i] \/ early(g[i])}
<1>0. n \in Nat /\ Len(t) \in Nat /\ n <= Len(t)
  BY LenProperties DEF Extends
<1>1. PICK p \in 1 .. n : /\ f[p-1].closer = <<>> /\ f[p] = ScanTop(s, f[p-1], p)
                          /\ \A j \in p .. n : f[j].closer = c
  BY OpenedAt
<1>2. PICK q : q = p - 1
  OBVIOUS
<1>3. q \in 0 .. n /\ q + 1 = p /\ p \in p .. n /\ q <= Len(t) /\ p \in 1 .. Len(t) /\ p \in Nat
  BY <1>0, <1>2
<1>4. PICK a : a = f[q]
  OBVIOUS
<1>5. a = [closer |-> a.closer, last |-> a.last, at |-> a.at] /\ a.closer = <<>> /\ a.at \in Nat /\ a.at <= q + 1
  <2>1. Fine(a, s, q)
    BY <1>3, <1>4, ScanFine
  <2>2. a = [closer |-> a.closer, last |-> a.last, at |-> a.at] /\ a.closer = <<>>
    BY <1>1, <1>2, <1>4, <2>1 DEF Fine
  <2>3. ~(p < a.at)
    <3>1. SUFFICES ASSUME p < a.at PROVE FALSE
      OBVIOUS
    <3>2. f[p] = a
      BY <1>1, <1>2, <1>3, <1>4, <3>1 DEF IsScan, Step
    <3>3. QED
      BY <1>1, <1>3, <2>2, <3>2
  <2>4. a.at \in Nat
    BY <1>0, <1>3, <2>1 DEF Fine
  <2>5. QED
    BY <1>3, <2>2, <2>3, <2>4
<1>6. s[p] \notin Letters \union Digits
  <2>1. ScanTop(s, a, p).closer # <<>>
    BY <1>1, <1>2, <1>3, <1>4
  <2>2. QED
    BY <1>5, <2>1, Opening
<1>7. g[q] = f[q]
  <2>1. ASSUME NEW i \in 1 .. q PROVE Alike(s, t, i) /\ (Doubled(s, i) <=> Doubled(t, i))
    <3>1. i \in 1 .. n /\ i < p /\ i + 1 <= n
      BY <1>0, <1>3
    <3>2. \A d : Pattern(d) /\ Has(t, i, d) => i + Len(d) - 1 <= n
      BY <1>6, <3>1, NotOverSign
    <3>3. QED
      BY <3>1, <3>2, WithinAlike, WithinDoubled
  <2>2. QED
    BY <1>3, <2>1, ScanAlike
<1>8. p \in T
  <2>1. ScanTop(t, a, p) = ScanTop(s, a, p)
    <3>1. ScanTop(s, a, p).closer # <<>>
      BY <1>1, <1>2, <1>3, <1>4
    <3>2. QED
      BY <1>5, <3>1, OpenedAlike
  <2>2. g[p] = Step(t, a, p)
    BY <1>2, <1>3, <1>4, <1>7 DEF IsScan
  <2>3. ~(p < a.at)
    BY <1>3, <1>5
  <2>4. g[p] = f[p]
    BY <1>1, <1>2, <1>4, <1>5, <2>1, <2>2, <2>3 DEF Step
  <2>5. QED
    BY <1>3, <2>4
<1>9. ASSUME NEW k \in p .. n - 1, k \in T PROVE k + 1 \in T
  <2>1. PICK i : i = k + 1
    OBVIOUS
  <2>2. i \in 1 .. n /\ i \in 1 .. Len(t) /\ i - 1 = k /\ k \in 0 .. n /\ k \in p .. n /\ i \in p .. n /\ i \in Nat
    BY <1>0, <2>1
  <2>3. f[i] = Step(s, f[k], i) /\ g[i] = Step(t, g[k], i)
    BY <2>2 DEF IsScan
  <2>4. CASE g[k] = f[k]
    <3>1. PICK b : b = f[k]
      OBVIOUS
    <3>2. b = [closer |-> b.closer, last |-> b.last, at |-> b.at]
      BY <2>2, <3>1, ScanFine DEF Fine
    <3>3. b.closer = c /\ Step(s, b, i).closer = c
      BY <1>1, <2>2, <2>3, <3>1
    <3>4. \/ Step(t, b, i) = Step(s, b, i)
          \/ Tagged(c) /\ Step(t, b, i) = [closer |-> <<>>, last |-> b.last, at |-> n + 2]
      BY <2>2, <3>2, <3>3, OverrunStep
    <3>5. g[i] = f[i] \/ early(g[i])
      BY <2>3, <2>4, <3>1, <3>4
    <3>6. QED
      BY <2>1, <2>2, <3>5
  <2>5. CASE early(g[k])
    <3>1. i < g[k].at
      BY <1>0, <2>2, <2>5
    <3>2. g[i] = g[k]
      BY <2>3, <3>1 DEF Step
    <3>3. QED
      BY <2>1, <2>2, <2>5, <3>2
  <2>6. QED
    BY <1>9, <2>4, <2>5
<1>10. n \in T
  <2>1. p \in Nat /\ n \in Nat /\ n \in p .. n
    BY <1>0
  <2>2. \A k \in p .. n - 1 : k \in T => k + 1 \in T
    BY <1>9
  <2> HIDE DEF T
  <2>3. \A k \in p .. n : k \in T
    BY <1>8, <2>1, <2>2, FromTo
  <2>4. QED
    BY <2>1, <2>3
<1>11. f[n].at = n + 1
  <2>1. f[n].at \in n + 1 .. n + 1
    <3>1. n \in 0 .. n
      BY <1>0
    <3>2. Fine(f[n], s, n)
      BY <3>1, ScanFine
    <3>3. QED
      BY <3>2 DEF Fine
  <2>2. QED
    BY <1>0, <2>1
<1>12. QED
  BY <1>10, <1>11

-----------------------------------------------------------------------------
(* The theorem                                                             *)

\* A text with nothing open is completed by the semicolon.
LEMMA CompletedAtTop ==
  ASSUME NEW S, NEW s \in Seq(S), NEW t \in Seq(S), NEW f, IsScan(f, s, Len(s)), f[Len(s)].closer = <<>>,
         Completed(s, <<>>, t)
  PROVE  IsCompleteStatement(t)
<1> DEFINE n == Len(s)
<1>0. n \in Nat /\ Len(t) \in Nat \ {0} /\ Len(t) = n + 1 /\ t[Len(t)] = Semicolon /\ Extends(s, t) /\ n \in 0 .. n /\ n <= Len(t)
  <2>1. PICK c : c = <<>>
    OBVIOUS
  <2>2. Len(c) = 0 /\ Completed(s, c, t)
    BY <2>1
  <2>3. n \in Nat /\ n + 0 + 1 = n + 1 /\ n <= n + 1 /\ n + 1 \in Nat \ {0} /\ n \in 0 .. n
    BY LenProperties
  <2>4. QED
    BY <2>2, <2>3 DEF Completed, Extends
<1>1. PICK g : IsScan(g, t, Len(t)) /\ Scan(t) = g[Len(t)]
  BY <1>0, ScanRuns
<1>2. ASSUME NEW i \in 1 .. n PROVE Alike(s, t, i) /\ (Doubled(s, i) <=> Doubled(t, i))
  <2>1. i \in Nat \ {0} /\ n + 1 \in Nat /\ i <= n + 1 /\ t[n+1] = Semicolon /\ s[i] = t[i]
    BY <1>0 DEF Extends
  <2>2. ASSUME NEW d, Pattern(d), Has(t, i, d) PROVE i + Len(d) - 1 <= n
    <3>1. i + Len(d) - 1 < n + 1
      BY <2>1, <2>2, NotOverSemicolon
    <3>2. QED
      BY <1>0, <2>2, <3>1, PatternType
  <2>3. ASSUME Doubled(t, i) PROVE i + 1 <= n
    <3>1. PICK d : d = <<t[i]>>
      OBVIOUS
    <3>2. Pattern(d) /\ Len(d) = 1 /\ Has(t, i + 1, d)
      BY <2>3, <3>1 DEF Doubled, Pattern, Marks
    <3>3. i + 1 \in Nat \ {0} /\ i + 1 <= n + 1
      BY <1>0
    <3>4. (i + 1) + Len(d) - 1 < n + 1
      BY <2>1, <3>2, <3>3, NotOverSemicolon
    <3>5. QED
      BY <1>0, <3>2, <3>4
  <2>4. QED
    BY <1>0, <2>2, <2>3, WithinAlike, WithinDoubled
<1>3. g[n] = f[n]
  BY <1>0, <1>1, <1>2, ScanAlike
<1>4. f[n].at = n + 1
  <2>1. Fine(f[n], s, n)
    BY <1>0, ScanFine
  <2>2. f[n].at \in n + 1 .. n + 1
    BY <2>1 DEF Fine
  <2>3. QED
    BY <1>0, <2>2
<1>5. Len(t) - 1 = n
  BY <1>0
<1>6. g[Len(t)-1].closer = <<>> /\ g[Len(t)-1].at = Len(t)
  BY <1>0, <1>3, <1>4, <1>5
<1>7. QED
  BY <1>0, <1>1, <1>6, LastSemicolon

\* A text with something open is completed by what closes it, and the semicolon.
LEMMA CompletedInside ==
  ASSUME NEW S, NEW s \in Seq(S), NEW t \in Seq(S), NEW f, IsScan(f, s, Len(s)),
         NEW c \in Closers(s), c # <<>>, Pattern(c), f[Len(s)].closer = c, Completed(s, c, t)
  PROVE  IsCompleteStatement(t)
<1> DEFINE n == Len(s)
           m == Len(s) + Len(c)
<1>0. /\ n \in Nat /\ Len(c) \in Nat \ {0} /\ m \in Nat /\ n + 1 \in Nat /\ Len(t) = m + 1 /\ m + 1 \in Nat \ {0}
      /\ t[Len(t)] = Semicolon /\ Extends(s, t)
  <2>1. n \in Nat /\ Len(c) \in Nat \ {0} /\ m \in Nat /\ n + 1 \in Nat /\ n <= m + 1 /\ m + 1 \in Nat \ {0}
    BY LenProperties, PatternType
  <2>2. QED
    BY <2>1 DEF Completed, Extends
<1>1. PICK g : IsScan(g, t, Len(t)) /\ Scan(t) = g[Len(t)]
  BY <1>0, ScanRuns
<1>2. \/ g[n].closer = c /\ g[n].at = n + 1
      \/ Tagged(c) /\ g[n].closer = <<>> /\ g[n].at = n + 2
  BY <1>0, <1>1, InsideAlike
<1>3. ASSUME NEW i \in 1 .. m + 1
      PROVE  /\ g[i] = Step(t, g[i-1], i)
             /\ g[i-1] = [closer |-> g[i-1].closer, last |-> g[i-1].last, at |-> g[i-1].at]
  <2>1. i - 1 \in 0 .. Len(t) /\ i \in 1 .. Len(t)
    BY <1>0
  <2>2. Fine(g[i-1], t, i - 1)
    BY <1>1, <2>1, ScanFine
  <2>3. QED
    BY <1>1, <2>1, <2>2 DEF IsScan, Fine
<1> DEFINE T == {i \in Nat : Closed(g[i], s, c, i)}
<1>4. n + 1 \in T
  <2>1. n + 1 \in 1 .. m + 1 /\ (n + 1) - 1 = n
    BY <1>0
  <2>2. PICK a : a = g[n]
    OBVIOUS
  <2>3. a = [closer |-> a.closer, last |-> a.last, at |-> a.at] /\ g[n+1] = Step(t, a, n + 1)
    BY <1>3, <2>1, <2>2
  <2>4. Closed(Step(t, a, n + 1), s, c, n + 1)
    BY <1>2, <2>2, <2>3, ClosedByCloser
  <2>5. QED
    BY <1>0, <2>3, <2>4
<1>5. ASSUME NEW k \in n + 1 .. m - 1, k \in T PROVE k + 1 \in T
  <2>1. PICK i : i = k + 1
    OBVIOUS
  <2>2. i \in 1 .. m + 1 /\ i - 1 = k /\ i \in n + 2 .. m /\ i \in Nat
    BY <1>0, <2>1
  <2>3. PICK a : a = g[k]
    OBVIOUS
  <2>4. a = [closer |-> a.closer, last |-> a.last, at |-> a.at] /\ g[i] = Step(t, a, i)
    BY <1>3, <2>2, <2>3
  <2>5. Closed(a, s, c, i - 1)
    BY <1>5, <2>2, <2>3
  <2>6. Closed(Step(t, a, i), s, c, i)
    BY <2>2, <2>4, <2>5, ClosedStep
  <2>7. QED
    BY <2>1, <2>2, <2>4, <2>6
<1>6. m \in T
  <2>1. m \in n + 1 .. m
    BY <1>0
  <2>2. \A k \in n + 1 .. m - 1 : k \in T => k + 1 \in T
    BY <1>5
  <2> HIDE DEF T
  <2>3. \A k \in n + 1 .. m : k \in T
    BY <1>0, <1>4, <2>2, FromTo
  <2>4. QED
    BY <2>1, <2>3
<1>7. Len(t) - 1 = m
  BY <1>0
<1>8. g[Len(t)-1].closer = <<>> /\ g[Len(t)-1].at = Len(t)
  BY <1>0, <1>6, <1>7 DEF Closed
<1>9. QED
  BY <1>0, <1>1, <1>8, LastSemicolon

\* So whatever the text, one of its closers and a semicolon complete it.
LEMMA AlwaysCompleted ==
  ASSUME NEW S, NEW s \in Seq(S)
  PROVE  \E c \in Closers(s) : IsCompleteStatement(s \o c \o <<Semicolon>>)
<1>0. Len(s) \in Nat
  BY LenProperties
<1>1. PICK f : IsScan(f, s, Len(s)) /\ Scan(s) = f[Len(s)]
  BY <1>0, ScanRuns
<1>2. Fine(f[Len(s)], s, Len(s))
  <2>1. Len(s) \in 0 .. Len(s)
    BY <1>0
  <2>2. QED
    BY <1>1, <2>1, ScanFine
<1>3. PICK c : c = f[Len(s)].closer
  OBVIOUS
<1>4. c \in Closers(s) /\ (c # <<>> => Pattern(c))
  <2>1. <<>> \in Closers(s)
    BY DEF Closers
  <2>2. QED
    BY <1>2, <1>3, <2>1 DEF Fine
<1>5. c \in Seq(Signs)
  <2>1. <<>> \in Seq(Signs)
    OBVIOUS
  <2>2. QED
    BY <1>4, <2>1, PatternType
<1>6. PICK R, t : t \in Seq(R) /\ s \in Seq(R) /\ t = s \o c \o <<Semicolon>> /\ Completed(s, c, t)
  BY <1>5, Concatenated
<1>7. IsCompleteStatement(t)
  <2>1. CASE c = <<>>
    BY <1>1, <1>3, <1>6, <2>1, CompletedAtTop
  <2>2. CASE c # <<>>
    BY <1>1, <1>3, <1>4, <1>6, <2>2, CompletedInside
  <2>3. QED
    BY <2>1, <2>2
<1>8. QED
  BY <1>4, <1>6, <1>7

-----------------------------------------------------------------------------
(* PostgreSQL's lexemes                                                    *)

\* What is made of a comment at j, from what is made of the rest.
Nest(h, s, j) ==
  [depth \in Nat |->
     IF depth = 0 THEN j
     ELSE IF j > Len(s) THEN Open(s)
     ELSE IF Has(s, j, <<"/", "*">>) THEN h[j + 2][depth + 1]
     ELSE IF Has(s, j, <<"*", "/">>) THEN h[j + 2][depth - 1]
     ELSE h[j + 1][depth]]

\* The end of a comment is defined by the ends of what follows in it.
LEMMA CommentRuns ==
  ASSUME NEW s, Len(s) \in Nat, NEW i
  PROVE  \E h : /\ CommentEnd(s, i) = h[i + 2][1]
                /\ \A j \in 1 .. Len(s) + 2 : h[j] = Nest(h, s, j)
<1> DEFINE n == Len(s)
           Runs(h, m) == h = [j \in 1 .. n + 2 |-> h[j]] /\ \A j \in 1 .. n + 2 : j >= m => h[j] = Nest(h, s, j)
           T == {k \in Nat : \E h : Runs(h, n + 2 - k)}
<1>1. 0 \in T
  <2>1. PICK h : h = [j \in 1 .. n + 2 |-> [depth \in Nat |-> IF depth = 0 THEN j ELSE Open(s)]]
    OBVIOUS
  <2>2. h[n+2] = [depth \in Nat |-> IF depth = 0 THEN n + 2 ELSE Open(s)]
    BY <2>1
  <2>3. Nest(h, s, n + 2) = [depth \in Nat |-> IF depth = 0 THEN n + 2 ELSE Open(s)]
    <3>1. n + 2 > n
      OBVIOUS
    <3>2. QED
      BY <3>1 DEF Nest
  <2>4. ASSUME NEW j \in 1 .. n + 2, j >= n + 2 - 0 PROVE h[j] = Nest(h, s, j)
    <3>1. j = n + 2
      BY <2>4
    <3>2. QED
      BY <2>2, <2>3, <3>1
  <2>5. h = [j \in 1 .. n + 2 |-> h[j]]
    BY <2>1
  <2>6. Runs(h, n + 2 - 0)
    BY <2>4, <2>5
  <2>7. QED
    BY <2>6
<1>2. ASSUME NEW k \in 0 .. n, k \in T PROVE k + 1 \in T
  <2>1. PICK h : Runs(h, n + 2 - k)
    BY <1>2
  <2>2. PICK m : m = n + 1 - k
    OBVIOUS
  <2>3. m \in 1 .. n + 2 /\ n + 2 - k = m + 1 /\ n + 2 - (k + 1) = m /\ k + 1 \in Nat
    BY <2>2
  <2>4. PICK g : g = [j \in 1 .. n + 2 |-> IF j = m THEN Nest(h, s, m) ELSE h[j]]
    OBVIOUS
  <2>5. ASSUME NEW j \in 1 .. n + 2, j >= m PROVE g[j] = Nest(g, s, j)
    <3>1. g[j] = Nest(h, s, j)
      <4>1. j # m => j >= n + 2 - k
        BY <2>3, <2>5
      <4>2. QED
        BY <2>1, <2>4, <4>1
    <3>2. CASE j > n
      BY <3>1, <3>2 DEF Nest
    <3>3. CASE ~(j > n)
      <4>1. j + 1 \in 1 .. n + 2 /\ j + 2 \in 1 .. n + 2 /\ j + 1 # m /\ j + 2 # m
        BY <2>3, <2>5, <3>3
      <4>2. g[j+2] = h[j+2] /\ g[j+1] = h[j+1]
        BY <2>4, <4>1
      <4>3. QED
        BY <3>1, <4>2 DEF Nest
    <3>4. QED
      BY <3>2, <3>3
  <2>6. g = [j \in 1 .. n + 2 |-> g[j]]
    BY <2>4
  <2>7. Runs(g, n + 2 - (k + 1))
    BY <2>3, <2>5, <2>6
  <2>8. QED
    BY <2>3, <2>7
<1>3. PICK h : Runs(h, 1)
  <2>1. \A k \in 0 .. n + 1 : k \in T
    <3> HIDE DEF T
    <3>1. n + 1 \in Nat /\ 0 \in Nat /\ \A k \in 0 .. (n + 1) - 1 : k \in T => k + 1 \in T
      BY <1>2
    <3>2. QED
      BY <1>1, <3>1, FromTo
  <2>2. n + 1 \in 0 .. n + 1 /\ n + 2 - (n + 1) = 1
    OBVIOUS
  <2>3. n + 1 \in T
    BY <2>1, <2>2
  <2>4. QED
    BY <2>2, <2>3
<1>4. h = [j \in 1 .. n + 2 |-> Nest(h, s, j)]
  <2>1. \A j \in 1 .. n + 2 : h[j] = Nest(h, s, j)
    BY <1>3
  <2>2. QED
    BY <1>3, <2>1
<1>5. PICK e : e = CHOOSE g : g = [j \in 1 .. n + 2 |-> Nest(g, s, j)]
  OBVIOUS
<1>6. e = [j \in 1 .. n + 2 |-> Nest(e, s, j)]
  BY <1>4, <1>5
<1>7. \A j \in 1 .. n + 2 : e[j] = Nest(e, s, j)
  BY <1>6
<1>8. CommentEnd(s, i) = e[i + 2][1]
  BY <1>5 DEF CommentEnd, Nest
<1>9. QED
  BY <1>7, <1>8

\* What the text is from i on, from what it is after the lexeme at i.
LastOf(h, s, i) ==
  IF i = Len(s) + 1 THEN "blank"
  ELSE IF i = Open(s) THEN "open"
  ELSE LET after == h[LexemeEnd(s, i)]
       IN  IF after # "blank" THEN after
           ELSE IF IsSpace(s, i) THEN "blank" ELSE s[i]

\* What a text is, is defined lexeme by lexeme from its end.
LEMMA TailRuns ==
  ASSUME NEW s, Len(s) \in Nat, \A i \in 1 .. Len(s) : LexemeEnd(s, i) \in i + 1 .. Len(s) + 2
  PROVE  \E h : /\ Terminated(s) <=> h[1] = ";"
                /\ \A i \in 1 .. Len(s) + 2 : h[i] = LastOf(h, s, i)
<1> DEFINE n == Len(s)
           Runs(h, m) == h = [j \in 1 .. n + 2 |-> h[j]] /\ \A j \in 1 .. n + 2 : j >= m => h[j] = LastOf(h, s, j)
           T == {k \in Nat : \E h : Runs(h, n + 2 - k)}
<1>1. 0 \in T
  <2>1. PICK h : h = [j \in 1 .. n + 2 |-> "open"]
    OBVIOUS
  <2>2. h[n+2] = LastOf(h, s, n + 2)
    <3>1. n + 2 # n + 1 /\ n + 2 \in 1 .. n + 2
      OBVIOUS
    <3>2. QED
      BY <2>1, <3>1 DEF LastOf, Open
  <2>3. ASSUME NEW j \in 1 .. n + 2, j >= n + 2 - 0 PROVE h[j] = LastOf(h, s, j)
    <3>1. j = n + 2
      BY <2>3
    <3>2. QED
      BY <2>2, <3>1
  <2>4. h = [j \in 1 .. n + 2 |-> h[j]]
    BY <2>1
  <2>5. Runs(h, n + 2 - 0)
    BY <2>3, <2>4
  <2>6. QED
    BY <2>5
<1>2. ASSUME NEW k \in 0 .. n, k \in T PROVE k + 1 \in T
  <2>1. PICK h : Runs(h, n + 2 - k)
    BY <1>2
  <2>2. PICK m : m = n + 1 - k
    OBVIOUS
  <2>3. m \in 1 .. n + 2 /\ n + 2 - k = m + 1 /\ n + 2 - (k + 1) = m /\ k + 1 \in Nat
    BY <2>2
  <2>4. PICK g : g = [j \in 1 .. n + 2 |-> IF j = m THEN LastOf(h, s, m) ELSE h[j]]
    OBVIOUS
  <2>5. ASSUME NEW j \in 1 .. n + 2, j >= m PROVE g[j] = LastOf(g, s, j)
    <3>1. g[j] = LastOf(h, s, j)
      <4>1. j # m => j >= n + 2 - k
        BY <2>3, <2>5
      <4>2. QED
        BY <2>1, <2>4, <4>1
    <3>2. CASE j > n
      <4>1. j = n + 1 \/ (j = n + 2 /\ j # n + 1)
        BY <3>2
      <4>2. QED
        BY <3>1, <4>1 DEF LastOf, Open
    <3>3. CASE ~(j > n)
      <4>1. PICK e : e = LexemeEnd(s, j)
        OBVIOUS
      <4>2. e \in j + 1 .. n + 2
        BY <3>3, <4>1
      <4>3. e \in 1 .. n + 2 /\ e # m
        BY <2>3, <2>5, <4>2
      <4>4. g[e] = h[e]
        BY <2>4, <4>3
      <4>5. QED
        BY <3>1, <4>1, <4>4 DEF LastOf
    <3>4. QED
      BY <3>2, <3>3
  <2>6. g = [j \in 1 .. n + 2 |-> g[j]]
    BY <2>4
  <2>7. Runs(g, n + 2 - (k + 1))
    BY <2>3, <2>5, <2>6
  <2>8. QED
    BY <2>3, <2>7
<1>3. PICK h : Runs(h, 1)
  <2>1. \A k \in 0 .. n + 1 : k \in T
    <3> HIDE DEF T
    <3>1. n + 1 \in Nat /\ 0 \in Nat /\ \A k \in 0 .. (n + 1) - 1 : k \in T => k + 1 \in T
      BY <1>2
    <3>2. QED
      BY <1>1, <3>1, FromTo
  <2>2. n + 1 \in 0 .. n + 1 /\ n + 2 - (n + 1) = 1
    OBVIOUS
  <2>3. n + 1 \in T
    BY <2>1, <2>2
  <2>4. QED
    BY <2>2, <2>3
<1>4. h = [j \in 1 .. n + 2 |-> LastOf(h, s, j)]
  <2>1. \A j \in 1 .. n + 2 : h[j] = LastOf(h, s, j)
    BY <1>3
  <2>2. QED
    BY <1>3, <2>1
<1>5. PICK e : e = CHOOSE g : g = [j \in 1 .. n + 2 |-> LastOf(g, s, j)]
  OBVIOUS
<1>6. e = [j \in 1 .. n + 2 |-> LastOf(e, s, j)]
  BY <1>4, <1>5
<1>7. \A j \in 1 .. n + 2 : e[j] = LastOf(e, s, j)
  BY <1>6
<1>8. Terminated(s) <=> e[1] = ";"
  BY <1>5, Zenon DEF Terminated, LastOf
<1>9. QED
  BY <1>7, <1>8

\* Past is just past the first match, or beyond the end.
LEMMA PastIs ==
  ASSUME NEW S, NEW s \in Seq(S), NEW i \in Nat \ {0}, NEW d, Pattern(d)
  PROVE  \/ Past(s, i, d) = Len(s) + 2 /\ \A j \in i .. Len(s) : ~Has(s, j, d)
         \/ \E m \in i .. Len(s) : /\ Past(s, i, d) = m + Len(d) /\ Has(s, m, d)
                                   /\ \A j \in i .. m - 1 : ~Has(s, j, d)
<1> DEFINE found == {j \in i .. Len(s) : Has(s, j, d)}
<1>0. Len(s) \in Nat
  BY LenProperties
<1>1. CASE found = {}
  <2>1. Past(s, i, d) = Len(s) + 2
    BY <1>1 DEF Past, Open
  <2>2. QED
    BY <1>1, <2>1
<1>2. CASE found # {}
  <2>1. PICK m : m = Min(found)
    OBVIOUS
  <2>2. found \subseteq Nat
    OBVIOUS
  <2>3. m \in found /\ \A j \in found : m <= j
    <3> HIDE DEF found
    <3>1. QED
      BY <1>2, <2>1, <2>2, MinIsLeast
  <2>4. \A j \in i .. m - 1 : j \in i .. Len(s) /\ ~(m <= j)
    BY <1>0, <2>3
  <2>5. \A j \in i .. m - 1 : ~Has(s, j, d)
    BY <2>3, <2>4
  <2>6. Past(s, i, d) = m + Len(d)
    BY <1>2, <2>1 DEF Past
  <2>7. QED
    BY <2>3, <2>5, <2>6
<1>3. QED
  BY <1>1, <1>2

\* Where no comment is within a comment, one ends at the first mark that ends one.
LEMMA CommentIsPlain ==
  ASSUME NEW S, NEW s \in Seq(S), NEW i \in 1 .. Len(s), Has(s, i, <<"/", "*">>), ~Nested(s)
  PROVE  CommentEnd(s, i) = Past(s, i + 2, <<"*", "/">>)
<1> DEFINE n == Len(s)
           P == Past(s, i + 2, <<"*", "/">>)
<1>0. n \in Nat /\ i \in Nat \ {0} /\ i + 1 <= n /\ i + 2 \in Nat \ {0} /\ i + 2 \in 1 .. n + 2
  <2>1. n \in Nat /\ i \in Nat \ {0}
    BY LenProperties
  <2>2. i + 1 <= n
    BY <2>1, Pairs
  <2>3. QED
    BY <2>1, <2>2
<1>1. PICK h : CommentEnd(s, i) = h[i + 2][1] /\ \A j \in 1 .. n + 2 : h[j] = Nest(h, s, j)
  BY <1>0, CommentRuns, SMTT(30)
<1>2. ASSUME NEW j \in i + 2 .. n, P > j PROVE ~Has(s, j, <<"/", "*">>)
  <2>1. i \in DOMAIN s /\ j \in DOMAIN s /\ i < j
    BY <1>0
  <2>2. QED
    BY <1>2, <2>1 DEF Nested
<1>3. ASSUME NEW x \in i + 2 .. n + 1, \A j \in i + 2 .. x - 1 : P > j /\ ~Has(s, j, <<"*", "/">>)
      PROVE  h[i+2][1] = h[x][1]
  <2> DEFINE T == {j \in Nat : h[i+2][1] = h[j][1]}
  <2>1. i + 2 \in T
    BY <1>0
  <2>2. ASSUME NEW j \in i + 2 .. x - 1, j \in T PROVE j + 1 \in T
    <3>1. j \in i + 2 .. n /\ j \in 1 .. n + 2 /\ ~(j > n) /\ j + 1 \in Nat
      BY <1>0
    <3>2. ~Has(s, j, <<"/", "*">>) /\ ~Has(s, j, <<"*", "/">>)
      BY <1>2, <1>3, <3>1
    <3>3. h[j] = Nest(h, s, j) /\ 1 \in Nat /\ 1 # 0
      BY <1>1, <3>1
    <3>4. h[j][1] = h[j+1][1]
      BY <3>1, <3>2, <3>3 DEF Nest
    <3>5. QED
      BY <2>2, <3>1, <3>4
  <2>3. x \in T
    <3> HIDE DEF T
    <3>1. i + 2 \in Nat /\ x \in Nat /\ x \in i + 2 .. x
      BY <1>0
    <3>2. \A j \in i + 2 .. x - 1 : j \in T => j + 1 \in T
      BY <2>2
    <3>3. \A j \in i + 2 .. x : j \in T
      BY <2>1, <3>1, <3>2, FromTo
    <3>4. QED
      BY <3>1, <3>3
  <2>4. QED
    BY <2>3
<1>4. PICK c : c = <<"*", "/">>
  OBVIOUS
<1>5. Pattern(c) /\ Len(c) = 2
  BY <1>4 DEF Pattern, Marks
<1>6. CASE P = n + 2 /\ \A j \in i + 2 .. n : ~Has(s, j, c)
  <2>1. n + 1 \in i + 2 .. n + 1 /\ n + 1 \in 1 .. n + 2 /\ n + 1 > n
    BY <1>0
  <2>2. \A j \in i + 2 .. (n + 1) - 1 : P > j /\ ~Has(s, j, <<"*", "/">>)
    BY <1>0, <1>4, <1>6
  <2>3. h[i+2][1] = h[n+1][1]
    BY <1>3, <2>1, <2>2
  <2>4. h[n+1][1] = n + 2
    <3>1. h[n+1] = Nest(h, s, n + 1) /\ 1 \in Nat /\ 1 # 0
      BY <1>1, <2>1
    <3>2. QED
      BY <2>1, <3>1 DEF Nest, Open
  <2>5. QED
    BY <1>1, <1>6, <2>3, <2>4
<1>7. ASSUME NEW m \in i + 2 .. n, P = m + Len(c), Has(s, m, c), \A j \in i + 2 .. m - 1 : ~Has(s, j, c)
      PROVE  h[i+2][1] = P
  <2>1. m \in i + 2 .. n + 1 /\ m \in 1 .. n + 2 /\ m + 2 \in 1 .. n + 2 /\ ~(m > n) /\ P = m + 2 /\ P > m
    BY <1>0, <1>5, <1>7
  <2>2. \A j \in i + 2 .. m - 1 : P > j /\ ~Has(s, j, <<"*", "/">>)
    BY <1>0, <1>4, <1>7, <2>1
  <2>3. h[i+2][1] = h[m][1]
    BY <1>3, <2>1, <2>2
  <2>4. ~Has(s, m, <<"/", "*">>) /\ Has(s, m, <<"*", "/">>)
    BY <1>2, <1>4, <1>7, <2>1
  <2>5. h[m][1] = h[m+2][0]
    <3>1. h[m] = Nest(h, s, m) /\ 1 \in Nat /\ 1 # 0 /\ 1 - 1 = 0
      BY <1>1, <2>1
    <3>2. QED
      BY <2>1, <2>4, <3>1 DEF Nest
  <2>6. h[m+2][0] = m + 2
    <3>1. h[m+2] = Nest(h, s, m + 2) /\ 0 \in Nat
      BY <1>1, <2>1
    <3>2. QED
      BY <3>1 DEF Nest
  <2>7. QED
    BY <2>1, <2>3, <2>5, <2>6
<1>8. QED
  <2>1. \/ P = n + 2 /\ \A j \in i + 2 .. n : ~Has(s, j, c)
        \/ \E m \in i + 2 .. n : /\ P = m + Len(c) /\ Has(s, m, c)
                                 /\ \A j \in i + 2 .. m - 1 : ~Has(s, j, c)
    BY <1>0, <1>4, <1>5, PastIs
  <2>2. QED
    BY <1>1, <1>6, <1>7, <2>1

\* A dollar quote begins with a dollar.
LEMMA DollarFirst ==
  ASSUME NEW S, NEW s \in Seq(S), NEW i \in 1 .. Len(s), NEW d \in DollarsAt(s, i)
  PROVE  s[i] = "$" /\ Tagged(d) /\ Pattern(d) /\ Has(s, i, d) /\ Len(d) \in Nat \ {0} /\ i + Len(d) - 1 <= Len(s)
<1>1. Tagged(d) /\ Pattern(d) /\ Has(s, i, d)
  BY DollarIs DEF Pattern
<1>2. s[i] = d[1] /\ i + Len(d) - 1 <= Len(s) /\ Len(d) \in Nat \ {0}
  BY <1>1, HasFirst, PatternType
<1>3. QED
  BY <1>1, <1>2 DEF Tagged

\* Where a lexeme ends, by what it begins with.
LEMMA LexemeEndIs ==
  ASSUME NEW S, NEW s \in Seq(S), NEW i \in 1 .. Len(s)
  PROVE  /\ s[i] \in Quotes => LexemeEnd(s, i) = Past(s, i + 1, <<s[i]>>)
         /\ Has(s, i, <<"-", "-">>) =>
              LexemeEnd(s, i) = LET e == Past(s, i, <<"nl">>) IN IF e = Open(s) THEN Len(s) + 1 ELSE e
         /\ Has(s, i, <<"/", "*">>) => LexemeEnd(s, i) = CommentEnd(s, i)
         /\ \A d \in DollarsAt(s, i) : LexemeEnd(s, i) = Past(s, i + Len(d), d)
         /\ s[i] \in Letters =>
              LexemeEnd(s, i) = Min({j \in i + 1 .. Len(s) + 1 : j > Len(s) \/ s[j] \notin Word})
         /\ Unmarked(s, i) /\ s[i] \notin Letters => LexemeEnd(s, i) = i + 1
<1> DEFINE quote  == s[i] \in Quotes
           dashes == Has(s, i, <<"-", "-">>)
           slash  == Has(s, i, <<"/", "*">>)
           dollar == DollarsAt(s, i) # {}
           letter == s[i] \in Letters
<1>1. (dashes => s[i] = "-") /\ (slash => s[i] = "/") /\ (dollar => s[i] = "$")
  BY Pairs, DollarFirst
<1>2. s[i] \in {"-", "/", "$"} => ~quote /\ ~letter
  BY Zenon DEF Quotes, Letters
<1>3. quote => ~letter
  BY Zenon DEF Quotes, Letters
<1>4. /\ quote => ~dashes /\ ~slash /\ ~dollar /\ ~letter
      /\ dashes => ~slash /\ ~dollar /\ ~letter
      /\ slash => ~dollar /\ ~letter
      /\ dollar => ~letter
  BY <1>1, <1>2, <1>3
<1>5. quote => LexemeEnd(s, i) = Past(s, i + 1, <<s[i]>>)
  BY <1>4 DEF LexemeEnd
<1>6. dashes => LexemeEnd(s, i) = LET e == Past(s, i, <<"nl">>) IN IF e = Open(s) THEN Len(s) + 1 ELSE e
  BY <1>4 DEF LexemeEnd
<1>7. slash => LexemeEnd(s, i) = CommentEnd(s, i)
  BY <1>4 DEF LexemeEnd
<1>8. ASSUME NEW d \in DollarsAt(s, i) PROVE LexemeEnd(s, i) = Past(s, i + Len(d), d)
  <2>1. PICK e : e = CHOOSE x \in DollarsAt(s, i) : TRUE
    OBVIOUS
  <2>2. e \in DollarsAt(s, i)
    BY <1>8, <2>1
  <2>3. e = d
    BY <1>8, <2>2, OneDollar
  <2>4. LexemeEnd(s, i) = Past(s, i + Len(e), e)
    BY <1>4, <1>8, <2>1 DEF LexemeEnd
  <2>5. QED
    BY <2>3, <2>4
<1>9. letter => LexemeEnd(s, i) = Min({j \in i + 1 .. Len(s) + 1 : j > Len(s) \/ s[j] \notin Word})
  BY <1>4 DEF LexemeEnd
<1>10. Unmarked(s, i) /\ s[i] \notin Letters => LexemeEnd(s, i) = i + 1
  BY DEF LexemeEnd, Unmarked
<1>11. QED
  BY <1>5, <1>6, <1>7, <1>8, <1>9, <1>10

-----------------------------------------------------------------------------
(* The scan, lexeme by lexeme                                              *)

State(c, l, j) == [closer |-> c, last |-> l, at |-> j]

\* Positions before the next one to look at are passed over.
LEMMA Waits ==
  ASSUME NEW s, NEW f, IsScan(f, s, Len(s)), Len(s) \in Nat, NEW c, NEW l,
         NEW k \in 0 .. Len(s), NEW j \in k + 1 .. Len(s) + 1, f[k] = State(c, l, j)
  PROVE  f[j-1] = State(c, l, j)
<1> DEFINE T == {x \in Nat : f[x] = State(c, l, j)}
<1>1. k \in T
  OBVIOUS
<1>2. ASSUME NEW x \in k .. (j - 1) - 1, x \in T PROVE x + 1 \in T
  <2>1. x + 1 \in 1 .. Len(s) /\ (x + 1) - 1 = x /\ x + 1 < j /\ x + 1 \in Nat
    OBVIOUS
  <2>2. f[x+1] = Step(s, f[x], x + 1)
    BY <2>1 DEF IsScan
  <2>3. f[x].at = j
    BY <1>2 DEF State
  <2>4. f[x+1] = f[x]
    BY <2>1, <2>2, <2>3 DEF Step
  <2>5. QED
    BY <1>2, <2>1, <2>4
<1>3. j - 1 \in T
  <2> HIDE DEF T
  <2>1. k \in Nat /\ j - 1 \in Nat /\ j - 1 \in k .. j - 1
    OBVIOUS
  <2>2. \A x \in k .. (j - 1) - 1 : x \in T => x + 1 \in T
    BY <1>2
  <2>3. \A x \in k .. j - 1 : x \in T
    BY <1>1, <2>1, <2>2, FromTo
  <2>4. QED
    BY <2>1, <2>3
<1>4. QED
  BY <1>3

\* A pattern of one sign is where that sign is.
LEMMA HasOne ==
  ASSUME NEW S, NEW s \in Seq(S), NEW i \in 1 .. Len(s), NEW x, Pattern(<<x>>)
  PROVE  Has(s, i, <<x>>) <=> s[i] = x
<1>1. PICK d : d = <<x>>
  OBVIOUS
<1>2. Pattern(d) /\ Len(d) = 1 /\ d[1] = x
  BY <1>1
<1>3. i + Len(d) - 1 <= Len(s) /\ i + 1 - 1 = i /\ i \in Nat \ {0}
  <2>1. Len(s) \in Nat
    BY LenProperties
  <2>2. QED
    BY <1>2, <2>1
<1>4. Has(s, i, d) <=> \A k \in 1 .. Len(d) : s[i+k-1] = d[k]
  <2>1. Has(s, i, d) <=> i + Len(d) - 1 <= Len(s) /\ \A k \in 1 .. Len(d) : s[i+k-1] = d[k]
    <3>1. Pattern(d) /\ i \in Nat \ {0}
      BY <1>2, <1>3
    <3>2. QED
      BY <3>1, HasIs
  <2>2. QED
    BY <1>3, <2>1, Zenon
<1>5. (\A k \in 1 .. Len(d) : s[i+k-1] = d[k]) <=> s[i+1-1] = d[1]
  BY <1>2
<1>6. QED
  BY <1>1, <1>2, <1>3, <1>4, <1>5

\* Inside of what c ends, positions are passed over up to the first c.
LEMMA ToCloser ==
  ASSUME NEW S, NEW s \in Seq(S), NEW f, IsScan(f, s, Len(s)), NEW c, Pattern(c), NEW l,
         NEW j \in 1 .. Len(s) + 1, f[j-1] = State(c, l, j),
         NEW x \in j .. Len(s) + 1, \A y \in j .. x - 1 : ~Has(s, y, c)
  PROVE  f[x-1] = State(c, l, x)
<1> DEFINE T == {y \in Nat : f[y-1] = State(c, l, y)}
<1>0. Len(s) \in Nat /\ c # <<>>
  <2>1. Len(c) # 0
    BY PatternType
  <2>2. QED
    BY <2>1, LenProperties
<1>1. j \in T
  OBVIOUS
<1>2. ASSUME NEW y \in j .. x - 1, y \in T PROVE y + 1 \in T
  <2>1. y \in 1 .. Len(s) /\ (y + 1) - 1 = y /\ y + 1 \in Nat
    BY <1>0
  <2>2. f[y] = Step(s, f[y-1], y)
    BY <2>1 DEF IsScan
  <2>3. PICK a : a = State(c, l, y)
    OBVIOUS
  <2>4. a.closer = c /\ a.at = y /\ a.last = l /\ ~(y < a.at)
    BY <2>1, <2>3 DEF State
  <2>5. f[y] = ScanInside(s, a, y)
    BY <1>0, <1>2, <2>2, <2>3, <2>4 DEF Step
  <2>6. ~Has(s, y, c)
    BY <1>2
  <2>7. ~(c = <<s[y]>> /\ s[y] \in Quotes /\ Has(s, y + 1, c))
    <3>1. c = <<s[y]>> => Has(s, y, c)
      BY <2>1, HasOne
    <3>2. QED
      BY <2>6, <3>1
  <2>8. f[y] = [a EXCEPT !.at = y + 1]
    BY <2>4, <2>5, <2>6, <2>7 DEF ScanInside
  <2>9. f[y] = State(c, l, y + 1)
    BY <2>3, <2>8 DEF State
  <2>10. QED
    BY <2>1, <2>9
<1>3. x \in T
  <2> HIDE DEF T
  <2>1. j \in Nat /\ x \in Nat /\ x \in j .. x
    BY <1>0
  <2>2. \A y \in j .. x - 1 : y \in T => y + 1 \in T
    BY <1>2
  <2>3. \A y \in j .. x : y \in T
    BY <1>1, <2>1, <2>2, FromTo
  <2>4. QED
    BY <2>1, <2>3
<1>4. QED
  BY <1>3

\* The first c leads back to the top level, unless it is the first of two quotes.
LEMMA ThroughCloser ==
  ASSUME NEW S, NEW s \in Seq(S), NEW f, IsScan(f, s, Len(s)), NEW c, Pattern(c), NEW l,
         NEW j \in 1 .. Len(s) + 1, f[j-1] = State(c, l, j),
         NEW m \in j .. Len(s), Has(s, m, c), \A y \in j .. m - 1 : ~Has(s, y, c)
  PROVE  IF c = <<s[m]>> /\ Doubled(s, m) THEN f[m] = State(c, l, m + 2)
         ELSE m + Len(c) \in m + 1 .. Len(s) + 1 /\ f[m+Len(c)-1] = State(<<>>, l, m + Len(c))
<1>0. Len(s) \in Nat /\ Len(c) \in Nat \ {0} /\ c # <<>> /\ m \in 1 .. Len(s) /\ m \in j .. Len(s) + 1
  <2>1. Len(c) \in Nat \ {0}
    BY PatternType
  <2>2. QED
    BY <2>1, LenProperties
<1>1. f[m-1] = State(c, l, m)
  BY <1>0, ToCloser
<1>2. PICK a : a = State(c, l, m)
  OBVIOUS
<1>3. a.closer = c /\ a.at = m /\ a.last = l /\ ~(m < a.at)
  BY <1>0, <1>2 DEF State
<1>4. f[m] = ScanInside(s, a, m)
  BY <1>0, <1>1, <1>2, <1>3 DEF IsScan, Step
<1>5. CASE c = <<s[m]>> /\ Doubled(s, m)
  <2>1. s[m] \in Quotes /\ Has(s, m + 1, c)
    BY <1>5 DEF Doubled
  <2>2. f[m] = [a EXCEPT !.at = m + 2]
    BY <1>3, <1>4, <1>5, <2>1 DEF ScanInside
  <2>3. f[m] = State(c, l, m + 2)
    BY <1>2, <2>2 DEF State
  <2>4. QED
    BY <1>5, <2>3
<1>6. CASE ~(c = <<s[m]>> /\ Doubled(s, m))
  <2>1. ~(c = <<s[m]>> /\ s[m] \in Quotes /\ Has(s, m + 1, c))
    BY <1>6 DEF Doubled
  <2>2. f[m] = Inside(a, <<>>, Len(c), m)
    BY <1>3, <1>4, <2>1 DEF ScanInside
  <2>3. f[m] = State(<<>>, l, m + Len(c))
    BY <1>2, <2>2 DEF Inside, State
  <2>4. m + Len(c) \in m + 1 .. Len(s) + 1
    <3>1. m + Len(c) - 1 <= Len(s)
      BY <1>0, HasFirst
    <3>2. QED
      BY <1>0, <3>1
  <2>5. f[m+Len(c)-1] = State(<<>>, l, m + Len(c))
    BY <1>0, <2>3, <2>4, Waits
  <2>6. QED
    BY <1>6, <2>4, <2>5
<1>7. QED
  BY <1>5, <1>6

\* The scan just before a lexeme: at the top level, l being the last sign it has
\* taken note of; or inside of the quotes that it takes for doubled and SQL for the
\* end of one literal and the beginning of the next.
Before(f, s, i, l) ==
  \/ f[i-1] = State(<<>>, l, i)
  \/ i \in 1 .. Len(s) /\ s[i] \in Quotes /\ l = s[i] /\ f[i-1] = State(<<s[i]>>, l, i + 1)

\* k is what it has noted after the lexeme at i: a semicolon only there is one.
Kept(s, i, l, k) == IF IsSpace(s, i) THEN k = l ELSE (k = Semicolon <=> s[i] = Semicolon)

\* After the lexeme: it never ends, and the scan is inside of it; it is a line
\* comment that the text ends with; or the scan is before the next one.
After(f, s, i, l, e) ==
  \/ e = Len(s) + 2 /\ f[Len(s)].closer \notin {<<>>, <<"nl">>}
  \/ e = Len(s) + 1 /\ IsSpace(s, i) /\ f[Len(s)].closer = <<"nl">> /\ f[Len(s)].last = l
  \/ e \in i + 1 .. Len(s) + 1 /\ \E k : Before(f, s, e, k) /\ Kept(s, i, l, k)

\* A literal or a name in quotes.
LEMMA QuoteLexeme ==
  ASSUME NEW S, NEW s \in Seq(S), NEW f, IsScan(f, s, Len(s)),
         NEW i \in 1 .. Len(s), NEW l, Before(f, s, i, l), s[i] \in Quotes
  PROVE  After(f, s, i, l, LexemeEnd(s, i))
<1> DEFINE n == Len(s)
<1>0. n \in Nat
  BY LenProperties
<1>1. PICK q : q = s[i]
  OBVIOUS
<1>2. q \in Quotes /\ q \notin {"-", "/", "$", "nl"} /\ q \notin Blank
  <2>1. q \in Quotes
    BY <1>1
  <2>2. q \notin {"-", "/", "$", "nl"} /\ q \notin Blank
    BY <2>1, Zenon DEF Quotes, Blank
  <2>3. QED
    BY <2>1, <2>2
<1>3. ~Has(s, i, <<"-", "-">>) /\ ~Has(s, i, <<"/", "*">>) /\ DollarsAt(s, i) = {}
  BY <1>1, <1>2, Pairs, DollarFirst
<1>4. f[i] = State(<<q>>, q, i + 1)
  <2>1. CASE f[i-1] = State(<<>>, l, i)
    <3>1. PICK a : a = f[i-1]
      OBVIOUS
    <3>2. a.closer = <<>> /\ a.last = l /\ ~(i < a.at)
      BY <2>1, <3>1 DEF State
    <3>3. f[i] = ScanTop(s, a, i)
      BY <3>1, <3>2 DEF IsScan, Step
    <3>4. ScanTop(s, a, i) = [Inside(a, <<s[i]>>, 1, i) EXCEPT !.last = s[i]]
      BY <1>1, <1>2, <1>3, TopCases DEF Unmarked
    <3>5. QED
      BY <1>1, <2>1, <3>1, <3>3, <3>4 DEF State, Inside
  <2>2. CASE l = s[i] /\ f[i-1] = State(<<s[i]>>, l, i + 1)
    <3>1. i < f[i-1].at
      BY <2>2 DEF State
    <3>2. f[i] = f[i-1]
      BY <3>1 DEF IsScan, Step
    <3>3. QED
      BY <1>1, <2>2, <3>2
  <2>3. QED
    BY <2>1, <2>2 DEF Before
<1>5. PICK c : c = <<q>>
  OBVIOUS
<1>6. Pattern(c) /\ Len(c) = 1 /\ c \notin {<<>>, <<"nl">>}
  <2>1. Pattern(c) /\ Len(c) = 1 /\ c[1] = q
    BY <1>2, <1>5 DEF Pattern, Marks
  <2>2. QED
    BY <1>2, <1>5, <2>1
<1>7. PICK j : j = i + 1
  OBVIOUS
<1>8. j \in 1 .. n + 1 /\ j \in Nat \ {0} /\ j - 1 = i /\ f[j-1] = State(c, q, j)
  BY <1>0, <1>4, <1>5, <1>7
<1>9. LexemeEnd(s, i) = Past(s, j, c)
  BY <1>1, <1>2, <1>5, <1>7, LexemeEndIs
<1>10. \A k : k = q => Kept(s, i, l, k)
  BY <1>1, <1>2, <1>3 DEF Kept, IsSpace
<1>11. CASE Past(s, j, c) = n + 2 /\ \A y \in j .. n : ~Has(s, y, c)
  <2>1. n + 1 \in j .. n + 1 /\ (n + 1) - 1 = n
    BY <1>0, <1>8
  <2>2. f[(n+1)-1] = State(c, q, n + 1)
    BY <1>6, <1>8, <1>11, <2>1, ToCloser
  <2>3. f[n].closer = c
    BY <2>1, <2>2 DEF State
  <2>4. QED
    BY <1>6, <1>9, <1>11, <2>3 DEF After
<1>12. ASSUME NEW m \in j .. n, Past(s, j, c) = m + Len(c), Has(s, m, c), \A y \in j .. m - 1 : ~Has(s, y, c)
       PROVE  After(f, s, i, l, LexemeEnd(s, i))
  <2>1. m \in 1 .. n /\ LexemeEnd(s, i) = m + 1 /\ m + 1 \in i + 1 .. n + 1 /\ (m + 1) - 1 = m
    BY <1>0, <1>6, <1>7, <1>8, <1>9, <1>12
  <2>2. IF c = <<s[m]>> /\ Doubled(s, m) THEN f[m] = State(c, q, m + 2)
        ELSE m + Len(c) \in m + 1 .. Len(s) + 1 /\ f[m+Len(c)-1] = State(<<>>, q, m + Len(c))
    <3>1. Pattern(c) /\ j \in 1 .. Len(s) + 1 /\ f[j-1] = State(c, q, j) /\ m \in j .. Len(s) /\ Has(s, m, c)
      BY <1>6, <1>8, <1>12
    <3>2. \A y \in j .. m - 1 : ~Has(s, y, c)
      BY <1>12
    <3>3. QED
      BY <3>1, <3>2, ThroughCloser
  <2>3. Before(f, s, m + 1, q)
    <3>1. CASE c = <<s[m]>> /\ Doubled(s, m)
      <4>1. s[m] = q
        BY <1>5, <3>1
      <4>2. m + 1 \in Nat \ {0} /\ Has(s, m + 1, c)
        BY <1>5, <2>1, <3>1, <4>1 DEF Doubled
      <4>3. s[m+1] = q /\ m + 1 <= n
        <5>1. s[m+1] = c[1] /\ (m + 1) + Len(c) - 1 <= n
          BY <1>6, <4>2, HasFirst
        <5>2. QED
          BY <1>0, <1>5, <1>6, <2>1, <5>1
      <4>4. m + 1 \in 1 .. n /\ (m + 1) + 1 = m + 2
        BY <2>1, <4>3
      <4>5. f[m] = State(<<s[m+1]>>, q, (m + 1) + 1)
        BY <1>5, <2>2, <3>1, <4>3, <4>4
      <4>6. QED
        BY <1>2, <2>1, <4>3, <4>4, <4>5 DEF Before
    <3>2. CASE ~(c = <<s[m]>> /\ Doubled(s, m))
      BY <1>6, <2>1, <2>2, <3>2 DEF Before
    <3>3. QED
      BY <3>1, <3>2
  <2>4. QED
    BY <1>10, <2>1, <2>3 DEF After
<1>13. QED
  <2>1. \/ Past(s, j, c) = n + 2 /\ \A y \in j .. n : ~Has(s, y, c)
        \/ \E m \in j .. n : /\ Past(s, j, c) = m + Len(c) /\ Has(s, m, c)
                             /\ \A y \in j .. m - 1 : ~Has(s, y, c)
    BY <1>6, <1>8, PastIs
  <2>2. QED
    BY <1>11, <1>12, <2>1

\* What is opened and is no quote is left at its end, or never.
LEMMA OpenedEnds ==
  ASSUME NEW S, NEW s \in Seq(S), NEW f, IsScan(f, s, Len(s)), NEW i \in 1 .. Len(s),
         NEW c, Pattern(c), \A q \in Quotes : c # <<q>>, NEW k, NEW j \in i + 1 .. Len(s) + 1, f[i] = State(c, k, j)
  PROVE  \/ Past(s, j, c) = Len(s) + 2 /\ f[Len(s)].closer = c /\ f[Len(s)].last = k
         \/ Past(s, j, c) \in i + 1 .. Len(s) + 1 /\ f[Past(s, j, c) - 1] = State(<<>>, k, Past(s, j, c))
<1> DEFINE n == Len(s)
<1>0. n \in Nat /\ j \in 1 .. n + 1 /\ j \in Nat \ {0} /\ i \in 0 .. n
  BY LenProperties
<1>1. f[j-1] = State(c, k, j)
  BY <1>0, Waits
<1>2. CASE Past(s, j, c) = n + 2 /\ \A y \in j .. n : ~Has(s, y, c)
  <2>1. n + 1 \in j .. n + 1 /\ (n + 1) - 1 = n
    BY <1>0
  <2>2. f[(n+1)-1] = State(c, k, n + 1)
    BY <1>0, <1>1, <1>2, <2>1, ToCloser
  <2>3. f[n].closer = c /\ f[n].last = k
    BY <2>1, <2>2 DEF State
  <2>4. QED
    BY <1>2, <2>3
<1>3. ASSUME NEW m \in j .. n, Past(s, j, c) = m + Len(c), Has(s, m, c), \A y \in j .. m - 1 : ~Has(s, y, c)
      PROVE  Past(s, j, c) \in i + 1 .. n + 1 /\ f[Past(s, j, c) - 1] = State(<<>>, k, Past(s, j, c))
  <2>1. j \in 1 .. Len(s) + 1 /\ m \in j .. Len(s) /\ \A y \in j .. m - 1 : ~Has(s, y, c)
    BY <1>0, <1>3
  <2>2. IF c = <<s[m]>> /\ Doubled(s, m) THEN f[m] = State(c, k, m + 2)
        ELSE m + Len(c) \in m + 1 .. Len(s) + 1 /\ f[m+Len(c)-1] = State(<<>>, k, m + Len(c))
    BY <1>1, <1>3, <2>1, ThroughCloser
  <2>3. ~(c = <<s[m]>> /\ Doubled(s, m))
    BY DEF Doubled
  <2>4. m + Len(c) \in m + 1 .. n + 1 /\ f[m+Len(c)-1] = State(<<>>, k, m + Len(c))
    BY <2>2, <2>3
  <2>5. m + Len(c) \in i + 1 .. n + 1
    BY <1>0, <2>1, <2>4
  <2>6. QED
    BY <1>3, <2>4, <2>5
<1>4. QED
  <2>1. \/ Past(s, j, c) = n + 2 /\ \A y \in j .. n : ~Has(s, y, c)
        \/ \E m \in j .. n : /\ Past(s, j, c) = m + Len(c) /\ Has(s, m, c)
                             /\ \A y \in j .. m - 1 : ~Has(s, y, c)
    BY <1>0, PastIs
  <2>2. QED
    BY <1>2, <1>3, <2>1

\* Before a lexeme without quotes the scan is at the top level.
LEMMA AtTop ==
  ASSUME NEW S, NEW s \in Seq(S), NEW f, IsScan(f, s, Len(s)),
         NEW i \in 1 .. Len(s), NEW l, Before(f, s, i, l), s[i] \notin Quotes
  PROVE  \E a : a = State(<<>>, l, i) /\ f[i] = ScanTop(s, a, i)
<1>1. PICK a : a = f[i-1]
  OBVIOUS
<1>2. a = State(<<>>, l, i)
  BY <1>1 DEF Before
<1>3. a.closer = <<>> /\ ~(i < a.at)
  BY <1>2 DEF State
<1>4. f[i] = ScanTop(s, a, i)
  BY <1>1, <1>3 DEF IsScan, Step
<1>5. QED
  BY <1>2, <1>4

\* A comment to the end of the line.
LEMMA DashLexeme ==
  ASSUME NEW S, NEW s \in Seq(S), NEW f, IsScan(f, s, Len(s)),
         NEW i \in 1 .. Len(s), NEW l, Before(f, s, i, l), Has(s, i, <<"-", "-">>)
  PROVE  After(f, s, i, l, LexemeEnd(s, i))
<1> DEFINE n == Len(s)
           P == Past(s, i + 2, <<"nl">>)
<1>0. n \in Nat
  BY LenProperties
<1>1. s[i] = "-" /\ s[i+1] = "-" /\ i + 1 <= n
  <2>1. PICK d : d = <<"-", "-">>
    OBVIOUS
  <2>2. Pattern(d) /\ Len(d) = 2 /\ d[1] = "-" /\ d[2] = "-"
    BY <2>1 DEF Pattern, Marks
  <2>3. Pattern(d) /\ i \in Nat \ {0}
    BY <2>2
  <2>4. Has(s, i, d) <=> i + Len(d) - 1 <= Len(s) /\ \A k \in 1 .. Len(d) : s[i+k-1] = d[k]
    BY <2>3, HasIs
  <2>5. 1 \in 1 .. Len(d) /\ 2 \in 1 .. Len(d) /\ i + 1 - 1 = i /\ i + 2 - 1 = i + 1
    BY <2>2
  <2>6. QED
    BY <2>1, <2>2, <2>4, <2>5
<1>2. s[i] \notin Quotes /\ s[i] # "$" /\ s[i] # "/"
  BY <1>1, SignsDiffer
<1>3. f[i] = State(<<"nl">>, l, i + 2)
  <2>1. PICK a : a = State(<<>>, l, i) /\ f[i] = ScanTop(s, a, i)
    BY <1>2, AtTop
  <2>2. ScanTop(s, a, i) = Inside(a, <<"nl">>, 2, i)
    BY TopDashes
  <2>3. QED
    BY <2>1, <2>2 DEF State, Inside
<1>4. Past(s, i, <<"nl">>) = P
  <2>1. Pattern(<<"nl">>)
    BY DEF Pattern, Marks
  <2>2. ~Has(s, i, <<"nl">>) /\ ~Has(s, i + 1, <<"nl">>)
    <3>1. i + 1 \in 1 .. n
      BY <1>0, <1>1
    <3>2. QED
      BY <1>1, <2>1, <3>1, HasOne
  <2>3. \A y \in i .. n : y = i \/ y = i + 1 \/ y \in i + 2 .. n
    BY <1>0
  <2>4. \A y \in i + 2 .. n : y \in i .. n
    BY <1>0
  <2>5. {y \in i .. n : Has(s, y, <<"nl">>)} = {y \in i + 2 .. n : Has(s, y, <<"nl">>)}
    BY <2>2, <2>3, <2>4
  <2>6. QED
    BY <2>5 DEF Past
<1>5. LexemeEnd(s, i) = IF P = n + 2 THEN n + 1 ELSE P
  BY <1>4, LexemeEndIs DEF Open
<1>6. PICK c : c = <<"nl">>
  OBVIOUS
<1>7. Pattern(c) /\ \A q \in Quotes : c # <<q>>
  <2>1. Pattern(c) /\ c[1] = "nl"
    BY <1>6 DEF Pattern, Marks
  <2>2. QED
    BY <1>6, <2>1, SignsDiffer
<1>8. i + 2 \in i + 1 .. n + 1 /\ f[i] = State(c, l, i + 2)
  BY <1>0, <1>1, <1>3, <1>6
<1>9. \/ P = n + 2 /\ f[n].closer = c /\ f[n].last = l
      \/ P \in i + 1 .. n + 1 /\ f[P-1] = State(<<>>, l, P)
  BY <1>6, <1>7, <1>8, OpenedEnds
<1>10. IsSpace(s, i) /\ Kept(s, i, l, l)
  BY DEF IsSpace, Kept
<1>11. CASE P = n + 2 /\ f[n].closer = c /\ f[n].last = l
  BY <1>5, <1>6, <1>10, <1>11 DEF After
<1>12. CASE P \in i + 1 .. n + 1 /\ f[P-1] = State(<<>>, l, P)
  <2>1. P # n + 2
    BY <1>0, <1>12
  <2>2. LexemeEnd(s, i) = P
    BY <1>5, <2>1
  <2>3. Before(f, s, P, l)
    BY <1>12 DEF Before
  <2>4. QED
    BY <1>10, <1>12, <2>2, <2>3 DEF After
<1>13. QED
  BY <1>9, <1>11, <1>12

\* A comment between marks.
LEMMA SlashLexeme ==
  ASSUME NEW S, NEW s \in Seq(S), NEW f, IsScan(f, s, Len(s)), ~Nested(s),
         NEW i \in 1 .. Len(s), NEW l, Before(f, s, i, l), Has(s, i, <<"/", "*">>)
  PROVE  After(f, s, i, l, LexemeEnd(s, i))
<1> DEFINE n == Len(s)
           P == Past(s, i + 2, <<"*", "/">>)
<1>0. n \in Nat
  BY LenProperties
<1>1. s[i] = "/" /\ i + 1 <= n /\ s[i] \notin Quotes /\ s[i] # "$" /\ s[i] # "-"
  BY Pairs, SignsDiffer
<1>2. f[i] = State(<<"*", "/">>, l, i + 2)
  <2>1. PICK a : a = State(<<>>, l, i) /\ f[i] = ScanTop(s, a, i)
    BY <1>1, AtTop
  <2>2. ScanTop(s, a, i) = Inside(a, <<"*", "/">>, 2, i)
    BY TopSlash
  <2>3. QED
    BY <2>1, <2>2 DEF State, Inside
<1>3. LexemeEnd(s, i) = P
  BY CommentIsPlain, LexemeEndIs
<1>4. PICK c : c = <<"*", "/">>
  OBVIOUS
<1>5. Pattern(c) /\ Len(c) = 2
  BY <1>4 DEF Pattern, Marks
<1>6. ASSUME NEW q PROVE c # <<q>>
  <2>1. c = <<q>> => Len(c) = 1
    OBVIOUS
  <2>2. QED
    BY <1>5, <2>1
<1>7. i + 2 \in i + 1 .. n + 1 /\ f[i] = State(c, l, i + 2)
  BY <1>0, <1>1, <1>2, <1>4
<1>8. \/ P = n + 2 /\ f[n].closer = c /\ f[n].last = l
      \/ P \in i + 1 .. n + 1 /\ f[P-1] = State(<<>>, l, P)
  <2>1. Pattern(c) /\ \A q \in Quotes : c # <<q>>
    BY <1>5, <1>6
  <2>2. PICK j : j = i + 2
    OBVIOUS
  <2>3. j \in i + 1 .. Len(s) + 1 /\ f[i] = State(c, l, j)
    BY <1>7, <2>2
  <2>4. \/ Past(s, j, c) = n + 2 /\ f[n].closer = c /\ f[n].last = l
        \/ Past(s, j, c) \in i + 1 .. n + 1 /\ f[Past(s, j, c)-1] = State(<<>>, l, Past(s, j, c))
    BY <2>1, <2>3, OpenedEnds
  <2>5. QED
    BY <1>4, <2>2, <2>4
<1>9. IsSpace(s, i) /\ Kept(s, i, l, l)
  BY DEF IsSpace, Kept
<1>10. c \notin {<<>>, <<"nl">>}
  <2>1. c = <<>> => Len(c) = 0
    OBVIOUS
  <2>2. c # <<>>
    BY <1>5, <2>1
  <2>3. QED
    BY <1>6, <2>2
<1>11. CASE P = n + 2 /\ f[n].closer = c /\ f[n].last = l
  BY <1>3, <1>10, <1>11 DEF After
<1>12. CASE P \in i + 1 .. n + 1 /\ f[P-1] = State(<<>>, l, P)
  BY <1>3, <1>9, <1>12 DEF After, Before
<1>13. QED
  BY <1>8, <1>11, <1>12

\* A literal between dollar quotes.
LEMMA DollarLexeme ==
  ASSUME NEW S, NEW s \in Seq(S), NEW f, IsScan(f, s, Len(s)),
         NEW i \in 1 .. Len(s), NEW l, Before(f, s, i, l), NEW d \in DollarsAt(s, i)
  PROVE  After(f, s, i, l, LexemeEnd(s, i))
<1> DEFINE n == Len(s)
           P == Past(s, i + Len(d), d)
<1>0. n \in Nat
  BY LenProperties
<1>1. s[i] = "$" /\ Tagged(d) /\ Pattern(d) /\ Len(d) \in Nat \ {0} /\ i + Len(d) - 1 <= n
  BY DollarFirst
<1>2. s[i] \notin Quotes /\ s[i] # "-" /\ s[i] # "/" /\ s[i] # Semicolon /\ s[i] \notin Blank
  <2>1. "$" \notin Blank
    BY Zenon DEF Blank
  <2>2. QED
    BY <1>1, <2>1, SignsDiffer DEF Signs
<1>3. f[i] = State(d, "$", i + Len(d))
  <2>1. PICK a : a = State(<<>>, l, i) /\ f[i] = ScanTop(s, a, i)
    BY <1>2, AtTop
  <2>2. ScanTop(s, a, i) = [Inside(a, d, Len(d), i) EXCEPT !.last = "$"]
    BY TopDollar
  <2>3. QED
    BY <2>1, <2>2 DEF State, Inside
<1>4. LexemeEnd(s, i) = P
  BY LexemeEndIs
<1>5. d \notin {<<>>, <<"nl">>} /\ \A q \in Quotes : d # <<q>>
  <2>1. Len(d) >= 2
    BY <1>1 DEF Tagged
  <2>2. d # <<>>
    BY <2>1
  <2>3. ASSUME NEW q PROVE d # <<q>>
    <3>1. SUFFICES ASSUME d = <<q>> PROVE FALSE
      OBVIOUS
    <3>2. Len(d) = 1
      BY <3>1
    <3>3. QED
      BY <2>1, <3>2
  <2>4. QED
    BY <2>2, <2>3
<1>6. i + Len(d) \in i + 1 .. n + 1
  BY <1>0, <1>1
<1>7. \/ P = n + 2 /\ f[n].closer = d /\ f[n].last = "$"
      \/ P \in i + 1 .. n + 1 /\ f[P-1] = State(<<>>, "$", P)
  BY <1>1, <1>3, <1>5, <1>6, OpenedEnds
<1>8. ASSUME NEW k, k = "$" PROVE Kept(s, i, l, k)
  BY <1>1, <1>2, <1>8, Pairs DEF Kept, IsSpace
<1>9. CASE P = n + 2 /\ f[n].closer = d /\ f[n].last = "$"
  BY <1>4, <1>5, <1>9 DEF After
<1>10. CASE P \in i + 1 .. n + 1 /\ f[P-1] = State(<<>>, "$", P)
  BY <1>4, <1>8, <1>10 DEF After, Before
<1>11. QED
  BY <1>7, <1>9, <1>10

\* Two dollars are a dollar quote without a tag.
LEMMA TwoDollars ==
  ASSUME NEW S, NEW s \in Seq(S), NEW i \in 1 .. Len(s), i + 1 <= Len(s), s[i] = "$", s[i+1] = "$"
  PROVE  DollarsAt(s, i) # {}
<1>1. PICK d : d = <<"$", "$">>
  OBVIOUS
<1>2. d \in Seq(Word) /\ Len(d) = 2 /\ d[1] = "$" /\ d[2] = "$"
  <2>1. "$" \in Word
    BY SignsDiffer
  <2>2. PICK x \in Word : x = "$"
    BY <2>1
  <2>3. d = <<x, x>>
    BY <1>1, <2>2
  <2>4. QED
    BY <2>2, <2>3
<1>3. Tagged(d)
  BY <1>2 DEF Tagged
<1>4. Has(s, i, d)
  <2>1. Pattern(d) /\ i \in Nat \ {0}
    BY <1>3 DEF Pattern
  <2>2. Has(s, i, d) <=> i + Len(d) - 1 <= Len(s) /\ \A k \in 1 .. Len(d) : s[i+k-1] = d[k]
    BY <2>1, HasIs
  <2>3. i + 2 - 1 = i + 1 /\ i + 1 - 1 = i /\ \A k \in 1 .. 2 : k = 1 \/ k = 2
    OBVIOUS
  <2>4. QED
    BY <1>2, <2>2, <2>3
<1>5. QED
  BY <1>3, <1>4, DollarIs

\* A sign of a word begins nothing where no dollar quote begins within a word.
LEMMA WordIsPlain ==
  ASSUME NEW S, NEW s \in Seq(S), NEW i \in 1 .. Len(s), s[i] \in Word, DollarsAt(s, i) = {}
  PROVE  Unmarked(s, i) /\ s[i] \notin Blank /\ s[i] # Semicolon
<1>1. s[i] \notin Quotes /\ s[i] # "-" /\ s[i] # "/" /\ s[i] # Semicolon
  BY SignsDiffer DEF Signs
<1>2. s[i] \notin Blank
  BY Zenon DEF Word, Letters, Digits, Blank
<1>3. QED
  BY <1>1, <1>2, Pairs DEF Unmarked

\* A plain sign is noted.
LEMMA Noted ==
  ASSUME NEW s, NEW i, NEW l, NEW a, a = State(<<>>, l, i), Unmarked(s, i), s[i] \notin Blank
  PROVE  ScanTop(s, a, i) = State(<<>>, s[i], i + 1)
<1>1. ScanTop(s, a, i) = [a EXCEPT !.at = i + 1, !.last = s[i]]
  BY TopPlain
<1>2. QED
  BY <1>1 DEF State

\* A name, a keyword, or the beginning of a number.
LEMMA WordLexeme ==
  ASSUME NEW S, NEW s \in Seq(S), NEW f, IsScan(f, s, Len(s)), ~Midword(s),
         NEW i \in 1 .. Len(s), NEW l, Before(f, s, i, l), s[i] \in Letters
  PROVE  After(f, s, i, l, LexemeEnd(s, i))
<1> DEFINE n == Len(s)
           E == {j \in i + 1 .. n + 1 : j > n \/ s[j] \notin Word}
           T == {y \in Nat : f[y] = State(<<>>, s[y], y + 1) /\ DollarsAt(s, y) = {}}
<1>0. n \in Nat
  BY LenProperties
<1>1. PICK e : e = Min(E)
  OBVIOUS
<1>2. LexemeEnd(s, i) = e
  BY <1>1, LexemeEndIs
<1>3. e \in E /\ \A j \in E : e <= j
  <2>1. E \subseteq Nat /\ n + 1 \in E
    BY <1>0
  <2>2. QED
    <3> HIDE DEF E
    <3>1. QED
      BY <1>1, <2>1, MinIsLeast
<1>4. \A j \in i .. e - 1 : j \in 1 .. n /\ s[j] \in Word
  <2>1. ASSUME NEW j \in i .. e - 1 PROVE j \in 1 .. n /\ s[j] \in Word
    <3>1. CASE j = i
      BY <3>1 DEF Word
    <3>2. CASE j # i
      <4>1. j \in i + 1 .. n + 1 /\ ~(e <= j)
        BY <1>0, <1>3, <3>2
      <4>2. j \notin E
        BY <1>3, <4>1
      <4>3. QED
        BY <1>0, <4>1, <4>2
    <3>3. QED
      BY <3>1, <3>2
  <2>2. QED
    BY <2>1
<1>5. i \in T
  <2>1. s[i] # "$" /\ s[i] \in Word /\ s[i] \notin Quotes
    <3>1. s[i] \in Word
      BY DEF Word
    <3>2. QED
      BY <3>1, SignsDiffer
  <2>2. DollarsAt(s, i) = {}
    BY <2>1, DollarFirst
  <2>3. PICK a : a = State(<<>>, l, i) /\ f[i] = ScanTop(s, a, i)
    BY <2>1, AtTop
  <2>4. Unmarked(s, i) /\ s[i] \notin Blank
    BY <2>1, <2>2, WordIsPlain
  <2>5. f[i] = State(<<>>, s[i], i + 1)
    BY <2>3, <2>4, Noted
  <2>6. QED
    BY <2>2, <2>5
<1>6. ASSUME NEW y \in i .. (e - 1) - 1, y \in T PROVE y + 1 \in T
  <2>1. y \in i .. e - 1 /\ y + 1 \in i .. e - 1 /\ (y + 1) - 1 = y /\ y + 1 > 1 /\ y + 1 \in Nat
    BY <1>0, <1>3
  <2>2. y \in 1 .. n /\ y + 1 \in 1 .. n /\ s[y] \in Word /\ s[y+1] \in Word
    BY <1>4, <2>1
  <2>3. DollarsAt(s, y + 1) = {}
    <3>1. SUFFICES ASSUME DollarsAt(s, y + 1) # {} PROVE FALSE
      OBVIOUS
    <3>2. s[y+1] = "$"
      BY <2>2, <3>1, DollarFirst
    <3>3. CASE s[y] = "$"
      <4>1. y + 1 <= Len(s)
        BY <2>2
      <4>2. DollarsAt(s, y) # {}
        BY <2>2, <3>2, <3>3, <4>1, TwoDollars
      <4>3. QED
        BY <1>6, <4>2
    <3>4. CASE s[y] # "$"
      <4>1. s[(y+1)-1] \in Letters \union Digits
        BY <2>1, <2>2, <3>4 DEF Word
      <4>2. y + 1 \in DOMAIN s
        BY <2>2
      <4>3. QED
        BY <2>1, <3>1, <4>1, <4>2 DEF Midword
    <3>5. QED
      BY <3>3, <3>4
  <2>4. Unmarked(s, y + 1) /\ s[y+1] \notin Blank
    BY <2>2, <2>3, WordIsPlain
  <2>5. PICK a : a = State(<<>>, s[y], y + 1)
    OBVIOUS
  <2>6. f[y] = a
    BY <1>6, <2>5
  <2>7. a.closer = <<>> /\ a.at = y + 1
    BY <2>5 DEF State
  <2>8. f[y+1] = Step(s, f[y], y + 1)
    BY <2>1, <2>2 DEF IsScan
  <2>9. f[y+1] = ScanTop(s, a, y + 1)
    BY <2>1, <2>6, <2>7, <2>8 DEF Step
  <2>10. f[y+1] = State(<<>>, s[y+1], (y + 1) + 1)
    BY <2>4, <2>5, <2>9, Noted
  <2>11. QED
    BY <2>1, <2>3, <2>10
<1>7. PICK x : x = e - 1
  OBVIOUS
<1>8. x \in i .. x /\ x \in Nat /\ i \in Nat /\ x + 1 = e /\ x \in i .. e - 1
  BY <1>0, <1>3, <1>7
<1>9. x \in T
  <2> HIDE DEF T
  <2>1. \A y \in i .. x - 1 : y \in T => y + 1 \in T
    BY <1>6, <1>7
  <2>2. \A y \in i .. x : y \in T
    BY <1>5, <1>8, <2>1, FromTo
  <2>3. QED
    BY <1>8, <2>2
<1>10. Before(f, s, e, s[x])
  BY <1>7, <1>8, <1>9 DEF Before
<1>11. Kept(s, i, l, s[x])
  <2>1. s[x] \in Word /\ s[i] \in Word
    BY <1>4, <1>8 DEF Word
  <2>2. s[i] # "-" /\ s[i] # "/" /\ s[x] # Semicolon /\ s[i] # Semicolon
    BY <2>1, SignsDiffer DEF Signs
  <2>3. s[i] \notin Blank
    BY Zenon DEF Letters, Blank
  <2>4. QED
    BY <2>2, <2>3, Pairs DEF Kept, IsSpace
<1>12. e \in i + 1 .. n + 1
  BY <1>3
<1>13. QED
  BY <1>2, <1>10, <1>11, <1>12 DEF After

\* A sign that is a lexeme of its own, or a blank.
LEMMA OtherLexeme ==
  ASSUME NEW S, NEW s \in Seq(S), NEW f, IsScan(f, s, Len(s)),
         NEW i \in 1 .. Len(s), NEW l, Before(f, s, i, l), Unmarked(s, i), s[i] \notin Letters
  PROVE  After(f, s, i, l, LexemeEnd(s, i))
<1>1. LexemeEnd(s, i) = i + 1 /\ i + 1 \in i + 1 .. Len(s) + 1 /\ (i + 1) - 1 = i
  <2>1. Len(s) \in Nat
    BY LenProperties
  <2>2. LexemeEnd(s, i) = i + 1
    BY LexemeEndIs
  <2>3. QED
    BY <2>1, <2>2
<1>2. PICK a : a = State(<<>>, l, i) /\ f[i] = ScanTop(s, a, i)
  BY AtTop DEF Unmarked
<1>3. CASE s[i] \in Blank
  <2>1. f[i] = State(<<>>, l, i + 1)
    BY <1>2, <1>3, TopBlank DEF State
  <2>2. Before(f, s, i + 1, l)
    BY <1>1, <2>1 DEF Before
  <2>3. Kept(s, i, l, l)
    BY <1>3 DEF Kept, IsSpace
  <2>4. QED
    BY <1>1, <2>2, <2>3 DEF After
<1>4. CASE s[i] \notin Blank
  <2>1. f[i] = State(<<>>, s[i], i + 1)
    BY <1>2, <1>4, Noted
  <2>2. Before(f, s, i + 1, s[i])
    BY <1>1, <2>1 DEF Before
  <2>3. Kept(s, i, l, s[i])
    BY <1>4 DEF Kept, IsSpace, Unmarked
  <2>4. QED
    BY <1>1, <2>2, <2>3 DEF After
<1>5. QED
  BY <1>3, <1>4

\* Whatever a lexeme is, the scan keeps step with it.
LEMMA LexemeStep ==
  ASSUME NEW S, NEW s \in Seq(S), NEW f, IsScan(f, s, Len(s)), Ordinary(s),
         NEW i \in 1 .. Len(s), NEW l, Before(f, s, i, l)
  PROVE  After(f, s, i, l, LexemeEnd(s, i))
<1>1. ~Nested(s) /\ ~Midword(s)
  BY DEF Ordinary
<1>2. CASE s[i] \in Quotes
  BY <1>2, QuoteLexeme
<1>3. CASE Has(s, i, <<"-", "-">>)
  BY <1>3, DashLexeme
<1>4. CASE Has(s, i, <<"/", "*">>)
  BY <1>1, <1>4, SlashLexeme
<1>5. CASE DollarsAt(s, i) # {}
  <2>1. PICK d : d \in DollarsAt(s, i)
    BY <1>5
  <2>2. QED
    BY <2>1, DollarLexeme
<1>6. CASE s[i] \in Letters
  BY <1>1, <1>6, WordLexeme
<1>7. CASE Unmarked(s, i) /\ s[i] \notin Letters
  BY <1>7, OtherLexeme
<1>8. QED
  BY <1>2, <1>3, <1>4, <1>5, <1>6, <1>7 DEF Unmarked

\* What is looked for ends behind where the search began.
LEMMA PastRange ==
  ASSUME NEW S, NEW s \in Seq(S), NEW i \in 1 .. Len(s) + 1, NEW d, Pattern(d)
  PROVE  Past(s, i, d) \in i + 1 .. Len(s) + 2
<1>0. Len(s) \in Nat /\ Len(d) \in Nat \ {0} /\ i \in Nat \ {0}
  BY PatternType, LenProperties
<1>1. ASSUME NEW m \in i .. Len(s), Past(s, i, d) = m + Len(d), Has(s, m, d)
      PROVE  Past(s, i, d) \in i + 1 .. Len(s) + 2
  <2>1. m \in Nat \ {0}
    BY <1>0
  <2>2. m + Len(d) - 1 <= Len(s)
    BY <1>1, <2>1, HasFirst
  <2>3. QED
    BY <1>0, <1>1, <2>2
<1>2. CASE Past(s, i, d) = Len(s) + 2
  BY <1>0, <1>2
<1>3. QED
  BY <1>0, <1>1, <1>2, PastIs

\* So every lexeme has an end behind where it begins.
LEMMA LexemeRange ==
  ASSUME NEW S, NEW s \in Seq(S), ~Nested(s), NEW i \in 1 .. Len(s)
  PROVE  LexemeEnd(s, i) \in i + 1 .. Len(s) + 2
<1> DEFINE n == Len(s)
<1>0. n \in Nat /\ i + 1 \in 1 .. n + 1 /\ i \in 1 .. n + 1
  BY LenProperties
<1>1. ASSUME NEW j \in i .. n + 1, NEW d, Pattern(d) PROVE Past(s, j, d) \in i + 1 .. n + 2
  <2>1. j \in 1 .. n + 1
    BY <1>0
  <2>2. Past(s, j, d) \in j + 1 .. n + 2
    BY <1>1, <2>1, PastRange
  <2>3. QED
    BY <1>0, <2>2
<1>2. CASE s[i] \in Quotes
  <2>1. Pattern(<<s[i]>>)
    BY <1>2 DEF Pattern, Marks
  <2>2. i + 1 \in i .. n + 1
    BY <1>0
  <2>3. Past(s, i + 1, <<s[i]>>) \in i + 1 .. n + 2
    BY <1>1, <2>1, <2>2
  <2>4. LexemeEnd(s, i) = Past(s, i + 1, <<s[i]>>)
    BY <1>2, LexemeEndIs
  <2>5. QED
    BY <2>3, <2>4
<1>3. CASE Has(s, i, <<"-", "-">>)
  <2>1. Pattern(<<"nl">>)
    BY DEF Pattern, Marks
  <2>2. i \in i .. n + 1
    BY <1>0
  <2>3. Past(s, i, <<"nl">>) \in i + 1 .. n + 2
    BY <1>1, <2>1, <2>2
  <2>4. LexemeEnd(s, i) = LET e == Past(s, i, <<"nl">>) IN IF e = Open(s) THEN Len(s) + 1 ELSE e
    BY <1>3, LexemeEndIs
  <2>5. QED
    BY <1>0, <2>3, <2>4
<1>4. CASE Has(s, i, <<"/", "*">>)
  <2>1. Pattern(<<"*", "/">>)
    BY DEF Pattern, Marks
  <2>2. i + 1 <= Len(s)
    BY <1>4, Pairs
  <2>3. i + 2 \in i .. n + 1
    BY <1>0, <2>2
  <2>4. Past(s, i + 2, <<"*", "/">>) \in i + 1 .. n + 2
    BY <1>1, <2>1, <2>3
  <2>5. CommentEnd(s, i) = Past(s, i + 2, <<"*", "/">>)
    BY <1>4, CommentIsPlain
  <2>6. LexemeEnd(s, i) = CommentEnd(s, i)
    BY <1>4, LexemeEndIs
  <2>7. QED
    BY <2>4, <2>5, <2>6
<1>5. CASE DollarsAt(s, i) # {}
  <2>1. PICK d : d \in DollarsAt(s, i)
    BY <1>5
  <2>2. Pattern(d) /\ Len(d) \in Nat \ {0} /\ i + Len(d) - 1 <= Len(s)
    BY <2>1, DollarFirst
  <2>3. i + Len(d) \in i .. n + 1
    BY <1>0, <2>2
  <2>4. Past(s, i + Len(d), d) \in i + 1 .. n + 2
    BY <1>1, <2>2, <2>3
  <2>5. LexemeEnd(s, i) = Past(s, i + Len(d), d)
    BY <2>1, LexemeEndIs
  <2>6. QED
    BY <2>4, <2>5
<1>6. CASE s[i] \in Letters
  <2> DEFINE E == {j \in i + 1 .. Len(s) + 1 : j > Len(s) \/ s[j] \notin Word}
  <2>1. E \subseteq Nat /\ n + 1 \in E
    BY <1>0
  <2>2. Min(E) \in E
    <3> HIDE DEF E
    <3>1. QED
      BY <2>1, MinIsLeast
  <2>3. LexemeEnd(s, i) = Min(E)
    BY <1>6, LexemeEndIs
  <2>4. QED
    BY <1>0, <2>2, <2>3
<1>7. CASE Unmarked(s, i) /\ s[i] \notin Letters
  <2>1. LexemeEnd(s, i) = i + 1
    BY <1>7, LexemeEndIs
  <2>2. QED
    BY <1>0, <2>1
<1>8. QED
  BY <1>2, <1>3, <1>4, <1>5, <1>6, <1>7 DEF Unmarked

\* What the scan has made of the whole text, when it is before the lexeme at i with
\* l and the text is h[i] from there on: something is still open, nothing but blanks
\* and comments follows, or h[i] begins the last lexeme.
Told(f, s, h, i) ==
  \A l : Before(f, s, i, l) =>
    LET a == f[Len(s)]
    IN  IF h[i] = "open" THEN a.closer \notin {<<>>, <<"nl">>}
        ELSE /\ a.closer \in {<<>>, <<"nl">>}
             /\ IF h[i] = "blank" THEN a.last = l ELSE (a.last = Semicolon <=> h[i] = Semicolon)

\* What is so after a lexeme is so before it.
LEMMA ToldStep ==
  ASSUME NEW s \in Seq(Symbols), NEW f, IsScan(f, s, Len(s)), Ordinary(s), NEW h, NEW i \in 1 .. Len(s),
         \A j \in 1 .. Len(s) + 2 : h[j] = LastOf(h, s, j),
         \A j \in i + 1 .. Len(s) + 1 : Told(f, s, h, j)
  PROVE  Told(f, s, h, i)
<1> DEFINE n == Len(s)
<1>0. n \in Nat
  BY LenProperties
<1>1. SUFFICES ASSUME NEW l, Before(f, s, i, l)
               PROVE  IF h[i] = "open" THEN f[n].closer \notin {<<>>, <<"nl">>}
                      ELSE /\ f[n].closer \in {<<>>, <<"nl">>}
                           /\ IF h[i] = "blank" THEN f[n].last = l ELSE (f[n].last = Semicolon <=> h[i] = Semicolon)
  BY DEF Told
<1>2. PICK e : e = LexemeEnd(s, i)
  OBVIOUS
<1>3. h[i] = IF h[e] # "blank" THEN h[e] ELSE IF IsSpace(s, i) THEN "blank" ELSE s[i]
  <2>1. i \in 1 .. n + 2 /\ i # n + 1 /\ i # n + 2
    BY <1>0
  <2>2. QED
    BY <1>2, <2>1 DEF LastOf, Open
<1>4. h[n+1] = "blank" /\ h[n+2] = "open"
  <2>1. n + 1 \in 1 .. n + 2 /\ n + 2 \in 1 .. n + 2 /\ n + 2 # n + 1
    BY <1>0
  <2>2. QED
    BY <2>1 DEF LastOf, Open
<1>5. s[i] # "blank" /\ s[i] # "open"
  <2>1. s[i] \in Symbols
    OBVIOUS
  <2>2. QED
    BY <2>1, Zenon DEF Symbols, Quotes, Blank, Letters, Digits, Plain, Taking, Other
<1>6. After(f, s, i, l, e)
  BY <1>1, <1>2, LexemeStep
<1>7. CASE e = n + 2 /\ f[n].closer \notin {<<>>, <<"nl">>}
  BY <1>3, <1>4, <1>7
<1>8. CASE e = n + 1 /\ IsSpace(s, i) /\ f[n].closer = <<"nl">> /\ f[n].last = l
  BY <1>3, <1>4, <1>8
<1>9. ASSUME e \in i + 1 .. n + 1, NEW k, Before(f, s, e, k), Kept(s, i, l, k)
      PROVE  IF h[i] = "open" THEN f[n].closer \notin {<<>>, <<"nl">>}
             ELSE /\ f[n].closer \in {<<>>, <<"nl">>}
                  /\ IF h[i] = "blank" THEN f[n].last = l ELSE (f[n].last = Semicolon <=> h[i] = Semicolon)
  <2>1. IF h[e] = "open" THEN f[n].closer \notin {<<>>, <<"nl">>}
        ELSE /\ f[n].closer \in {<<>>, <<"nl">>}
             /\ IF h[e] = "blank" THEN f[n].last = k ELSE (f[n].last = Semicolon <=> h[e] = Semicolon)
    BY <1>9 DEF Told
  <2>2. CASE h[e] # "blank"
    BY <1>3, <2>1, <2>2
  <2>3. CASE h[e] = "blank" /\ IsSpace(s, i)
    <3>1. k = l
      BY <1>9, <2>3 DEF Kept
    <3>2. QED
      BY <1>3, <2>1, <2>3, <3>1
  <2>4. CASE h[e] = "blank" /\ ~IsSpace(s, i)
    <3>1. k = Semicolon <=> s[i] = Semicolon
      BY <1>9, <2>4 DEF Kept
    <3>2. h[i] = s[i]
      BY <1>3, <2>4
    <3>3. QED
      BY <1>5, <2>1, <2>4, <3>1, <3>2
  <2>5. QED
    BY <2>2, <2>3, <2>4
<1>10. QED
  BY <1>6, <1>7, <1>8, <1>9 DEF After

\* The scan and SQL's lexemes agree on where a statement ends.
LEMMA CompleteIffTerminated ==
  ASSUME NEW s \in Seq(Symbols), Ordinary(s)
  PROVE  IsCompleteStatement(s) <=> Terminated(s)
<1> DEFINE n == Len(s)
<1>0. n \in Nat
  BY LenProperties
<1>1. PICK f : IsScan(f, s, n) /\ Scan(s) = f[n]
  BY <1>0, ScanRuns
<1>2. PICK h : (Terminated(s) <=> h[1] = Semicolon) /\ \A i \in 1 .. n + 2 : h[i] = LastOf(h, s, i)
  <2>1. ~Nested(s)
    BY DEF Ordinary
  <2>2. \A i \in 1 .. n : LexemeEnd(s, i) \in i + 1 .. n + 2
    BY <2>1, LexemeRange
  <2>3. \E h : (Terminated(s) <=> h[1] = ";") /\ \A i \in 1 .. n + 2 : h[i] = LastOf(h, s, i)
    BY <1>0, <2>2, TailRuns
  <2>4. QED
    BY <2>3, Zenon DEF Semicolon
<1> DEFINE T == {k \in Nat : \A j \in n + 1 - k .. n + 1 : Told(f, s, h, j)}
<1>3. 0 \in T
  <2>1. h[n+1] = "blank"
    <3>1. n + 1 \in 1 .. n + 2
      BY <1>0
    <3>2. QED
      BY <1>2, <3>1 DEF LastOf
  <2>2. Told(f, s, h, n + 1)
    <3>1. SUFFICES ASSUME NEW l, Before(f, s, n + 1, l) PROVE f[n].closer = <<>> /\ f[n].last = l
      BY <2>1 DEF Told
    <3>2. (n + 1) - 1 = n /\ n + 1 \notin 1 .. n
      BY <1>0
    <3>3. f[n] = State(<<>>, l, n + 1)
      BY <3>1, <3>2 DEF Before
    <3>4. QED
      BY <3>3 DEF State
  <2>3. \A j \in n + 1 - 0 .. n + 1 : j = n + 1
    BY <1>0
  <2>4. QED
    BY <2>2, <2>3
<1>4. ASSUME NEW k \in 0 .. n - 1, k \in T PROVE k + 1 \in T
  <2>1. PICK i : i = n - k
    OBVIOUS
  <2>2. i \in 1 .. n /\ n + 1 - (k + 1) = i /\ n + 1 - k = i + 1 /\ k + 1 \in Nat
    BY <1>0, <2>1
  <2>3. \A j \in i + 1 .. n + 1 : Told(f, s, h, j)
    BY <1>4, <2>2
  <2>4. Told(f, s, h, i)
    BY <1>1, <1>2, <2>2, <2>3, ToldStep
  <2>5. \A j \in i .. n + 1 : j = i \/ j \in i + 1 .. n + 1
    BY <1>0, <2>2
  <2>6. QED
    BY <2>2, <2>3, <2>4, <2>5
<1>5. Told(f, s, h, 1)
  <2>1. n \in T
    <3> HIDE DEF T
    <3>1. \A k \in 0 .. n - 1 : k \in T => k + 1 \in T
      BY <1>4
    <3>2. \A k \in 0 .. n : k \in T
      BY <1>0, <1>3, <3>1, FromTo
    <3>3. QED
      BY <1>0, <3>2
  <2>2. 1 \in n + 1 - n .. n + 1
    BY <1>0
  <2>3. QED
    BY <2>1, <2>2
<1>6. Before(f, s, 1, "none")
  <2>1. f[1-1] = Begin
    BY <1>1 DEF IsScan
  <2>2. QED
    BY <2>1 DEF Before, Begin, State
<1>7. IsCompleteStatement(s) <=> f[n].closer \in {<<>>, <<"nl">>} /\ f[n].last = Semicolon
  BY <1>1, Zenon DEF IsCompleteStatement, Semicolon
<1>8. "none" # Semicolon /\ "blank" # Semicolon /\ "open" # Semicolon
  BY Zenon DEF Semicolon
<1>9. PICK a : a = f[n]
  OBVIOUS
<1>10. IF h[1] = "open" THEN a.closer \notin {<<>>, <<"nl">>}
       ELSE /\ a.closer \in {<<>>, <<"nl">>}
            /\ IF h[1] = "blank" THEN a.last = "none" ELSE (a.last = Semicolon <=> h[1] = Semicolon)
  BY <1>5, <1>6, <1>9 DEF Told
<1>11. QED
  BY <1>2, <1>7, <1>8, <1>9, <1>10

-----------------------------------------------------------------------------
(* A text without the blanks around it                                     *)

\* t is s without o blanks before it and any after it.
Trimmed(s, t, o) ==
  /\ Len(t) \in Nat /\ o \in Nat /\ o + Len(t) <= Len(s)
  /\ \A i \in 1 .. Len(t) : t[i] = s[o+i]
  /\ \A j \in 1 .. o : s[j] \in Blank
  /\ \A j \in o + Len(t) + 1 .. Len(s) : s[j] \in Blank

\* A set of positions has a greatest one.
LEMMA MaxIsGreatest ==
  ASSUME NEW n \in Nat, NEW T, T \subseteq 1 .. n, T # {}
  PROVE  Max(T) \in T /\ \A k \in T : k <= Max(T)
<1> DEFINE D == {x \in 0 .. n : n - x \in T}
<1>1. PICK k : k \in T
  OBVIOUS
<1>2. n - k \in 0 .. n /\ n - (n - k) = k
  BY <1>1
<1>3. n - k \in D /\ D \subseteq Nat
  BY <1>1, <1>2
<1>4. PICK x \in D : \A y \in D : x <= y
  <2> HIDE DEF D
  <2>1. QED
    BY <1>3, MinIsLeast
<1>5. PICK m : m = n - x
  OBVIOUS
<1>6. m \in T /\ \A j \in T : m >= j
  <2>1. ASSUME NEW j \in T PROVE m >= j
    <3>1. n - j \in 0 .. n /\ n - (n - j) = j
      OBVIOUS
    <3>2. x <= n - j
      BY <1>4, <2>1, <3>1
    <3>3. QED
      BY <1>5, <3>2
  <2>2. QED
    BY <1>4, <1>5, <2>1
<1>7. Max(T) \in T /\ \A j \in T : Max(T) >= j
  BY <1>6 DEF Max
<1>8. QED
  BY <1>7

\* Trim takes the blanks around a text.
LEMMA TrimIs ==
  ASSUME NEW S, NEW s \in Seq(S), Trim(s) # <<>>
  PROVE  Trim(s) \in Seq(S) /\ \E o : Trimmed(s, Trim(s), o)
<1> DEFINE n == Len(s)
<1>0. n \in Nat /\ DOMAIN s = 1 .. n
  BY LenProperties
<1>1. Solid(s) # {}
  BY DEF Trim
<1>2. Solid(s) \subseteq 1 .. n /\ Solid(s) \subseteq Nat
  BY <1>0 DEF Solid
<1>3. PICK p : p = Min(Solid(s))
  OBVIOUS
<1>4. PICK q : q = Max(Solid(s))
  OBVIOUS
<1>5. p \in Solid(s) /\ \A k \in Solid(s) : p <= k
  BY <1>1, <1>2, <1>3, MinIsLeast
<1>6. q \in Solid(s) /\ \A k \in Solid(s) : k <= q
  BY <1>0, <1>1, <1>2, <1>4, MaxIsGreatest
<1>7. p \in 1 .. n /\ q \in p .. n /\ p \in 1 .. n + 1 /\ q \in p - 1 .. n
  BY <1>0, <1>2, <1>5, <1>6
<1>8. Trim(s) = SubSeq(s, p, q)
  BY <1>1, <1>3, <1>4 DEF Trim
<1>9. PICK t : t = SubSeq(s, p, q)
  OBVIOUS
<1>10. PICK o : o = p - 1
  OBVIOUS
<1>11. o \in Nat /\ q - p + 1 \in Nat /\ o + (q - p + 1) = q /\ o + 1 = p
  BY <1>0, <1>7, <1>10
<1>12. t \in Seq(S) /\ Len(t) = q - p + 1 /\ \A i \in 1 .. q - p + 1 : t[i] = s[p+i-1]
  <2>1. /\ SubSeq(s, p, q) \in Seq(S) /\ Len(SubSeq(s, p, q)) = q - p + 1
        /\ \A i \in 1 .. q - p + 1 : SubSeq(s, p, q)[i] = s[p+i-1]
    <3>1. Len(s) = n /\ p \in 1 .. Len(s) + 1 /\ q \in p - 1 .. Len(s)
      BY <1>7
    <3>2. IF p <= q + 1 THEN q - p + 1 = q - p + 1 ELSE TRUE
      OBVIOUS
    <3>3. QED
      BY <1>7, <3>1, SubSeqProperties
  <2>2. QED
    BY <1>9, <2>1
<1>13. \A i \in 1 .. q - p + 1 : p + i - 1 = o + i
  BY <1>7, <1>10
<1>14. \A j \in 1 .. n : j \notin Solid(s) => s[j] \in Blank
  BY <1>0 DEF Solid
<1>15. \A j \in 1 .. o : j \in 1 .. n /\ ~(p <= j)
  BY <1>0, <1>7, <1>10
<1>16. \A j \in q + 1 .. n : j \in 1 .. n /\ ~(j <= q)
  BY <1>0, <1>7
<1>17. Trimmed(s, t, o)
  <2>1. \A j \in 1 .. o : s[j] \in Blank
    BY <1>5, <1>14, <1>15
  <2>2. \A j \in q + 1 .. n : s[j] \in Blank
    BY <1>6, <1>14, <1>16
  <2>3. Len(t) \in Nat /\ o \in Nat /\ o + Len(t) = q /\ q <= n
    BY <1>7, <1>11, <1>12
  <2>4. \A i \in 1 .. Len(t) : t[i] = s[o+i]
    BY <1>12, <1>13
  <2>5. QED
    BY <2>1, <2>2, <2>3, <2>4 DEF Trimmed
<1>18. QED
  BY <1>8, <1>9, <1>12, <1>17

\* No pattern but the end of a line ends in a blank.
LEMMA NoBlankEnd ==
  ASSUME NEW d, Pattern(d), d[Len(d)] \in Blank
  PROVE  d = <<"nl">>
<1>1. CASE Tagged(d)
  <2>1. d[Len(d)] = "$"
    BY <1>1 DEF Tagged
  <2>2. "$" \notin Blank
    BY Zenon DEF Blank
  <2>3. QED
    BY <2>1, <2>2
<1>2. CASE d \in {<<q>> : q \in Quotes}
  <2>1. PICK q \in Quotes : d = <<q>>
    BY <1>2
  <2>2. d[Len(d)] = q
    BY <2>1
  <2>3. q \notin Blank
    BY Zenon DEF Quotes, Blank
  <2>4. QED
    BY <2>2, <2>3
<1>3. CASE d \in {<<"-", "-">>, <<"/", "*">>, <<"*", "/">>}
  <2>1. d[Len(d)] \in {"-", "*", "/"}
    BY <1>3
  <2>2. "-" \notin Blank /\ "*" \notin Blank /\ "/" \notin Blank
    BY Zenon DEF Blank
  <2>3. QED
    BY <2>1, <2>2
<1>4. QED
  BY <1>1, <1>2, <1>3 DEF Pattern, Marks

\* What begins in a trimmed text is what begins there in the whole.
LEMMA HasTrimmed ==
  ASSUME NEW S, NEW s \in Seq(S), NEW t \in Seq(S), NEW o, Trimmed(s, t, o),
         NEW i \in 1 .. Len(t) + 1, NEW d, Pattern(d), i <= Len(t) \/ d # <<"nl">>
  PROVE  Has(t, i, d) <=> Has(s, o + i, d)
<1>1. Len(d) \in Nat \ {0} /\ Len(s) \in Nat /\ Len(t) \in Nat /\ o \in Nat /\ o + Len(t) <= Len(s)
  BY PatternType, LenProperties DEF Trimmed
<1>2. i \in Nat \ {0} /\ o + i \in Nat \ {0}
  BY <1>1
<1>3. Has(t, i, d) <=> i + Len(d) - 1 <= Len(t) /\ \A k \in 1 .. Len(d) : t[i+k-1] = d[k]
  BY <1>2, HasIs
<1>4. Has(s, o + i, d) <=> (o + i) + Len(d) - 1 <= Len(s) /\ \A k \in 1 .. Len(d) : s[(o+i)+k-1] = d[k]
  <2>1. PICK x \in Nat \ {0} : x = o + i
    BY <1>2
  <2>2. Has(s, x, d) <=> x + Len(d) - 1 <= Len(s) /\ \A k \in 1 .. Len(d) : s[x+k-1] = d[k]
    BY HasIs
  <2>3. QED
    BY <2>1, <2>2
<1>5. CASE i + Len(d) - 1 <= Len(t)
  <2>1. \A k \in 1 .. Len(d) : i + k - 1 \in 1 .. Len(t) /\ o + (i + k - 1) = (o + i) + k - 1
    BY <1>1, <1>2, <1>5
  <2>2. \A k \in 1 .. Len(d) : t[i+k-1] = s[(o+i)+k-1]
    BY <2>1 DEF Trimmed
  <2>3. (o + i) + Len(d) - 1 <= Len(s)
    BY <1>1, <1>2, <1>5
  <2>4. QED
    BY <1>3, <1>4, <1>5, <2>2, <2>3
<1>6. CASE ~(i + Len(d) - 1 <= Len(t))
  <2>1. ~Has(t, i, d)
    BY <1>3, <1>6
  <2>2. SUFFICES ASSUME Has(s, o + i, d) PROVE FALSE
    BY <2>1
  <2>3. PICK e : e = (o + i) + Len(d) - 1
    OBVIOUS
  <2>4. e \in o + Len(t) + 1 .. Len(s)
    BY <1>1, <1>2, <1>4, <1>6, <2>2, <2>3
  <2>5. s[e] \in Blank
    BY <2>4 DEF Trimmed
  <2>6. s[e] = d[Len(d)]
    <3>1. Len(d) \in 1 .. Len(d)
      BY <1>1
    <3>2. QED
      BY <1>4, <2>2, <2>3, <3>1
  <2>7. d = <<"nl">>
    BY <2>5, <2>6, NoBlankEnd
  <2>8. Len(d) = 1
    BY <2>7
  <2>9. QED
    BY <1>1, <1>2, <1>6, <2>7, <2>8
<1>7. QED
  BY <1>5, <1>6

\* And no other begins with one.
LEMMA NoBlankBegin ==
  ASSUME NEW d, Pattern(d), d[1] \in Blank
  PROVE  d = <<"nl">>
<1>1. CASE Tagged(d)
  <2>1. d[1] = "$"
    BY <1>1 DEF Tagged
  <2>2. "$" \notin Blank
    BY Zenon DEF Blank
  <2>3. QED
    BY <2>1, <2>2
<1>2. CASE d \in {<<q>> : q \in Quotes}
  <2>1. PICK q \in Quotes : d = <<q>>
    BY <1>2
  <2>2. d[1] = q
    BY <2>1
  <2>3. q \notin Blank
    BY Zenon DEF Quotes, Blank
  <2>4. QED
    BY <2>2, <2>3
<1>3. CASE d \in {<<"-", "-">>, <<"/", "*">>, <<"*", "/">>}
  <2>1. d[1] \in {"-", "*", "/"}
    BY <1>3
  <2>2. "-" \notin Blank /\ "*" \notin Blank /\ "/" \notin Blank
    BY Zenon DEF Blank
  <2>3. QED
    BY <2>1, <2>2
<1>4. QED
  BY <1>1, <1>2, <1>3 DEF Pattern, Marks

\* The same state of two scans, the second of which is o positions ahead.
Ahead(u, v, o) == \E c, l, j : u = State(c, l, j) /\ v = State(c, l, o + j)

\* A step of the scan moves along with the text.
LEMMA StepTrimmed ==
  ASSUME NEW S, NEW s \in Seq(S), NEW t \in Seq(S), NEW o, Trimmed(s, t, o), NEW i \in 1 .. Len(t),
         NEW c, c = <<>> \/ Pattern(c), NEW l, NEW j \in Nat
  PROVE  Ahead(Step(t, State(c, l, j), i), Step(s, State(c, l, o + j), o + i), o)
<1>0. /\ Len(s) \in Nat /\ Len(t) \in Nat /\ o \in Nat /\ o + Len(t) <= Len(s)
      /\ i \in 1 .. Len(t) + 1 /\ i + 1 \in 1 .. Len(t) + 1 /\ o + i \in 1 .. Len(s) /\ t[i] = s[o+i]
  <2>1. Len(s) \in Nat /\ Len(t) \in Nat /\ o \in Nat /\ o + Len(t) <= Len(s)
    BY LenProperties DEF Trimmed
  <2>2. QED
    BY <2>1 DEF Trimmed
<1>1. PICK a : a = State(c, l, j)
  OBVIOUS
<1>2. PICK b : b = State(c, l, o + j)
  OBVIOUS
<1>3. PICK x : x = o + i
  OBVIOUS
<1>4. /\ a.closer = c /\ a.last = l /\ a.at = j /\ b.closer = c /\ b.last = l /\ b.at = o + j
      /\ x < b.at <=> i < a.at
  BY <1>0, <1>1, <1>2, <1>3 DEF State
<1>5. \A d : Pattern(d) => (Has(t, i, d) <=> Has(s, x, d))
  <2>1. ASSUME NEW d, Pattern(d) PROVE Has(t, i, d) <=> Has(s, o + i, d)
    BY <1>0, <2>1, HasTrimmed
  <2>2. QED
    BY <1>3, <2>1
<1>6. x \in 1 .. Len(s) /\ t[i] = s[x]
  BY <1>0, <1>3
<1>7. ASSUME NEW k \in Nat, NEW e, NEW m, NEW u, NEW v, u = State(e, m, i + k), v = State(e, m, x + k)
      PROVE  Ahead(u, v, o)
  <2>1. o + (i + k) = x + k
    BY <1>0, <1>3
  <2>2. v = State(e, m, o + (i + k))
    BY <1>7, <2>1
  <2>3. QED
    BY <1>7, <2>2 DEF Ahead
<1>8. CASE i < a.at
  <2>1. Step(t, a, i) = a /\ Step(s, b, x) = b
    BY <1>4, <1>8 DEF Step
  <2>2. Ahead(a, b, o)
    BY <1>1, <1>2 DEF Ahead
  <2>3. QED
    BY <1>1, <1>2, <1>3, <2>1, <2>2
<1>9. CASE ~(i < a.at) /\ c = <<>>
  <2>1. Step(t, a, i) = ScanTop(t, a, i) /\ Step(s, b, x) = ScanTop(s, b, x)
    BY <1>4, <1>9 DEF Step
  <2>2. Ahead(ScanTop(t, a, i), ScanTop(s, b, x), o)
    <3>1. CASE Has(t, i, <<"-", "-">>)
      <4>1. Has(s, x, <<"-", "-">>)
        BY <1>5, <3>1 DEF Pattern, Marks
      <4>2. ScanTop(t, a, i) = Inside(a, <<"nl">>, 2, i) /\ ScanTop(s, b, x) = Inside(b, <<"nl">>, 2, x)
        BY <1>6, <3>1, <4>1, TopDashes
      <4>3. ScanTop(t, a, i) = State(<<"nl">>, l, i + 2) /\ ScanTop(s, b, x) = State(<<"nl">>, l, x + 2)
        BY <1>1, <1>2, <4>2 DEF Inside, State
      <4>4. QED
        BY <1>7, <4>3
    <3>2. CASE Has(t, i, <<"/", "*">>)
      <4>1. Has(s, x, <<"/", "*">>)
        BY <1>5, <3>2 DEF Pattern, Marks
      <4>2. ScanTop(t, a, i) = Inside(a, <<"*", "/">>, 2, i) /\ ScanTop(s, b, x) = Inside(b, <<"*", "/">>, 2, x)
        BY <1>6, <3>2, <4>1, TopSlash
      <4>3. ScanTop(t, a, i) = State(<<"*", "/">>, l, i + 2) /\ ScanTop(s, b, x) = State(<<"*", "/">>, l, x + 2)
        BY <1>1, <1>2, <4>2 DEF Inside, State
      <4>4. QED
        BY <1>7, <4>3
    <3>3. ASSUME NEW d \in DollarsAt(t, i) PROVE Ahead(ScanTop(t, a, i), ScanTop(s, b, x), o)
      <4>1. Tagged(d) /\ Has(t, i, d) /\ Pattern(d) /\ Len(d) \in Nat
        BY DollarIs DEF Pattern, Tagged
      <4>2. d \in DollarsAt(s, x)
        BY <1>5, <1>6, <4>1, DollarIs
      <4>3. ScanTop(t, a, i) = [Inside(a, d, Len(d), i) EXCEPT !.last = "$"]
        BY TopDollar
      <4>4. ScanTop(s, b, x) = [Inside(b, d, Len(d), x) EXCEPT !.last = "$"]
        BY <1>6, <4>2, TopDollar
      <4>5. ScanTop(t, a, i) = State(d, "$", i + Len(d)) /\ ScanTop(s, b, x) = State(d, "$", x + Len(d))
        BY <1>1, <1>2, <4>3, <4>4 DEF Inside, State
      <4>6. QED
        BY <1>7, <4>1, <4>5
    <3>4. CASE t[i] \in Quotes
      <4>1. ScanTop(t, a, i) = [Inside(a, <<t[i]>>, 1, i) EXCEPT !.last = t[i]]
        BY <3>4, TopQuote
      <4>2. ScanTop(s, b, x) = [Inside(b, <<s[x]>>, 1, x) EXCEPT !.last = s[x]]
        BY <1>6, <3>4, TopQuote
      <4>3. ScanTop(t, a, i) = State(<<t[i]>>, t[i], i + 1) /\ ScanTop(s, b, x) = State(<<t[i]>>, t[i], x + 1)
        BY <1>1, <1>2, <1>6, <4>1, <4>2 DEF Inside, State
      <4>4. QED
        BY <1>7, <4>3
    <3>5. CASE t[i] \in Blank
      <4>1. ScanTop(t, a, i) = [a EXCEPT !.at = i + 1] /\ ScanTop(s, b, x) = [b EXCEPT !.at = x + 1]
        BY <1>6, <3>5, TopBlank
      <4>2. ScanTop(t, a, i) = State(c, l, i + 1) /\ ScanTop(s, b, x) = State(c, l, x + 1)
        BY <1>1, <1>2, <4>1 DEF State
      <4>3. QED
        BY <1>7, <4>2
    <3>6. CASE Unmarked(t, i) /\ t[i] \notin Blank
      <4>1. Unmarked(s, x)
        <5>1. ~Has(s, x, <<"-", "-">>) /\ ~Has(s, x, <<"/", "*">>)
          BY <1>5, <3>6 DEF Pattern, Marks, Unmarked
        <5>2. \A d : d \notin DollarsAt(s, x)
          <6>1. SUFFICES ASSUME NEW d, d \in DollarsAt(s, x) PROVE FALSE
            OBVIOUS
          <6>2. Tagged(d) /\ Has(s, x, d) /\ Pattern(d)
            BY <1>6, <6>1, DollarIs DEF Pattern
          <6>3. d \in DollarsAt(t, i)
            BY <1>5, <6>2, DollarIs
          <6>4. QED
            BY <3>6, <6>3 DEF Unmarked
        <5>3. QED
          BY <1>6, <3>6, <5>1, <5>2 DEF Unmarked
      <4>2. ScanTop(t, a, i) = [a EXCEPT !.at = i + 1, !.last = t[i]]
        BY <3>6, TopPlain
      <4>3. ScanTop(s, b, x) = [b EXCEPT !.at = x + 1, !.last = s[x]]
        BY <1>6, <3>6, <4>1, TopPlain
      <4>4. ScanTop(t, a, i) = State(c, t[i], i + 1) /\ ScanTop(s, b, x) = State(c, t[i], x + 1)
        BY <1>1, <1>2, <1>6, <4>2, <4>3 DEF State
      <4>5. QED
        BY <1>7, <4>4
    <3>7. QED
      BY <3>1, <3>2, <3>3, <3>4, <3>5, <3>6 DEF Unmarked
  <2>3. QED
    BY <1>1, <1>2, <1>3, <2>1, <2>2
<1>10. CASE ~(i < a.at) /\ c # <<>>
  <2>1. Step(t, a, i) = ScanInside(t, a, i) /\ Step(s, b, x) = ScanInside(s, b, x) /\ Pattern(c) /\ Len(c) \in Nat
    BY <1>4, <1>10, PatternType DEF Step
  <2>2. Has(t, i, c) <=> Has(s, x, c)
    BY <1>5, <2>1
  <2>3. Doubled(t, i) <=> Doubled(s, x)
    <3>1. CASE t[i] \in Quotes
      <4>1. PICK d : d = <<t[i]>>
        OBVIOUS
      <4>2. Pattern(d) /\ d[1] = t[i]
        BY <3>1, <4>1 DEF Pattern, Marks
      <4>3. d # <<"nl">>
        <5>1. t[i] # "nl"
          BY <3>1, Zenon DEF Quotes
        <5>2. QED
          BY <4>1, <4>2, <5>1
      <4>4. PICK y : y = i + 1
        OBVIOUS
      <4>5. y \in 1 .. Len(t) + 1 /\ o + y = x + 1
        BY <1>0, <1>3, <4>4
      <4>6. Has(t, y, d) <=> Has(s, o + y, d)
        BY <4>2, <4>3, <4>5, HasTrimmed
      <4>7. QED
        BY <1>6, <3>1, <4>1, <4>4, <4>5, <4>6 DEF Doubled
    <3>2. CASE t[i] \notin Quotes
      BY <1>6, <3>2 DEF Doubled
    <3>3. QED
      BY <3>1, <3>2
  <2>4. /\ a.closer = <<t[i]>> /\ t[i] \in Quotes /\ Has(t, i + 1, a.closer) <=> c = <<t[i]>> /\ Doubled(t, i)
        /\ b.closer = <<s[x]>> /\ s[x] \in Quotes /\ Has(s, x + 1, b.closer) <=> c = <<t[i]>> /\ Doubled(s, x)
    BY <1>4, <1>6 DEF Doubled
  <2>5. CASE c = <<t[i]>> /\ Doubled(t, i)
    <3>1. ScanInside(t, a, i) = [a EXCEPT !.at = i + 2] /\ ScanInside(s, b, x) = [b EXCEPT !.at = x + 2]
      BY <2>3, <2>4, <2>5 DEF ScanInside
    <3>2. ScanInside(t, a, i) = State(c, l, i + 2) /\ ScanInside(s, b, x) = State(c, l, x + 2)
      BY <1>1, <1>2, <3>1 DEF State
    <3>3. QED
      BY <1>1, <1>2, <1>3, <1>7, <2>1, <3>2
  <2>6. CASE ~(c = <<t[i]>> /\ Doubled(t, i)) /\ Has(t, i, c)
    <3>1. ScanInside(t, a, i) = Inside(a, <<>>, Len(c), i) /\ ScanInside(s, b, x) = Inside(b, <<>>, Len(c), x)
      BY <1>4, <2>2, <2>3, <2>4, <2>6 DEF ScanInside
    <3>2. ScanInside(t, a, i) = State(<<>>, l, i + Len(c)) /\ ScanInside(s, b, x) = State(<<>>, l, x + Len(c))
      BY <1>1, <1>2, <3>1 DEF State, Inside
    <3>3. QED
      BY <1>1, <1>2, <1>3, <1>7, <2>1, <3>2
  <2>7. CASE ~(c = <<t[i]>> /\ Doubled(t, i)) /\ ~Has(t, i, c)
    <3>1. ScanInside(t, a, i) = [a EXCEPT !.at = i + 1] /\ ScanInside(s, b, x) = [b EXCEPT !.at = x + 1]
      BY <1>4, <2>2, <2>3, <2>4, <2>7 DEF ScanInside
    <3>2. ScanInside(t, a, i) = State(c, l, i + 1) /\ ScanInside(s, b, x) = State(c, l, x + 1)
      BY <1>1, <1>2, <3>1 DEF State
    <3>3. QED
      BY <1>1, <1>2, <1>3, <1>7, <2>1, <3>2
  <2>8. QED
    BY <2>5, <2>6, <2>7
<1>11. QED
  BY <1>8, <1>9, <1>10

\* Over blanks the scan passes, noting nothing; a line comment may end there.
LEMMA OverBlanks ==
  ASSUME NEW S, NEW s \in Seq(S), NEW f, IsScan(f, s, Len(s)), NEW m \in 0 .. Len(s),
         \A j \in m + 1 .. Len(s) : s[j] \in Blank
  PROVE  /\ f[Len(s)].last = f[m].last
         /\ f[Len(s)].closer \in {<<>>, <<"nl">>} => f[m].closer \in {<<>>, <<"nl">>}
<1> DEFINE n == Len(s)
           T == {j \in Nat : /\ f[j].last = f[m].last
                             /\ f[j].closer \in {<<>>, <<"nl">>} => f[m].closer \in {<<>>, <<"nl">>}}
<1>0. n \in Nat /\ m \in Nat
  BY LenProperties
<1>1. m \in T
  BY <1>0
<1>2. ASSUME NEW k \in m .. n - 1, k \in T PROVE k + 1 \in T
  <2>1. PICK j : j = k + 1
    OBVIOUS
  <2>2. j \in 1 .. n /\ j - 1 = k /\ k \in 0 .. n /\ j \in m + 1 .. n /\ j \in Nat \ {0}
    BY <1>0, <2>1
  <2>3. PICK a : a = f[k]
    OBVIOUS
  <2>4. Fine(a, s, k)
    BY <2>2, <2>3, ScanFine
  <2>5. f[j] = Step(s, a, j)
    BY <2>2, <2>3 DEF IsScan
  <2>6. s[j] \in Blank /\ s[j] \notin Quotes
    <3>1. s[j] \in Blank
      BY <2>2
    <3>2. QED
      BY <3>1, Zenon DEF Blank, Quotes
  <2>7. a.closer \in {<<>>, <<"nl">>} => f[m].closer \in {<<>>, <<"nl">>}
    BY <1>2, <2>3
  <2>8. a.last = f[m].last
    BY <1>2, <2>3
  <2>9. CASE f[j] = a
    BY <2>1, <2>2, <2>7, <2>8, <2>9
  <2>10. CASE f[j] = [a EXCEPT !.at = j + 1]
    <3>1. f[j].last = a.last /\ f[j].closer = a.closer
      BY <2>4, <2>10 DEF Fine
    <3>2. QED
      BY <2>1, <2>2, <2>7, <2>8, <3>1
  <2>11. CASE f[j] = Inside(a, <<>>, Len(a.closer), j) /\ a.closer # <<>> /\ Has(s, j, a.closer)
    <3>1. f[j].last = a.last
      BY <2>4, <2>11 DEF Fine, Inside
    <3>2. Pattern(a.closer)
      BY <2>4, <2>11 DEF Fine
    <3>3. a.closer = <<"nl">>
      <4>1. a.closer[1] \in Blank
        BY <2>2, <2>6, <2>11, <3>2, HasFirst
      <4>2. QED
        BY <3>2, <4>1, NoBlankBegin
    <3>4. QED
      BY <2>1, <2>2, <2>7, <2>8, <3>1, <3>3
  <2>12. QED
    <3>1. CASE j < a.at
      BY <2>5, <2>9, <3>1 DEF Step
    <3>2. CASE ~(j < a.at) /\ a.closer = <<>>
      <4>1. f[j] = ScanTop(s, a, j)
        BY <2>5, <3>2 DEF Step
      <4>2. ScanTop(s, a, j) = [a EXCEPT !.at = j + 1]
        BY <2>2, <2>6, TopBlank
      <4>3. QED
        BY <2>10, <4>1, <4>2
    <3>3. CASE ~(j < a.at) /\ a.closer # <<>>
      <4>1. f[j] = ScanInside(s, a, j)
        BY <2>5, <3>3 DEF Step
      <4>2. CASE Has(s, j, a.closer)
        <5>1. f[j] = Inside(a, <<>>, Len(a.closer), j)
          BY <2>6, <4>1, <4>2 DEF ScanInside
        <5>2. QED
          BY <2>11, <3>3, <4>2, <5>1
      <4>3. CASE ~Has(s, j, a.closer)
        <5>1. f[j] = [a EXCEPT !.at = j + 1]
          BY <2>6, <4>1, <4>3 DEF ScanInside
        <5>2. QED
          BY <2>10, <5>1
      <4>4. QED
        BY <4>2, <4>3
    <3>4. QED
      BY <3>1, <3>2, <3>3
<1>3. n \in T
  <2> HIDE DEF T
  <2>1. \A k \in m .. n - 1 : k \in T => k + 1 \in T
    BY <1>2
  <2>2. \A k \in m .. n : k \in T
    BY <1>0, <1>1, <2>1, FromTo
  <2>3. n \in m .. n
    BY <1>0
  <2>4. QED
    BY <2>2, <2>3
<1>4. QED
  BY <1>3

\* A complete statement is one without the blanks around it.
LEMMA TrimmedComplete ==
  ASSUME NEW S, NEW s \in Seq(S), IsCompleteStatement(s), Trim(s) # <<>>
  PROVE  IsCompleteStatement(Trim(s))
<1>1. PICK t : t = Trim(s)
  OBVIOUS
<1>2. t \in Seq(S) /\ \E o : Trimmed(s, t, o)
  BY <1>1, TrimIs
<1>3. PICK o : Trimmed(s, t, o)
  BY <1>2
<1> DEFINE n == Len(s)
           m == Len(t)
<1>4. n \in Nat /\ m \in Nat /\ o \in Nat /\ o + m \in 0 .. n /\ o <= n
  <2>1. n \in Nat
    BY LenProperties
  <2>2. QED
    BY <1>3, <2>1 DEF Trimmed
<1>5. PICK f : IsScan(f, s, n) /\ Scan(s) = f[n]
  BY <1>4, ScanRuns
<1>6. PICK g : IsScan(g, t, m) /\ Scan(t) = g[m]
  BY <1>4, ScanRuns
<1>7. f[o] = State(<<>>, "none", o + 1)
  <2> DEFINE T == {k \in Nat : f[k] = State(<<>>, "none", k + 1)}
  <2>1. 0 \in T
    BY <1>5 DEF IsScan, Begin, State
  <2>2. ASSUME NEW k \in 0 .. o - 1, k \in T PROVE k + 1 \in T
    <3>1. PICK j : j = k + 1
      OBVIOUS
    <3>2. j \in 1 .. n /\ j \in 1 .. o /\ j - 1 = k /\ j \in Nat
      BY <1>4, <3>1
    <3>3. PICK a : a = State(<<>>, "none", j)
      OBVIOUS
    <3>4. a.closer = <<>> /\ ~(j < a.at)
      BY <3>2, <3>3 DEF State
    <3>5. f[j] = Step(s, a, j)
      BY <1>5, <2>2, <3>1, <3>2, <3>3 DEF IsScan
    <3>6. f[j] = ScanTop(s, a, j)
      BY <3>4, <3>5 DEF Step
    <3>7. s[j] \in Blank
      BY <1>3, <3>2 DEF Trimmed
    <3>8. ScanTop(s, a, j) = [a EXCEPT !.at = j + 1]
      BY <3>2, <3>7, TopBlank
    <3>9. f[j] = State(<<>>, "none", j + 1)
      BY <3>3, <3>6, <3>8 DEF State
    <3>10. QED
      BY <3>1, <3>2, <3>9
  <2>3. o \in T
    <3> HIDE DEF T
    <3>1. \A k \in 0 .. o - 1 : k \in T => k + 1 \in T
      BY <2>2
    <3>2. \A k \in 0 .. o : k \in T
      BY <1>4, <2>1, <3>1, FromTo
    <3>3. QED
      BY <1>4, <3>2
  <2>4. QED
    BY <2>3
<1>8. Ahead(g[m], f[o+m], o)
  <2> DEFINE T == {k \in Nat : Ahead(g[k], f[o+k], o)}
  <2>1. 0 \in T
    <3>1. g[0] = State(<<>>, "none", 1)
      BY <1>6 DEF IsScan, Begin, State
    <3>2. o + 0 = o
      BY <1>4
    <3>3. QED
      BY <1>7, <3>1, <3>2 DEF Ahead
  <2>2. ASSUME NEW k \in 0 .. m - 1, k \in T PROVE k + 1 \in T
    <3>1. PICK i : i = k + 1
      OBVIOUS
    <3>2. i \in 1 .. m /\ i - 1 = k /\ k \in 0 .. m /\ o + i \in 1 .. n /\ (o + i) - 1 = o + k /\ i \in Nat
      BY <1>4, <3>1
    <3>3. PICK c, l, j : g[k] = State(c, l, j) /\ f[o+k] = State(c, l, o + j)
      BY <2>2 DEF Ahead
    <3>4. Fine(g[k], t, k)
      BY <1>2, <1>6, <3>2, ScanFine
    <3>5. (c = <<>> \/ Pattern(c)) /\ j \in Nat
      <4>1. g[k].closer = c /\ g[k].at = j
        BY <3>3 DEF State
      <4>2. QED
        BY <1>4, <3>2, <3>4, <4>1 DEF Fine
    <3>6. g[i] = Step(t, State(c, l, j), i)
      BY <1>6, <3>2, <3>3 DEF IsScan
    <3>7. f[o+i] = Step(s, State(c, l, o + j), o + i)
      BY <1>5, <3>2, <3>3 DEF IsScan
    <3>8. Ahead(Step(t, State(c, l, j), i), Step(s, State(c, l, o + j), o + i), o)
      BY <1>2, <1>3, <3>2, <3>5, StepTrimmed
    <3>9. QED
      BY <3>1, <3>2, <3>6, <3>7, <3>8
  <2>3. m \in T
    <3> HIDE DEF T
    <3>1. \A k \in 0 .. m - 1 : k \in T => k + 1 \in T
      BY <2>2
    <3>2. \A k \in 0 .. m : k \in T
      BY <1>4, <2>1, <3>1, FromTo
    <3>3. QED
      BY <1>4, <3>2
  <2>4. QED
    BY <2>3
<1>9. g[m].closer = f[o+m].closer /\ g[m].last = f[o+m].last
  BY <1>8 DEF Ahead, State
<1>10. /\ f[n].last = f[o+m].last
       /\ f[n].closer \in {<<>>, <<"nl">>} => f[o+m].closer \in {<<>>, <<"nl">>}
  <2>1. \A j \in o + m + 1 .. n : s[j] \in Blank
    BY <1>3 DEF Trimmed
  <2>2. PICK x : x = o + m
    OBVIOUS
  <2>3. x \in 0 .. Len(s) /\ \A j \in x + 1 .. Len(s) : s[j] \in Blank
    BY <1>4, <2>1, <2>2
  <2>4. /\ f[Len(s)].last = f[x].last
        /\ f[Len(s)].closer \in {<<>>, <<"nl">>} => f[x].closer \in {<<>>, <<"nl">>}
    BY <1>5, <2>3, OverBlanks
  <2>5. QED
    BY <2>2, <2>4
<1>11. IsCompleteStatement(s) <=> f[n].closer \in {<<>>, <<"nl">>} /\ f[n].last = Semicolon
  BY <1>5, Zenon DEF IsCompleteStatement, Semicolon
<1>12. IsCompleteStatement(t) <=> g[m].closer \in {<<>>, <<"nl">>} /\ g[m].last = Semicolon
  BY <1>6, Zenon DEF IsCompleteStatement, Semicolon
<1>13. QED
  BY <1>1, <1>9, <1>10, <1>11, <1>12

-----------------------------------------------------------------------------
(* What the loop makes of a line                                           *)

\* Of a word alone it makes no SQL but the one that begins a transaction.
LEMMA BareIs ==
  ASSUME NEW word \in Slashed, Bare(word).kind = "sql"
  PROVE  Bare(word) = Sql(<<"BEGIN">>)
<1>1. word \in {"\\q", "\\x", "\\edit", "\\begin", "\\foo"} \/ word \in Taking
  BY Zenon DEF Slashed, Plain
<1>2. word \in Taking => word \notin {"\\q", "\\x", "\\edit", "\\begin", "\\foo"}
  BY Zenon DEF Taking
<1>3. QED
  BY <1>1, <1>2 DEF Bare, Usage

\* Of a command and its arguments it makes none.
LEMMA WithArgsIs ==
  ASSUME NEW word \in Taking, NEW rest
  PROVE  WithArgs(word, rest).kind # "sql"
<1>1. ParseSaveArgs(rest).kind # "sql"
  BY DEF ParseSaveArgs, Usage
<1>2. ASSUME NEW w \in {"\\run", "\\unsave"} PROVE SingleNameToken(w, rest).kind # "sql"
  BY DEF SingleNameToken, Usage
<1>3. ParseExportArgs(rest).kind # "sql"
  BY DEF ParseExportArgs, Usage
<1>4. word \in {"\\save", "\\run", "\\unsave", "\\export", "\\explain"}
  BY Zenon DEF Taking
<1>5. QED
  BY <1>1, <1>2, <1>3, <1>4 DEF WithArgs

\* So what goes to the server is the line itself, when it begins no command.
LEMMA ParseIs ==
  ASSUME NEW line, Parse(line).kind = "sql"
  PROVE  \/ Parse(line) = Sql(<<"BEGIN">>)
         \/ line # <<>> /\ line[1] \notin Slashed /\ Parse(line) = Sql(line)
<1>1. CASE line = <<>> \/ line = <<"exit">>
  BY <1>1 DEF Parse
<1>2. CASE ~(line = <<>> \/ line = <<"exit">>) /\ line[1] \notin Slashed
  BY <1>2 DEF Parse
<1>3. CASE ~(line = <<>> \/ line = <<"exit">>) /\ line[1] \in Slashed
  BY <1>3, BareIs, WithArgsIs DEF Parse
<1>4. QED
  BY <1>1, <1>2, <1>3

-----------------------------------------------------------------------------
(* The editor                                                              *)

\* What is typed is a text of the symbols there are.
IsText == buffer \in Seq(Symbols)

\* Every step leaves it one.
LEMMA TextAlways == Spec => []IsText
<1>1. Init => IsText
  <2>1. <<>> \in Seq(Symbols)
    OBVIOUS
  <2>2. QED
    BY <2>1 DEF Init, IsText
<1>2. IsText /\ [Next]_vars => IsText'
  <2>1. SUFFICES ASSUME buffer \in Seq(Symbols), [Next]_vars PROVE buffer' \in Seq(Symbols)
    BY DEF IsText
  <2>2. ASSUME NEW k \in Symbols, Type(Append(buffer, k)) PROVE buffer' \in Seq(Symbols)
    BY <2>1, <2>2 DEF Type
  <2>3. ASSUME buffer' = <<>> PROVE buffer' \in Seq(Symbols)
    BY <2>3
  <2>4. CASE Press
    <3>1. PICK k \in Symbols : Type(Append(buffer, k))
      BY <2>4 DEF Press
    <3>2. QED
      BY <2>2, <3>1
  <2>5. CASE Continue
    <3>1. PICK k \in Symbols : k = "nl"
      BY Zenon DEF Symbols, Blank
    <3>2. QED
      BY <2>2, <2>5, <3>1 DEF Continue
  <2>6. CASE Submit
    BY <2>3, <2>6 DEF Submit, Hand
  <2>7. CASE SubmitEdited
    BY <2>3, <2>7 DEF SubmitEdited, Hand
  <2>8. CASE Interrupt
    BY <2>3, <2>8 DEF Interrupt, Hand
  <2>9. CASE Start
    BY <2>3, <2>9 DEF Start
  <2>10. CASE UNCHANGED vars
    BY <2>1, <2>10 DEF vars
  <2>11. QED
    BY <2>1, <2>4, <2>5, <2>6, <2>7, <2>8, <2>9, <2>10 DEF Next
<1>3. QED
  BY <1>1, <1>2, PTL DEF Spec

\* Enter is never refused for good: whatever is typed, pasted, continued or left of
\* an earlier try, one closer of it and a semicolon get it submitted (the validator
\* and is_complete_statement).
THEOREM EnterGetsThrough == Spec => []NeverTrapped
<1>1. IsText => NeverTrapped
  <2>1. SUFFICES ASSUME buffer \in Seq(Symbols)
                 PROVE  \E c \in Closers(buffer) : Validates(buffer \o c \o <<Semicolon>>)
    BY Zenon DEF IsText, NeverTrapped, Semicolon
  <2>2. PICK c \in Closers(buffer) : IsCompleteStatement(buffer \o c \o <<Semicolon>>)
    BY <2>1, AlwaysCompleted
  <2>3. Validates(buffer \o c \o <<Semicolon>>)
    BY <2>2, Zenon DEF Validates
  <2>4. QED
    BY <2>3
<1>2. QED
  BY <1>1, TextAlways, PTL

\* The editor holds a text for complete exactly when it is one statement or several
\* by PostgreSQL's own lexemes, outside the two places where the scan is known to
\* differ (is_complete_statement).
THEOREM CompleteWhenTerminated == Spec => []CompleteIsTerminated
<1>1. IsText => CompleteIsTerminated
  BY CompleteIffTerminated, Zenon DEF IsText, CompleteIsTerminated
<1>2. QED
  BY <1>1, TextAlways, PTL

\* Nothing goes from the prompt to the server as SQL but a whole statement, or the
\* BEGIN that \begin stands for: no command and no half-typed text (the validator,
\* parse_command and the main loop).
THEOREM WholeStatementsRun == Spec => OnlyWholeStatementsRun
<1> DEFINE Step1 == mode = "prompt" /\ command'.kind = "sql" /\ Ordinary(command'.text)
                      => command'.text = <<"BEGIN">> \/ Terminated(command'.text)
<1>1. IsText /\ [Next]_vars => [Step1]_vars
  <2>1. SUFFICES ASSUME IsText, Next, mode = "prompt", command'.kind = "sql", Ordinary(command'.text),
                        command'.text # <<"BEGIN">>
                 PROVE  Terminated(command'.text)
    OBVIOUS
  <2>2. Submit
    <3>1. ~Press /\ ~Continue
      BY <2>1 DEF Press, Continue, Type, Nothing
    <3>2. ~SubmitEdited /\ ~Start
      BY <2>1 DEF SubmitEdited, Start
    <3>3. ~Interrupt
      BY <2>1 DEF Interrupt, Hand
    <3>4. QED
      BY <2>1, <3>1, <3>2, <3>3 DEF Next
  <2>3. PICK line : line = Trim(buffer)
    OBVIOUS
  <2>4. Validates(buffer) /\ command' = Parse(line)
    BY <2>2, <2>3 DEF Submit, Hand
  <2>5. line # <<>> /\ line[1] \notin Slashed /\ command' = Sql(line)
    BY <2>1, <2>4, ParseIs DEF Sql
  <2>6. IsCompleteStatement(buffer)
    BY <2>3, <2>4, <2>5 DEF Validates
  <2>7. line \in Seq(Symbols) /\ IsCompleteStatement(line)
    BY <2>1, <2>3, <2>5, <2>6, TrimIs, TrimmedComplete DEF IsText
  <2>8. Ordinary(line)
    BY <2>1, <2>5 DEF Sql
  <2>9. Terminated(line)
    BY <2>7, <2>8, CompleteIffTerminated
  <2>10. QED
    BY <2>5, <2>9 DEF Sql
<1>2. QED
  BY <1>1, TextAlways, PTL DEF Spec, OnlyWholeStatementsRun

-----------------------------------------------------------------------------
(* The arguments of a command                                              *)

\* What is known of the arguments at a position: those that are finished, the one
\* at hand, whether there is one, and the quote that it is in.
Args(done, part, within, q) == [tokens |-> done, current |-> part, inside |-> within, quote |-> q]
NoArgs == Args(<<>>, <<>>, FALSE, NoQuote)

IsTokens(f, r) == f[0] = NoArgs /\ \A i \in 1 .. Len(r) : f[i] = TokenStep(f[i-1], r[i])

\* The arguments are defined by what is known of them one position before.
LEMMA TokensRun ==
  ASSUME NEW r, Len(r) \in Nat
  PROVE  \E f : /\ IsTokens(f, r)
                /\ LET a == f[Len(r)]
                   IN  TokenizeArgs(r) = IF a.inside THEN Append(a.tokens, a.current) ELSE a.tokens
<1> DEFINE n == Len(r)
           Runs(f, k) == f = [i \in 0 .. k |-> IF i = 0 THEN NoArgs ELSE TokenStep(f[i-1], r[i])]
           T == {k \in Nat : \E f : Runs(f, k)}
<1>1. 0 \in T
  <2>1. Runs([i \in 0 .. 0 |-> NoArgs], 0)
    OBVIOUS
  <2>2. QED
    BY <2>1
<1>2. ASSUME NEW k \in 0 .. n - 1, k \in T PROVE k + 1 \in T
  <2>1. PICK f : Runs(f, k)
    BY <1>2
  <2> DEFINE g == [i \in 0 .. k + 1 |-> IF i = k + 1 THEN TokenStep(f[k], r[k+1]) ELSE f[i]]
  <2>2. ASSUME NEW i \in 0 .. k + 1
        PROVE  g[i] = IF i = 0 THEN NoArgs ELSE TokenStep(g[i-1], r[i])
    <3>1. CASE i = 0
      BY <2>1, <3>1
    <3>2. CASE i = k + 1
      <4>1. g[i] = TokenStep(f[k], r[i]) /\ g[i-1] = f[k] /\ i # 0
        BY <3>2
      <4>2. QED
        BY <4>1
    <3>3. CASE i # 0 /\ i # k + 1
      <4>1. i \in 0 .. k /\ i - 1 \in 0 .. k + 1 /\ i - 1 # k + 1
        BY <3>3
      <4>2. g[i] = f[i] /\ g[i-1] = f[i-1] /\ f[i] = TokenStep(f[i-1], r[i])
        BY <2>1, <3>3, <4>1
      <4>3. QED
        BY <3>3, <4>2
    <3>4. QED
      BY <3>1, <3>2, <3>3
  <2>3. PICK h : h = g
    OBVIOUS
  <2>4. h = [i \in 0 .. k + 1 |-> h[i]] /\ \A i \in 0 .. k + 1 : h[i] = IF i = 0 THEN NoArgs ELSE TokenStep(h[i-1], r[i])
    BY <2>2, <2>3
  <2> HIDE DEF g
  <2>5. Runs(h, k + 1)
    BY <2>4
  <2>6. k + 1 \in Nat
    OBVIOUS
  <2> HIDE DEF Runs
  <2>7. \E e : Runs(e, k + 1)
    BY <2>5
  <2>8. QED
    BY <2>6, <2>7
<1>3. n \in T
  <2> HIDE DEF T
  <2>1. n \in Nat /\ 0 \in Nat /\ n \in 0 .. n
    OBVIOUS
  <2>2. \A k \in 0 .. n - 1 : k \in T => k + 1 \in T
    BY <1>2
  <2>3. \A k \in 0 .. n : k \in T
    BY <1>1, <2>1, <2>2, FromTo
  <2>4. QED
    BY <2>1, <2>3
<1>4. PICK e : e = CHOOSE g : Runs(g, n)
  OBVIOUS
<1>5. Runs(e, n)
  BY <1>3, <1>4
<1>6. TokenizeArgs(r) = IF e[n].inside THEN Append(e[n].tokens, e[n].current) ELSE e[n].tokens
  BY <1>4 DEF TokenizeArgs, NoArgs, Args
<1>7. IsTokens(e, r)
  BY <1>5 DEF IsTokens
<1>8. QED
  BY <1>6, <1>7

\* The blank between arguments.
Space == " "

\* What a part of a text is.
LEMMA PartIs ==
  ASSUME NEW S, NEW s, NEW a \in Int, NEW b \in Int, a <= b + 1, \A i \in a .. b : s[i] \in S, NEW t, t = SubSeq(s, a, b)
  PROVE  /\ t \in Seq(S) /\ Len(t) = b - a + 1 /\ b - a + 1 \in Nat
         /\ \A k \in 1 .. b - a + 1 : t[k] = s[a+k-1]
<1>1. b - a + 1 \in Nat /\ (IF a <= b THEN b - a + 1 ELSE 0) = b - a + 1
  OBVIOUS
<1>2. t \in Seq(S) /\ Len(t) = b - a + 1 /\ \A k \in 1 .. b - a + 1 : t[k] = s[a+k-1]
  BY <1>1, SubSeqProperties
<1>3. QED
  BY <1>1, <1>2

\* A part of a part of a text is a part of it.
LEMMA PartOfPart ==
  ASSUME NEW S, NEW s, NEW a \in Int, NEW b \in Int, a <= b + 1, \A i \in a .. b : s[i] \in S, NEW t, t = SubSeq(s, a, b),
         NEW c \in Nat \ {0}, NEW d \in Nat, c <= d + 1, d <= b - a + 1
  PROVE  SubSeq(t, c, d) = SubSeq(s, a + c - 1, a + d - 1)
<1>1. \A k \in 1 .. b - a + 1 : t[k] = s[a+k-1]
  BY PartIs
<1>2. PICK x \in Int : x = a + c - 1
  OBVIOUS
<1>3. PICK y \in Int : y = a + d - 1
  OBVIOUS
<1>4. y - x + 1 = d - c + 1 /\ x <= y + 1
  BY <1>2, <1>3
<1>5. \A k \in c .. d : t[k] \in S
  <2>1. \A k \in c .. d : k \in 1 .. b - a + 1 /\ a + k - 1 \in a .. b
    OBVIOUS
  <2>2. QED
    BY <1>1, <2>1
<1>6. \A k \in x .. y : s[k] \in S
  <2>1. \A k \in x .. y : k \in a .. b
    BY <1>2, <1>3
  <2>2. QED
    BY <2>1
<1>7. PICK u : u = SubSeq(t, c, d)
  OBVIOUS
<1>8. PICK v : v = SubSeq(s, x, y)
  OBVIOUS
<1>9. u = [k \in 1 .. d - c + 1 |-> u[k]] /\ \A k \in 1 .. d - c + 1 : u[k] = t[c+k-1]
  <2>1. u \in Seq(S) /\ Len(u) = d - c + 1 /\ \A k \in 1 .. d - c + 1 : u[k] = t[c+k-1]
    BY <1>5, <1>7, PartIs
  <2>2. u = [k \in 1 .. Len(u) |-> u[k]]
    BY <2>1
  <2>3. QED
    BY <2>1, <2>2
<1>10. v = [k \in 1 .. d - c + 1 |-> v[k]] /\ \A k \in 1 .. d - c + 1 : v[k] = s[x+k-1]
  <2>1. v \in Seq(S) /\ Len(v) = y - x + 1 /\ \A k \in 1 .. y - x + 1 : v[k] = s[x+k-1]
    BY <1>4, <1>6, <1>8, PartIs
  <2>2. v = [k \in 1 .. Len(v) |-> v[k]]
    BY <2>1
  <2>3. QED
    BY <1>4, <2>1, <2>2
<1>11. \A k \in 1 .. d - c + 1 : c + k - 1 \in 1 .. b - a + 1 /\ a + (c + k - 1) - 1 = x + k - 1
  BY <1>2
<1>12. \A k \in 1 .. d - c + 1 : u[k] = v[k]
  BY <1>1, <1>9, <1>10, <1>11, ZenonT(30)
<1>13. u = v
  BY <1>9, <1>10, <1>12
<1>14. QED
  BY <1>2, <1>3, <1>7, <1>8, <1>13

\* A part grows by the sign after it.
LEMMA PartGrows ==
  ASSUME NEW S, NEW s, NEW a \in Int, NEW b \in Int, a <= b + 1, \A i \in a .. b + 1 : s[i] \in S
  PROVE  Append(SubSeq(s, a, b), s[b+1]) = SubSeq(s, a, b + 1)
<1>1. PICK c \in Int : c = b + 1
  OBVIOUS
<1>2. PICK t : t = SubSeq(s, a, b)
  OBVIOUS
<1>3. PICK u : u = SubSeq(s, a, c)
  OBVIOUS
<1>4. /\ t \in Seq(S) /\ Len(t) = b - a + 1 /\ b - a + 1 \in Nat
      /\ \A k \in 1 .. b - a + 1 : t[k] = s[a+k-1]
  <2>1. \A i \in a .. b : s[i] \in S
    OBVIOUS
  <2>2. QED
    BY <1>2, <2>1, PartIs
<1>5. u = [k \in 1 .. c - a + 1 |-> u[k]] /\ \A k \in 1 .. c - a + 1 : u[k] = s[a+k-1]
  <2>1. a <= c + 1 /\ \A i \in a .. c : s[i] \in S
    BY <1>1
  <2>2. u \in Seq(S) /\ Len(u) = c - a + 1 /\ \A k \in 1 .. c - a + 1 : u[k] = s[a+k-1]
    BY <1>3, <2>1, PartIs
  <2>3. u = [k \in 1 .. Len(u) |-> u[k]]
    BY <2>2
  <2>4. QED
    BY <2>2, <2>3
<1>6. c - a + 1 = (b - a + 1) + 1 /\ a + (c - a + 1) - 1 = c /\ s[c] \in S
  <2>1. c \in a .. b + 1
    BY <1>1
  <2>2. QED
    BY <1>1, <2>1
<1>7. PICK v : v = Append(t, s[c])
  OBVIOUS
<1>8. /\ v = [k \in 1 .. (b - a + 1) + 1 |-> v[k]]
      /\ v[(b - a + 1) + 1] = s[c] /\ \A k \in 1 .. b - a + 1 : v[k] = t[k]
  <2>1. v \in Seq(S) /\ Len(v) = Len(t) + 1 /\ v[Len(t)+1] = s[c] /\ \A k \in 1 .. Len(t) : v[k] = t[k]
    BY <1>4, <1>6, <1>7, AppendProperties
  <2>2. v = [k \in 1 .. Len(v) |-> v[k]]
    BY <2>1
  <2>3. QED
    BY <1>4, <2>1, <2>2
<1>9. \A k \in 1 .. (b - a + 1) + 1 : k \in 1 .. b - a + 1 \/ k = (b - a + 1) + 1
  BY <1>4
<1>10. \A k \in 1 .. (b - a + 1) + 1 : v[k] = u[k]
  <2>1. ASSUME NEW k \in 1 .. b - a + 1 PROVE v[k] = u[k]
    <3>1. k \in 1 .. c - a + 1
      BY <1>4, <1>6
    <3>2. QED
      BY <1>4, <1>5, <1>8, <3>1
  <2>2. v[(b-a+1)+1] = u[(b-a+1)+1]
    <3>1. PICK m : m = (b - a + 1) + 1
      OBVIOUS
    <3>2. m \in 1 .. c - a + 1 /\ a + m - 1 = c
      BY <1>4, <1>6, <3>1
    <3>3. u[m] = s[a+m-1]
      BY <1>5, <3>2
    <3>4. QED
      BY <1>8, <3>1, <3>2, <3>3
  <2>3. QED
    BY <1>9, <2>1, <2>2
<1>11. v = u
  BY <1>5, <1>6, <1>8, <1>10
<1>12. QED
  BY <1>1, <1>2, <1>3, <1>7, <1>11

\* Blanks, quotes and the signs of an id differ, and none stands for no quote.
LEMMA KindsDiffer ==
  /\ NoQuote \notin Symbols /\ NoQuote \notin Quotes /\ Blank \intersect Quotes = {} /\ Space \in Blank /\ Space \in Symbols
  /\ (Digits \union {"-"}) \intersect (Blank \union Quotes) = {} /\ Quotes \subseteq Symbols
<1>1. NoQuote \notin Symbols /\ NoQuote \notin Quotes
  BY Zenon DEF NoQuote, Symbols, Quotes, Blank, Letters, Digits, Plain, Taking, Other
<1>2. Blank \intersect Quotes = {} /\ Space \in Blank
  BY Zenon DEF Quotes, Blank, Space
<1>3. (Digits \union {"-"}) \intersect (Blank \union Quotes) = {}
  BY Zenon DEF Quotes, Blank, Digits
<1>4. Quotes \subseteq Symbols /\ Blank \subseteq Symbols
  BY DEF Symbols
<1>5. QED
  BY <1>1, <1>2, <1>3, <1>4

\* What a sign does to the arguments: a quote opens one.
LEMMA TokenOpens ==
  ASSUME NEW d, NEW q \in Quotes
  PROVE  TokenStep(Args(d, <<>>, FALSE, NoQuote), q) = Args(d, <<>>, TRUE, q)
<1>1. PICK a : a = Args(d, <<>>, FALSE, NoQuote)
  OBVIOUS
<1>2. a.quote = NoQuote /\ a.inside = FALSE /\ q # NoQuote /\ q \notin Blank
  BY <1>1, KindsDiffer DEF Args
<1>3. TokenStep(a, q) = [a EXCEPT !.quote = q, !.inside = TRUE]
  BY <1>2 DEF TokenStep
<1>4. QED
  BY <1>1, <1>3 DEF Args

\* The quote of an argument ends the quoting, not the argument.
LEMMA TokenCloses ==
  ASSUME NEW d, NEW p, NEW q \in Quotes
  PROVE  TokenStep(Args(d, p, TRUE, q), q) = Args(d, p, TRUE, NoQuote)
<1>1. PICK a : a = Args(d, p, TRUE, q)
  OBVIOUS
<1>2. a.quote = q /\ q # NoQuote
  BY <1>1, KindsDiffer DEF Args
<1>3. TokenStep(a, q) = [a EXCEPT !.quote = NoQuote]
  BY <1>2 DEF TokenStep
<1>4. QED
  BY <1>1, <1>3 DEF Args

\* Another sign within quotes, a blank or another quote too.
LEMMA TokenWithin ==
  ASSUME NEW d, NEW p, NEW q \in Quotes, NEW c \in Symbols, c # q
  PROVE  TokenStep(Args(d, p, TRUE, q), c) = Args(d, Append(p, c), TRUE, q)
<1>1. PICK a : a = Args(d, p, TRUE, q)
  OBVIOUS
<1>2. a.quote = q /\ q # NoQuote /\ a.current = p
  BY <1>1, KindsDiffer DEF Args
<1>3. TokenStep(a, c) = [a EXCEPT !.current = Append(@, c), !.inside = TRUE]
  BY <1>2 DEF TokenStep
<1>4. QED
  BY <1>1, <1>3 DEF Args

\* A plain sign without quotes.
LEMMA TokenPlain ==
  ASSUME NEW d, NEW p, NEW w, NEW c \in Symbols, c \notin Blank, c \notin Quotes
  PROVE  TokenStep(Args(d, p, w, NoQuote), c) = Args(d, Append(p, c), TRUE, NoQuote)
<1>1. PICK a : a = Args(d, p, w, NoQuote)
  OBVIOUS
<1>2. a.quote = NoQuote /\ c # NoQuote
  BY <1>1, KindsDiffer DEF Args
<1>3. TokenStep(a, c) = [a EXCEPT !.current = Append(@, c), !.inside = TRUE]
  BY <1>2 DEF TokenStep
<1>4. QED
  BY <1>1, <1>3 DEF Args

\* A blank without quotes.
LEMMA TokenEnds ==
  ASSUME NEW d, NEW p
  PROVE  TokenStep(Args(d, p, TRUE, NoQuote), Space) = Args(Append(d, p), <<>>, FALSE, NoQuote)
<1>1. PICK a : a = Args(d, p, TRUE, NoQuote)
  OBVIOUS
<1>2. PICK c : c = Space
  OBVIOUS
<1>3. a.quote = NoQuote /\ a.inside = TRUE /\ c # NoQuote /\ c \in Blank /\ c \notin Quotes
  BY <1>1, <1>2, KindsDiffer DEF Args
<1>4. TokenStep(a, c) = Separate(a)
  BY <1>3 DEF TokenStep
<1>5. Separate(a) = [a EXCEPT !.tokens = Append(@, a.current), !.current = <<>>, !.inside = FALSE]
  BY <1>3 DEF Separate
<1>6. QED
  BY <1>1, <1>2, <1>4, <1>5 DEF Args

\* Between two arguments; an argument that may end here.
Between(done) == Args(done, <<>>, FALSE, NoQuote)
Behind(done, part) == Args(done, part, TRUE, NoQuote)

\* From i to j a text is in quotes.
Enclosed(r, i, j, q) == r[i] = q /\ r[j] = q /\ \A k \in i + 1 .. j - 1 : r[k] # q

\* A text in quotes is an argument.
LEMMA QuotedRun ==
  ASSUME NEW r \in Seq(Symbols), NEW f, IsTokens(f, r), NEW d, NEW q \in Quotes,
         NEW i \in 1 .. Len(r), NEW j \in i + 1 .. Len(r), Enclosed(r, i, j, q),
         f[i-1] = Between(d)
  PROVE  f[j] = Behind(d, SubSeq(r, i + 1, j - 1))
<1> DEFINE T == {k \in Nat : f[k] = Args(d, SubSeq(r, i + 1, k), TRUE, q)}
<1>0. Len(r) \in Nat /\ i \in Nat /\ j \in Nat
  BY LenProperties
<1>1. i \in T
  <2>1. f[i] = Args(d, <<>>, TRUE, q)
    BY TokenOpens DEF IsTokens, Enclosed, Between
  <2>2. SubSeq(r, i + 1, i) = <<>>
    BY <1>0, SubSeqEmpty
  <2>3. QED
    BY <1>0, <2>1, <2>2
<1>2. ASSUME NEW k \in i .. (j - 1) - 1, k \in T PROVE k + 1 \in T
  <2>1. k + 1 \in i + 1 .. j - 1 /\ k + 1 \in 1 .. Len(r) /\ (k + 1) - 1 = k /\ k + 1 \in Nat /\ k \in Int /\ i + 1 \in Int
    BY <1>0
  <2>2. f[k+1] = TokenStep(f[k], r[k+1])
    BY <2>1 DEF IsTokens
  <2>3. r[k+1] \in Symbols /\ r[k+1] # q
    BY <2>1 DEF Enclosed
  <2>4. f[k+1] = Args(d, Append(SubSeq(r, i + 1, k), r[k+1]), TRUE, q)
    <3>1. PICK p : p = SubSeq(r, i + 1, k)
      OBVIOUS
    <3>2. PICK c : c = r[k+1]
      OBVIOUS
    <3>3. c \in Symbols /\ c # q
      BY <2>3, <3>2
    <3>4. TokenStep(Args(d, p, TRUE, q), c) = Args(d, Append(p, c), TRUE, q)
      BY <3>3, TokenWithin
    <3>5. QED
      BY <1>2, <2>2, <3>1, <3>2, <3>4
  <2>5. Append(SubSeq(r, i + 1, k), r[k+1]) = SubSeq(r, i + 1, k + 1)
    <3>1. \A x \in i + 1 .. k + 1 : x \in 1 .. Len(r)
      BY <1>0, <2>1
    <3>2. \A x \in i + 1 .. k + 1 : r[x] \in Symbols
      BY <3>1
    <3>3. i + 1 <= k + 1
      BY <1>0
    <3>4. QED
      BY <2>1, <3>2, <3>3, PartGrows
  <2>6. QED
    BY <2>1, <2>4, <2>5
<1>3. PICK e : e = j - 1
  OBVIOUS
<1>4. e \in Nat /\ e \in i .. e /\ j \in 1 .. Len(r)
  BY <1>0, <1>3
<1>5. e \in T
  <2> HIDE DEF T
  <2>1. \A k \in i .. e - 1 : k \in T => k + 1 \in T
    BY <1>2, <1>3
  <2>2. \A k \in i .. e : k \in T
    BY <1>0, <1>1, <1>4, <2>1, FromTo
  <2>3. QED
    BY <1>4, <2>2
<1>6. f[j] = TokenStep(f[e], q)
  BY <1>3, <1>4 DEF IsTokens, Enclosed
<1>7. QED
  BY <1>3, <1>5, <1>6, TokenCloses DEF Behind

\* So is one without quotes and blanks.
LEMMA PlainRun ==
  ASSUME NEW r \in Seq(Symbols), NEW f, IsTokens(f, r), NEW d,
         NEW i \in 1 .. Len(r), \A k \in i .. Len(r) : r[k] \notin Blank /\ r[k] \notin Quotes,
         f[i-1] = Between(d)
  PROVE  f[Len(r)] = Behind(d, SubSeq(r, i, Len(r)))
<1> DEFINE n == Len(r)
           T == {k \in Nat : f[k] = Args(d, SubSeq(r, i, k), TRUE, NoQuote)}
<1>0. n \in Nat /\ i \in Nat
  BY LenProperties
<1>1. ASSUME NEW k \in i - 1 .. n - 1, NEW w, f[k] = Args(d, SubSeq(r, i, k), w, NoQuote) PROVE k + 1 \in T
  <2>1. k + 1 \in i .. n /\ k + 1 \in 1 .. n /\ (k + 1) - 1 = k /\ k + 1 \in Nat /\ k \in Int /\ i \in Int
    BY <1>0
  <2>2. f[k+1] = TokenStep(f[k], r[k+1])
    BY <2>1 DEF IsTokens
  <2>3. r[k+1] \in Symbols /\ r[k+1] \notin Blank /\ r[k+1] \notin Quotes
    BY <2>1
  <2>4. f[k+1] = Args(d, Append(SubSeq(r, i, k), r[k+1]), TRUE, NoQuote)
    <3>1. PICK p : p = SubSeq(r, i, k)
      OBVIOUS
    <3>2. PICK c : c = r[k+1]
      OBVIOUS
    <3>3. c \in Symbols /\ c \notin Blank /\ c \notin Quotes
      BY <2>3, <3>2
    <3>4. TokenStep(Args(d, p, w, NoQuote), c) = Args(d, Append(p, c), TRUE, NoQuote)
      BY <3>3, TokenPlain
    <3>5. QED
      BY <1>1, <2>2, <3>1, <3>2, <3>4
  <2>5. Append(SubSeq(r, i, k), r[k+1]) = SubSeq(r, i, k + 1)
    <3>1. \A x \in i .. k + 1 : x \in 1 .. Len(r)
      BY <1>0, <2>1
    <3>2. \A x \in i .. k + 1 : r[x] \in Symbols
      BY <3>1
    <3>3. i <= k + 1
      BY <1>0
    <3>4. QED
      BY <2>1, <3>2, <3>3, PartGrows
  <2>6. QED
    BY <2>1, <2>4, <2>5
<1>2. i \in T
  <2>1. i - 1 \in i - 1 .. n - 1 /\ (i - 1) + 1 = i
    BY <1>0
  <2>2. SubSeq(r, i, i - 1) = <<>>
    BY <1>0, SubSeqEmpty
  <2>3. f[i-1] = Args(d, SubSeq(r, i, i - 1), FALSE, NoQuote)
    BY <2>2 DEF Between
  <2>4. PICK k : k = i - 1
    OBVIOUS
  <2>5. k + 1 \in T
    <3> HIDE DEF T
    <3>1. QED
      BY <1>1, <2>1, <2>3, <2>4
  <2>6. QED
    BY <2>1, <2>4, <2>5
<1>3. ASSUME NEW k \in i .. n - 1, k \in T PROVE k + 1 \in T
  <2>1. k \in i - 1 .. n - 1
    BY <1>0
  <2>2. QED
    BY <1>1, <1>3, <2>1
<1>4. n \in T
  <2> HIDE DEF T
  <2>1. \A k \in i .. n - 1 : k \in T => k + 1 \in T
    BY <1>3
  <2>2. \A k \in i .. n : k \in T
    BY <1>0, <1>2, <2>1, FromTo
  <2>3. n \in i .. n
    BY <1>0
  <2>4. QED
    BY <2>2, <2>3
<1>5. QED
  BY <1>4 DEF Behind

\* A quoted text alone is the one argument.
LEMMA OneArgument ==
  ASSUME NEW r \in Seq(Symbols), Len(r) >= 2, NEW q \in Quotes, r[1] = q, r[Len(r)] = q,
         \A k \in 2 .. Len(r) - 1 : r[k] # q
  PROVE  TokenizeArgs(r) = <<SubSeq(r, 2, Len(r) - 1)>>
<1> DEFINE n == Len(r)
<1>0. n \in Nat
  BY LenProperties
<1>1. PICK f : IsTokens(f, r) /\ TokenizeArgs(r) = IF f[n].inside THEN Append(f[n].tokens, f[n].current) ELSE f[n].tokens
  BY <1>0, TokensRun
<1>2. PICK t : t = SubSeq(r, 2, n - 1)
  OBVIOUS
<1>3. f[n] = Behind(<<>>, t)
  <2>1. PICK i : i = 1
    OBVIOUS
  <2>2. i \in 1 .. Len(r) /\ n \in i + 1 .. Len(r) /\ r[i] = q /\ r[n] = q /\ i + 1 = 2
    BY <1>0, <2>1
  <2>3. \A k \in i + 1 .. n - 1 : r[k] # q
    BY <2>2
  <2>4. PICK d : d = <<>>
    OBVIOUS
  <2>5. f[i-1] = Between(d)
    <3>1. f[0] = NoArgs /\ i - 1 = 0
      BY <1>1, <2>1 DEF IsTokens
    <3>2. QED
      BY <2>4, <3>1 DEF NoArgs, Between
  <2>6. PICK e : e = n
    OBVIOUS
  <2>7. e \in i + 1 .. Len(r) /\ r[e] = q /\ \A k \in i + 1 .. e - 1 : r[k] # q
    BY <2>2, <2>3, <2>6
  <2>8. f[e] = Behind(d, SubSeq(r, i + 1, e - 1))
    <3>1. IsTokens(f, r) /\ i \in 1 .. Len(r) /\ e \in i + 1 .. Len(r) /\ f[i-1] = Between(d)
      BY <1>1, <2>2, <2>5, <2>7
    <3>2. Enclosed(r, i, e, q)
      BY <2>2, <2>7 DEF Enclosed
    <3>3. QED
      BY <3>1, <3>2, QuotedRun
  <2>9. QED
    BY <1>2, <2>2, <2>4, <2>6, <2>8
<1>4. TokenizeArgs(r) = Append(<<>>, t)
  BY <1>1, <1>3 DEF Args, Behind
<1>5. Append(<<>>, t) = <<t>>
  OBVIOUS
<1>6. QED
  BY <1>2, <1>4, <1>5

\* A quoted text and a plain one behind it are the two arguments.
LEMMA TwoArguments ==
  ASSUME NEW r \in Seq(Symbols), NEW q \in Quotes, NEW j \in 2 .. Len(r) - 2, r[1] = q, r[j] = q,
         \A k \in 2 .. j - 1 : r[k] # q, r[j+1] = Space,
         \A k \in j + 2 .. Len(r) : r[k] \notin Blank /\ r[k] \notin Quotes
  PROVE  TokenizeArgs(r) = <<SubSeq(r, 2, j - 1), SubSeq(r, j + 2, Len(r))>>
<1> DEFINE n == Len(r)
<1>0. n \in Nat /\ j \in 1 .. n /\ j + 1 \in 1 .. n /\ j + 2 \in 1 .. n /\ (j + 1) - 1 = j /\ (j + 2) - 1 = j + 1
  <2>1. n \in Nat
    BY LenProperties
  <2>2. QED
    BY <2>1
<1>1. PICK f : IsTokens(f, r) /\ TokenizeArgs(r) = IF f[n].inside THEN Append(f[n].tokens, f[n].current) ELSE f[n].tokens
  BY <1>0, TokensRun
<1>2. PICK t : t = SubSeq(r, 2, j - 1)
  OBVIOUS
<1>3. PICK u : u = SubSeq(r, j + 2, n)
  OBVIOUS
<1>4. f[j] = Behind(<<>>, t)
  <2>1. PICK i : i = 1
    OBVIOUS
  <2>2. i \in 1 .. Len(r) /\ j \in i + 1 .. Len(r) /\ r[i] = q /\ r[j] = q /\ i + 1 = 2
    BY <1>0, <2>1
  <2>3. \A k \in i + 1 .. j - 1 : r[k] # q
    BY <2>2
  <2>4. PICK d : d = <<>>
    OBVIOUS
  <2>5. f[i-1] = Between(d)
    <3>1. f[0] = NoArgs /\ i - 1 = 0
      BY <1>1, <2>1 DEF IsTokens
    <3>2. QED
      BY <2>4, <3>1 DEF NoArgs, Between
  <2>6. PICK e : e = j
    OBVIOUS
  <2>7. e \in i + 1 .. Len(r) /\ r[e] = q /\ \A k \in i + 1 .. e - 1 : r[k] # q
    BY <2>2, <2>3, <2>6
  <2>8. f[e] = Behind(d, SubSeq(r, i + 1, e - 1))
    <3>1. IsTokens(f, r) /\ i \in 1 .. Len(r) /\ e \in i + 1 .. Len(r) /\ f[i-1] = Between(d)
      BY <1>1, <2>2, <2>5, <2>7
    <3>2. Enclosed(r, i, e, q)
      BY <2>2, <2>7 DEF Enclosed
    <3>3. QED
      BY <3>1, <3>2, QuotedRun
  <2>9. QED
    BY <1>2, <2>2, <2>4, <2>6, <2>8
<1>5. f[j+1] = Between(Append(<<>>, t))
  <2>1. f[j+1] = TokenStep(f[(j+1)-1], r[j+1])
    BY <1>0, <1>1 DEF IsTokens
  <2>2. QED
    BY <1>0, <1>4, <2>1, TokenEnds DEF Between, Behind
<1>6. f[n] = Behind(Append(<<>>, t), u)
  <2>1. PICK d : d = Append(<<>>, t)
    OBVIOUS
  <2>2. PICK i : i = j + 2
    OBVIOUS
  <2>3. i \in 1 .. Len(r) /\ f[i-1] = Between(d)
    BY <1>0, <1>5, <2>1, <2>2
  <2>4. \A k \in i .. Len(r) : r[k] \notin Blank /\ r[k] \notin Quotes
    BY <2>2
  <2>5. f[Len(r)] = Behind(d, SubSeq(r, i, Len(r)))
    BY <1>1, <2>3, <2>4, PlainRun
  <2>6. QED
    BY <1>3, <2>1, <2>2, <2>5
<1>7. TokenizeArgs(r) = Append(Append(<<>>, t), u)
  BY <1>1, <1>6 DEF Args, Behind
<1>8. Append(<<>>, t) = <<t>> /\ Append(<<t>>, u) = <<t, u>>
  <2>1. PICK S : S = {t, u}
    OBVIOUS
  <2>2. PICK s : s = <<t>>
    OBVIOUS
  <2>3. s \in Seq(S) /\ Len(s) = 1 /\ s[1] = t /\ u \in S
    BY <2>1, <2>2
  <2>4. PICK v : v = Append(s, u)
    OBVIOUS
  <2>5. v \in Seq(S) /\ Len(v) = Len(s) + 1 /\ v[Len(s)+1] = u /\ \A k \in 1 .. Len(s) : v[k] = s[k]
    <3>1. s \in Seq(S) /\ u \in S
      BY <2>3
    <3>2. QED
      BY <2>4, <3>1, AppendProperties
  <2>6. v = <<t, u>>
    <3>1. v \in Seq(S) /\ Len(v) = 2 /\ v[1] = t /\ v[2] = u
      BY <2>3, <2>5
    <3>2. v = [k \in 1 .. 2 |-> v[k]]
      BY <3>1
    <3>3. QED
      BY <3>1, <3>2
  <2>7. Append(<<>>, t) = <<t>>
    OBVIOUS
  <2>8. QED
    BY <2>2, <2>4, <2>6, <2>7
<1>9. QED
  BY <1>2, <1>3, <1>7, <1>8

\* An id is of digits, but for a sign before them.
LEMMA IdSigns ==
  ASSUME NEW S, NEW t \in Seq(S), IsId(t)
  PROVE  Len(t) >= 1 /\ \A k \in 1 .. Len(t) : t[k] \in Digits \union {"-"} /\ t[k] \notin Blank /\ t[k] \notin Quotes
<1>0. Len(t) \in Nat /\ t # <<>>
  BY LenProperties DEF IsId
<1>1. Len(t) >= 1
  BY <1>0, EmptySeq
<1>2. \A k \in 1 .. Len(t) : t[k] \in Digits \union {"-"}
  <2>1. CASE t[1] = "-"
    <3>1. ToSet(Tail(t)) \subseteq Digits
      BY <2>1 DEF IsId
    <3>2. Len(Tail(t)) = Len(t) - 1 /\ DOMAIN Tail(t) = 1 .. Len(t) - 1 /\ \A i \in 1 .. Len(t) - 1 : Tail(t)[i] = t[i+1]
      <4>1. Tail(t) \in Seq(S) /\ Len(Tail(t)) = Len(t) - 1 /\ \A i \in 1 .. Len(Tail(t)) : Tail(t)[i] = t[i+1]
        BY <1>0, HeadTailProperties
      <4>2. DOMAIN Tail(t) = 1 .. Len(Tail(t))
        BY <4>1, LenProperties
      <4>3. QED
        BY <4>1, <4>2
    <3>3. ASSUME NEW k \in 2 .. Len(t) PROVE t[k] \in Digits
      <4>1. k - 1 \in 1 .. Len(t) - 1 /\ (k - 1) + 1 = k
        BY <1>0
      <4>2. Tail(t)[k-1] = t[k] /\ Tail(t)[k-1] \in ToSet(Tail(t))
        BY <3>2, <4>1 DEF ToSet
      <4>3. QED
        BY <3>1, <4>2
    <3>4. \A k \in 1 .. Len(t) : k = 1 \/ k \in 2 .. Len(t)
      BY <1>0
    <3>5. QED
      BY <2>1, <3>3, <3>4
  <2>2. CASE t[1] # "-"
    <3>1. ToSet(t) \subseteq Digits
      BY <2>2 DEF IsId
    <3>2. DOMAIN t = 1 .. Len(t)
      BY LenProperties
    <3>3. QED
      BY <3>1, <3>2 DEF ToSet
  <2>3. QED
    BY <2>1, <2>2
<1>3. QED
  BY <1>1, <1>2, KindsDiffer

\* A text that begins and ends with no blank is trimmed.
LEMMA TrimWhole ==
  ASSUME NEW S, NEW s \in Seq(S), Len(s) >= 1, s[1] \notin Blank, s[Len(s)] \notin Blank
  PROVE  Trim(s) = s
<1> DEFINE n == Len(s)
<1>0. n \in Nat /\ DOMAIN s = 1 .. n /\ 1 \in 1 .. n /\ n \in 1 .. n
  <2>1. n \in Nat /\ DOMAIN s = 1 .. n
    BY LenProperties
  <2>2. QED
    BY <2>1
<1>1. PICK D : D = Solid(s)
  OBVIOUS
<1>2. D \subseteq 1 .. n /\ D \subseteq Nat /\ 1 \in D /\ n \in D /\ D # {}
  BY <1>0, <1>1 DEF Solid
<1>3. Min(D) \in D /\ Min(D) <= 1
  BY <1>2, MinIsLeast
<1>4. Max(D) \in D /\ n <= Max(D)
  BY <1>0, <1>2, MaxIsGreatest
<1>5. Min(D) = 1 /\ Max(D) = n
  <2>1. Min(D) \in 1 .. n /\ Max(D) \in 1 .. n
    BY <1>2, <1>3, <1>4
  <2>2. QED
    BY <1>0, <1>3, <1>4, <2>1
<1>6. Trim(s) = SubSeq(s, 1, n)
  BY <1>1, <1>2, <1>5 DEF Trim
<1>7. QED
  BY <1>6, SubSeqFull

\* A path in quotes is what is between them.
LEMMA UnquotedIs ==
  ASSUME NEW raw \in Seq(Symbols), Len(raw) >= 2, NEW q \in Quotes, raw[1] = q, raw[Len(raw)] = q
  PROVE  Unquoted(raw) = SubSeq(raw, 2, Len(raw) - 1)
<1>1. Last(raw) = q
  BY DEF Last
<1>2. raw[1] \in Quotes /\ Last(raw) = raw[1]
  BY <1>1
<1>3. QED
  BY <1>2 DEF Unquoted

\* The path of \export is the text in quotes behind the id, and a blank.
LEMMA ExportPath ==
  ASSUME NEW r \in Seq(Symbols), NEW q \in Quotes, NEW i \in 2 .. Len(r) - 1, Enclosed(r, i, Len(r), q),
         r[i-1] = Space, IsId(SubSeq(r, 1, i - 2)), r[i+1] # "~"
  PROVE  ParseExportArgs(r) = [kind |-> "\\export", path |-> SubSeq(r, i + 1, Len(r) - 1)]
<1>0. PICK n \in Nat : n = Len(r)
  BY LenProperties
<1>1. /\ DOMAIN r = 1 .. n /\ \A k \in 1 .. n : r[k] \in Symbols
      /\ i \in 2 .. n - 1 /\ i \in Nat /\ i - 2 \in Nat /\ i - 1 \in 1 .. n
  <2>1. DOMAIN r = 1 .. n /\ \A k \in 1 .. n : r[k] \in Symbols
    BY <1>0, LenProperties
  <2>2. QED
    BY <1>0, <2>1
<1>2. PICK t : t = SubSeq(r, 1, i - 2)
  OBVIOUS
<1>3. t \in Seq(Symbols) /\ Len(t) = i - 2 /\ \A k \in 1 .. i - 2 : t[k] = r[k]
  <2>1. PICK b \in Int : b = i - 2
    OBVIOUS
  <2>2. 1 <= b + 1 /\ \A k \in 1 .. b : r[k] \in Symbols
    BY <1>1, <2>1
  <2>3. t \in Seq(Symbols) /\ Len(t) = b - 1 + 1 /\ \A k \in 1 .. b - 1 + 1 : t[k] = r[1+k-1]
    BY <1>2, <2>1, <2>2, PartIs
  <2>4. b - 1 + 1 = i - 2 /\ \A k \in 1 .. i - 2 : 1 + k - 1 = k
    BY <2>1
  <2>5. QED
    BY <2>3, <2>4
<1>4. i - 2 >= 1 /\ \A k \in 1 .. i - 2 : r[k] \notin Blank
  <2>1. Len(t) >= 1 /\ \A k \in 1 .. Len(t) : t[k] \notin Blank
    BY <1>2, <1>3, IdSigns
  <2>2. QED
    BY <1>3, <2>1
<1>5. r[i] = q /\ r[n] = q /\ q \notin Blank /\ Space \in Blank
  BY <1>0, KindsDiffer DEF Enclosed
<1>6. Trim(r) = r
  <2>1. Len(r) >= 1 /\ r[1] \notin Blank /\ r[Len(r)] \notin Blank
    BY <1>0, <1>1, <1>4, <1>5
  <2>2. QED
    BY <2>1, TrimWhole
<1>7. PICK spaces : spaces = {k \in DOMAIN r : r[k] = Space}
  OBVIOUS
<1>8. spaces # {} /\ Min(spaces) = i - 1
  <2>1. spaces \subseteq Nat /\ i - 1 \in spaces
    BY <1>1, <1>7
  <2>2. \A k \in spaces : k >= i - 1
    <3>1. ASSUME NEW k \in spaces, k < i - 1 PROVE FALSE
      <4>1. k \in 1 .. n /\ r[k] = Space
        BY <1>1, <1>7
      <4>2. k \in 1 .. i - 2
        BY <1>1, <3>1, <4>1
      <4>3. QED
        BY <1>4, <1>5, <4>1, <4>2
    <3>2. QED
      BY <1>1, <2>1, <3>1
  <2>3. Min(spaces) \in spaces /\ Min(spaces) <= i - 1
    <3>1. spaces # {}
      BY <2>1
    <3>2. Min(spaces) \in spaces /\ \A k \in spaces : Min(spaces) <= k
      BY <2>1, <3>1, MinIsLeast
    <3>3. QED
      BY <2>1, <3>2
  <2>4. PICK m : m = Min(spaces)
    OBVIOUS
  <2>5. m \in Nat /\ i - 1 \in Nat /\ m <= i - 1 /\ m >= i - 1
    BY <2>1, <2>2, <2>3, <2>4
  <2>6. m = i - 1
    BY <2>5
  <2>7. QED
    BY <2>1, <2>4, <2>6
<1>9. PICK raw : raw = SubSeq(r, i, n)
  OBVIOUS
<1>10. raw \in Seq(Symbols) /\ Len(raw) = n - i + 1 /\ n - i + 1 >= 2 /\ raw[1] = q /\ raw[n-i+1] = q
  <2>1. i \in Int /\ n \in Int /\ i <= n + 1 /\ \A k \in i .. n : r[k] \in Symbols
    BY <1>1
  <2>2. raw \in Seq(Symbols) /\ Len(raw) = n - i + 1 /\ \A k \in 1 .. n - i + 1 : raw[k] = r[i+k-1]
    BY <1>9, <2>1, PartIs
  <2>3. n - i + 1 >= 2 /\ 1 \in 1 .. n - i + 1 /\ n - i + 1 \in 1 .. n - i + 1 /\ i + 1 - 1 = i /\ i + (n - i + 1) - 1 = n
    BY <1>1
  <2>4. raw[1] = r[i] /\ raw[n-i+1] = r[n]
    BY <2>2, <2>3
  <2>5. QED
    BY <1>5, <2>2, <2>3, <2>4
<1>11. Trim(raw) = raw
  <2>1. Len(raw) >= 1 /\ raw[1] \notin Blank /\ raw[Len(raw)] \notin Blank
    BY <1>1, <1>5, <1>10
  <2>2. QED
    BY <1>10, <2>1, TrimWhole
<1>12. PICK inner : inner = SubSeq(r, i + 1, n - 1)
  OBVIOUS
<1>13. Unquoted(raw) = inner
  <2>1. Unquoted(raw) = SubSeq(raw, 2, n - i)
    <3>1. Len(raw) >= 2 /\ raw[Len(raw)] = q /\ Len(raw) - 1 = n - i
      BY <1>1, <1>10
    <3>2. QED
      BY <1>10, <3>1, UnquotedIs
  <2>2. i \in Int /\ n \in Int /\ i <= n + 1 /\ \A k \in i .. n : r[k] \in Symbols
    BY <1>1
  <2>3. PICK e \in Nat : e = n - i
    BY <1>1
  <2>4. PICK c \in Nat \ {0} : c = 2
    OBVIOUS
  <2>5. c <= e + 1 /\ e <= n - i + 1 /\ i + c - 1 = i + 1 /\ i + e - 1 = n - 1
    BY <1>1, <2>3, <2>4
  <2>6. SubSeq(raw, c, e) = SubSeq(r, i + c - 1, i + e - 1)
    BY <1>9, <2>2, <2>5, PartOfPart
  <2>7. QED
    BY <1>12, <2>1, <2>3, <2>4, <2>5, <2>6
<1>14. AtHome(inner) = inner
  <2>1. CASE i + 1 = n
    <3>1. inner = <<>>
      <4>1. n - 1 < i + 1
        BY <1>1, <2>1
      <4>2. QED
        BY <1>1, <1>12, <4>1, SubSeqEmpty
    <3>2. QED
      BY <3>1 DEF AtHome
  <2>2. CASE i + 1 # n
    <3>1. PICK a \in Int, b \in Int : a = i + 1 /\ b = n - 1
      BY <1>1
    <3>2. a <= b + 1 /\ 1 \in 1 .. b - a + 1 /\ a + 1 - 1 = i + 1 /\ \A k \in a .. b : r[k] \in Symbols
      BY <1>1, <2>2, <3>1
    <3>3. \A k \in 1 .. b - a + 1 : inner[k] = r[a+k-1]
      BY <1>12, <3>1, <3>2, PartIs
    <3>4. inner[1] = r[i+1]
      BY <3>2, <3>3
    <3>5. inner[1] # "~"
      BY <3>4
    <3>6. QED
      BY <3>5 DEF AtHome
  <2>3. QED
    BY <2>1, <2>2
<1>15. raw # <<>> /\ raw \notin {<<x>> : x \in Quotes}
  <2>1. ASSUME NEW x, raw = <<x>> PROVE FALSE
    BY <1>10, <2>1
  <2>2. QED
    BY <1>10, <2>1
<1>16. PICK gap : gap = i - 1
  OBVIOUS
<1>17. /\ Trim(r) = r /\ spaces = {k \in DOMAIN r : r[k] = " "} /\ Min(spaces) = gap
       /\ IsId(SubSeq(r, 1, gap - 1)) /\ Trim(SubSeq(r, gap + 1, Len(r))) = raw
  <2>1. gap - 1 = i - 2 /\ gap + 1 = i
    BY <1>1, <1>16
  <2>2. QED
    BY <1>0, <1>6, <1>7, <1>8, <1>9, <1>11, <1>16, <2>1 DEF Space
<1>18. ParseExportArgs(r) = [kind |-> "\\export", path |-> AtHome(Unquoted(raw))]
  BY <1>8, <1>15, <1>17, Zenon DEF ParseExportArgs
<1>19. QED
  BY <1>0, <1>12, <1>13, <1>14, <1>18

\* What the words that take arguments make of them.
LEMMA WordsDiffer ==
  /\ Taking \subseteq Slashed /\ "exit" \notin Taking
  /\ \A w \in {"\\run", "\\unsave"} : w \in Taking /\ \A rest : WithArgs(w, rest) = SingleNameToken(w, rest)
  /\ "\\save" \in Taking /\ \A rest : WithArgs("\\save", rest) = ParseSaveArgs(rest)
  /\ "\\export" \in Taking /\ \A rest : WithArgs("\\export", rest) = ParseExportArgs(rest)
<1>1. Taking \subseteq Slashed /\ "exit" \notin Taking
  BY Zenon DEF Slashed, Taking
<1>2. ASSUME NEW w \in {"\\run", "\\unsave"}, NEW rest PROVE w \in Taking /\ WithArgs(w, rest) = SingleNameToken(w, rest)
  BY Zenon DEF Taking, WithArgs
<1>3. "\\save" \in Taking /\ \A rest : WithArgs("\\save", rest) = ParseSaveArgs(rest)
  BY Zenon DEF Taking, WithArgs
<1>4. "\\export" \in Taking /\ \A rest : WithArgs("\\export", rest) = ParseExportArgs(rest)
  BY Zenon DEF Taking, WithArgs
<1>5. QED
  BY <1>1, <1>2, <1>3, <1>4

\* A line that begins with such a word and a blank goes to it.
LEMMA ParseTaking ==
  ASSUME NEW line, Len(line) >= 2, line[1] \in Taking, line[2] = Space
  PROVE  Parse(line) = WithArgs(line[1], SubSeq(line, 3, Len(line)))
<1>1. line # <<>> /\ line # <<"exit">> /\ Len(line) # 1
  OBVIOUS
<1>2. line[1] \in Slashed /\ line[2] = " "
  BY WordsDiffer DEF Space
<1>3. QED
  BY <1>1, <1>2, Zenon DEF Parse

\* The arguments of a line are quoted where the line is.
LEMMA RestIs ==
  ASSUME NEW line \in Seq(Symbols), Len(line) >= 3, NEW r, r = SubSeq(line, 3, Len(line))
  PROVE  /\ r \in Seq(Symbols) /\ Len(r) = Len(line) - 2
         /\ \A k \in 1 .. Len(line) - 2 : r[k] = line[k+2]
         /\ \A a \in 3 .. Len(line), b \in 2 .. Len(line) :
              a <= b + 1 => SubSeq(line, a, b) = SubSeq(r, a - 2, b - 2)
<1>1. PICK n \in Nat : n = Len(line)
  BY LenProperties
<1>2. PICK m \in Int : m = 3
  OBVIOUS
<1>3. m <= n + 1 /\ \A k \in m .. n : line[k] \in Symbols
  BY <1>1, <1>2
<1>4. r \in Seq(Symbols) /\ Len(r) = n - m + 1 /\ \A k \in 1 .. n - m + 1 : r[k] = line[m+k-1]
  BY <1>1, <1>2, <1>3, PartIs
<1>5. n - m + 1 = n - 2 /\ \A k \in 1 .. n - 2 : m + k - 1 = k + 2
  BY <1>2
<1>6. ASSUME NEW a \in 3 .. n, NEW b \in 2 .. n, a <= b + 1 PROVE SubSeq(line, a, b) = SubSeq(r, a - 2, b - 2)
  <2>1. PICK c \in Nat \ {0}, d \in Nat : c = a - 2 /\ d = b - 2
    OBVIOUS
  <2>2. c <= d + 1 /\ d <= n - m + 1 /\ m + c - 1 = a /\ m + d - 1 = b
    BY <1>2, <1>6, <2>1
  <2>3. SubSeq(r, c, d) = SubSeq(line, m + c - 1, m + d - 1)
    BY <1>1, <1>2, <1>3, <2>2, PartOfPart
  <2>4. QED
    BY <2>1, <2>2, <2>3
<1>7. QED
  BY <1>1, <1>4, <1>5, <1>6

\* A name that fills the line behind the word.
LEMMA NameAlone ==
  ASSUME NEW line \in Seq(Symbols), NEW q \in Quotes, Len(line) >= 4, Enclosed(line, 3, Len(line), q),
         line[2] = Space, line[1] \in {"\\run", "\\unsave"}
  PROVE  Parse(line) = [kind |-> line[1], name |-> SubSeq(line, 4, Len(line) - 1)]
<1>1. PICK n \in Nat : n = Len(line)
  BY LenProperties
<1>2. PICK w : w = line[1]
  OBVIOUS
<1>3. PICK r : r = SubSeq(line, 3, n)
  OBVIOUS
<1>4. r \in Seq(Symbols) /\ Len(r) = n - 2 /\ \A k \in 1 .. n - 2 : r[k] = line[k+2]
  BY <1>1, <1>3, RestIs
<1>5. SubSeq(line, 4, n - 1) = SubSeq(r, 2, n - 3)
  <2>1. \A a \in 3 .. n, b \in 2 .. n : a <= b + 1 => SubSeq(line, a, b) = SubSeq(r, a - 2, b - 2)
    BY <1>1, <1>3, RestIs
  <2>2. PICK a \in 3 .. n : a = 4
    BY <1>1
  <2>3. PICK b \in 2 .. n : b = n - 1
    BY <1>1
  <2>4. a <= b + 1 /\ a - 2 = 2 /\ b - 2 = n - 3
    BY <1>1, <2>2, <2>3
  <2>5. QED
    BY <2>1, <2>2, <2>3, <2>4
<1>6. TokenizeArgs(r) = <<SubSeq(r, 2, Len(r) - 1)>>
  <2>1. Len(r) >= 2 /\ r[1] = q /\ r[Len(r)] = q
    <3>1. 1 \in 1 .. n - 2 /\ n - 2 \in 1 .. n - 2 /\ (n - 2) + 2 = n /\ 1 + 2 = 3
      BY <1>1
    <3>2. r[1] = line[3] /\ r[n-2] = line[n]
      BY <1>4, <3>1
    <3>3. QED
      BY <1>1, <1>4, <3>1, <3>2 DEF Enclosed
  <2>2. ASSUME NEW k \in 2 .. Len(r) - 1 PROVE r[k] # q
    <3>1. k \in 1 .. n - 2 /\ k + 2 \in 3 + 1 .. n - 1
      BY <1>1, <1>4
    <3>2. r[k] = line[k+2] /\ line[k+2] # q
      BY <1>1, <1>4, <3>1 DEF Enclosed
    <3>3. QED
      BY <3>2
  <2>3. QED
    BY <1>4, <2>1, <2>2, OneArgument
<1>7. SingleNameToken(w, r) = [kind |-> w, name |-> SubSeq(line, 4, n - 1)]
  <2>1. PICK t : t = SubSeq(line, 4, n - 1)
    OBVIOUS
  <2>2. TokenizeArgs(r) = <<t>>
    <3>1. Len(r) - 1 = n - 3
      BY <1>1, <1>4
    <3>2. QED
      BY <1>5, <1>6, <2>1, <3>1
  <2>3. Len(<<t>>) = 1 /\ <<t>>[1] = t
    OBVIOUS
  <2>4. QED
    BY <2>1, <2>2, <2>3 DEF SingleNameToken
<1>8. Parse(line) = WithArgs(w, r)
  <2>1. Len(line) >= 2 /\ line[1] \in Taking
    BY WordsDiffer
  <2>2. QED
    BY <1>1, <1>2, <1>3, <2>1, ParseTaking
<1>9. WithArgs(w, r) = SingleNameToken(w, r)
  BY <1>2, WordsDiffer
<1>10. QED
  BY <1>1, <1>2, <1>7, <1>8, <1>9

\* A name before an id.
LEMMA NameAndId ==
  ASSUME NEW line \in Seq(Symbols), NEW q \in Quotes, NEW j \in 4 .. Len(line), Enclosed(line, 3, j, q),
         line[2] = Space, line[1] = "\\save", j + 1 <= Len(line), line[j+1] = Space,
         IsId(SubSeq(line, j + 2, Len(line)))
  PROVE  Parse(line) = [kind |-> "\\save", name |-> SubSeq(line, 4, j - 1)]
<1>1. PICK n \in Nat : n = Len(line)
  BY LenProperties
<1>2. /\ j \in 4 .. n /\ j \in Nat /\ j + 1 <= n /\ j + 2 \in Int /\ j + 2 <= n + 1
      /\ \A k \in j + 2 .. n : line[k] \in Symbols
  BY <1>1
<1>3. PICK t : t = SubSeq(line, j + 2, n)
  OBVIOUS
<1>4. t \in Seq(Symbols) /\ Len(t) = n - (j + 2) + 1 /\ \A k \in 1 .. n - (j + 2) + 1 : t[k] = line[(j+2)+k-1]
  BY <1>1, <1>2, <1>3, PartIs
<1>5. Len(t) >= 1 /\ \A k \in 1 .. Len(t) : t[k] \notin Blank /\ t[k] \notin Quotes
  BY <1>1, <1>3, <1>4, IdSigns
<1>6. j + 2 <= n
  BY <1>1, <1>2, <1>4, <1>5
<1>7. \A k \in j + 2 .. n : line[k] \notin Blank /\ line[k] \notin Quotes
  <2>1. ASSUME NEW k \in j + 2 .. n PROVE line[k] \notin Blank /\ line[k] \notin Quotes
    <3>1. k - (j + 1) \in 1 .. n - (j + 2) + 1 /\ (j + 2) + (k - (j + 1)) - 1 = k
      BY <1>1, <1>2
    <3>2. t[k-(j+1)] = line[k]
      BY <1>4, <3>1
    <3>3. QED
      BY <1>4, <1>5, <3>1, <3>2
  <2>2. QED
    BY <2>1
<1>8. PICK r : r = SubSeq(line, 3, n)
  OBVIOUS
<1>9. r \in Seq(Symbols) /\ Len(r) = n - 2 /\ \A k \in 1 .. n - 2 : r[k] = line[k+2]
  BY <1>1, <1>2, <1>8, RestIs
<1>10. SubSeq(line, 4, j - 1) = SubSeq(r, 2, j - 3) /\ t = SubSeq(r, j, n - 2)
  <2>1. \A a \in 3 .. n, b \in 2 .. n : a <= b + 1 => SubSeq(line, a, b) = SubSeq(r, a - 2, b - 2)
    BY <1>1, <1>2, <1>8, RestIs
  <2>2. PICK a \in 3 .. n : a = 4
    BY <1>2
  <2>3. PICK b \in 2 .. n : b = j - 1
    BY <1>2
  <2>4. a <= b + 1 /\ a - 2 = 2 /\ b - 2 = j - 3
    BY <1>2, <2>2, <2>3
  <2>5. SubSeq(line, 4, j - 1) = SubSeq(r, 2, j - 3)
    BY <2>1, <2>2, <2>3, <2>4
  <2>6. PICK c \in 3 .. n : c = j + 2
    BY <1>2, <1>6
  <2>7. PICK e \in 2 .. n : e = n
    BY <1>1, <1>2
  <2>8. c <= e + 1 /\ c - 2 = j /\ e - 2 = n - 2
    BY <1>2, <2>6, <2>7
  <2>9. t = SubSeq(r, j, n - 2)
    BY <1>3, <2>1, <2>6, <2>7, <2>8
  <2>10. QED
    BY <2>5, <2>9
<1>11. PICK i : i = j - 2
  OBVIOUS
<1>12. TokenizeArgs(r) = <<SubSeq(r, 2, i - 1), SubSeq(r, i + 2, Len(r))>>
  <2>1. i \in 2 .. Len(r) - 2 /\ i \in Nat
    BY <1>1, <1>2, <1>6, <1>9, <1>11
  <2>2. r[1] = q /\ r[i] = q /\ r[i+1] = Space
    <3>1. 1 \in 1 .. n - 2 /\ i \in 1 .. n - 2 /\ i + 1 \in 1 .. n - 2 /\ 1 + 2 = 3 /\ i + 2 = j /\ (i + 1) + 2 = j + 1
      BY <1>1, <1>2, <1>11
    <3>2. r[1] = line[3] /\ r[i] = line[j] /\ r[i+1] = line[j+1]
      BY <1>9, <3>1
    <3>3. QED
      BY <3>2 DEF Enclosed
  <2>3. ASSUME NEW k \in 2 .. i - 1 PROVE r[k] # q
    <3>1. k \in 1 .. n - 2 /\ k + 2 \in 3 + 1 .. j - 1
      BY <1>1, <1>2, <1>11
    <3>2. r[k] = line[k+2] /\ line[k+2] # q
      BY <1>9, <3>1 DEF Enclosed
    <3>3. QED
      BY <3>2
  <2>4. ASSUME NEW k \in i + 2 .. Len(r) PROVE r[k] \notin Blank /\ r[k] \notin Quotes
    <3>1. k \in 1 .. n - 2 /\ k + 2 \in j + 2 .. n
      BY <1>1, <1>2, <1>9, <1>11
    <3>2. r[k] = line[k+2]
      BY <1>9, <3>1
    <3>3. QED
      BY <1>7, <3>1, <3>2
  <2>5. QED
    BY <1>9, <2>1, <2>2, <2>3, <2>4, TwoArguments
<1>13. PICK u : u = SubSeq(line, 4, j - 1)
  OBVIOUS
<1>14. TokenizeArgs(r) = <<u, t>>
  <2>1. i - 1 = j - 3 /\ i + 2 = j /\ Len(r) = n - 2
    BY <1>2, <1>9, <1>11
  <2>2. QED
    BY <1>10, <1>12, <1>13, <2>1
<1>15. ParseSaveArgs(r) = [kind |-> "\\save", name |-> u]
  <2>1. Len(<<u, t>>) = 2 /\ <<u, t>>[1] = u /\ <<u, t>>[2] = t
    OBVIOUS
  <2>2. IsId(t)
    BY <1>1, <1>3
  <2>3. QED
    BY <1>14, <2>1, <2>2 DEF ParseSaveArgs
<1>16. Parse(line) = WithArgs("\\save", r)
  <2>1. Len(line) >= 2 /\ line[1] \in Taking
    BY <1>1, <1>2, WordsDiffer
  <2>2. QED
    BY <1>1, <1>8, <2>1, ParseTaking
<1>17. QED
  BY <1>13, <1>15, <1>16, WordsDiffer

\* A path behind an id.
LEMMA PathAfterId ==
  ASSUME NEW line \in Seq(Symbols), NEW q \in Quotes, NEW i \in 3 .. Len(line) - 1, Enclosed(line, i, Len(line), q),
         line[2] = Space, line[1] = "\\export", line[i-1] = Space, IsId(SubSeq(line, 3, i - 2)), line[i+1] # "~"
  PROVE  Parse(line) = [kind |-> "\\export", path |-> SubSeq(line, i + 1, Len(line) - 1)]
<1>1. PICK n \in Nat : n = Len(line)
  BY LenProperties
<1>2. i \in 3 .. n - 1 /\ i \in Nat
  BY <1>1
<1>3. i # 3
  <2>1. ASSUME i = 3 PROVE FALSE
    <3>1. SubSeq(line, 3, 1) = <<>>
      BY SubSeqEmpty
    <3>2. i - 2 = 1
      BY <2>1
    <3>3. QED
      BY <3>1, <3>2 DEF IsId
  <2>2. QED
    BY <2>1
<1>4. PICK r : r = SubSeq(line, 3, n)
  OBVIOUS
<1>5. r \in Seq(Symbols) /\ Len(r) = n - 2 /\ \A k \in 1 .. n - 2 : r[k] = line[k+2]
  BY <1>1, <1>2, <1>4, RestIs
<1>6. PICK h \in Nat : h = i - 2
  BY <1>2
<1>7. h \in 2 .. Len(r) - 1 /\ h + 2 = i
  BY <1>1, <1>2, <1>3, <1>5, <1>6
<1>8. SubSeq(line, 3, i - 2) = SubSeq(r, 1, h - 2) /\ SubSeq(line, i + 1, n - 1) = SubSeq(r, h + 1, n - 3)
  <2>1. \A a \in 3 .. n, b \in 2 .. n : a <= b + 1 => SubSeq(line, a, b) = SubSeq(r, a - 2, b - 2)
    BY <1>1, <1>2, <1>4, RestIs
  <2>2. PICK a \in 3 .. n : a = 3
    BY <1>2
  <2>3. PICK b \in 2 .. n : b = i - 2
    BY <1>2, <1>3
  <2>4. a <= b + 1 /\ a - 2 = 1 /\ b - 2 = h - 2
    BY <1>2, <1>6, <2>2, <2>3
  <2>5. SubSeq(line, 3, i - 2) = SubSeq(r, 1, h - 2)
    BY <2>1, <2>2, <2>3, <2>4
  <2>6. PICK c \in 3 .. n : c = i + 1
    BY <1>2
  <2>7. PICK e \in 2 .. n : e = n - 1
    BY <1>1, <1>2
  <2>8. c <= e + 1 /\ c - 2 = h + 1 /\ e - 2 = n - 3
    BY <1>2, <1>6, <2>6, <2>7
  <2>9. SubSeq(line, i + 1, n - 1) = SubSeq(r, h + 1, n - 3)
    BY <2>1, <2>6, <2>7, <2>8
  <2>10. QED
    BY <2>5, <2>9
<1>9. ParseExportArgs(r) = [kind |-> "\\export", path |-> SubSeq(r, h + 1, Len(r) - 1)]
  <2>1. Enclosed(r, h, Len(r), q)
    <3>1. h \in 1 .. n - 2 /\ n - 2 \in 1 .. n - 2 /\ (n - 2) + 2 = n
      BY <1>1, <1>2, <1>6
    <3>2. r[h] = q /\ r[n-2] = q
      BY <1>1, <1>5, <1>7, <3>1 DEF Enclosed
    <3>3. ASSUME NEW k \in h + 1 .. (n - 2) - 1 PROVE r[k] # q
      <4>1. k \in 1 .. n - 2 /\ k + 2 \in i + 1 .. n - 1
        BY <1>2, <1>6, <3>1
      <4>2. r[k] = line[k+2] /\ line[k+2] # q
        BY <1>1, <1>5, <4>1 DEF Enclosed
      <4>3. QED
        BY <4>2
    <3>4. QED
      BY <1>5, <3>2, <3>3 DEF Enclosed
  <2>2. r[h-1] = Space /\ r[h+1] # "~"
    <3>1. h - 1 \in 1 .. n - 2 /\ h + 1 \in 1 .. n - 2 /\ (h - 1) + 2 = i - 1 /\ (h + 1) + 2 = i + 1
      BY <1>2, <1>3, <1>6
    <3>2. r[h-1] = line[i-1] /\ r[h+1] = line[i+1]
      BY <1>5, <3>1
    <3>3. QED
      BY <3>2
  <2>3. IsId(SubSeq(r, 1, h - 2))
    BY <1>8
  <2>4. QED
    BY <1>5, <1>7, <2>1, <2>2, <2>3, ExportPath
<1>10. Parse(line) = WithArgs("\\export", r)
  <2>1. Len(line) >= 2 /\ line[1] \in Taking
    BY <1>1, <1>2, WordsDiffer
  <2>2. QED
    BY <1>1, <1>4, <2>1, ParseTaking
<1>11. Len(r) - 1 = n - 3
  BY <1>1, <1>2, <1>5
<1>12. QED
  BY <1>1, <1>8, <1>9, <1>10, <1>11, WordsDiffer

\* What is quoted in a line is in quotes there.
LEMMA QuotedIs ==
  ASSUME NEW line \in Seq(Symbols), NEW i \in 3 .. Len(line), NEW j \in 4 .. Len(line), i < j, Quoted(line, i, j)
  PROVE  line[i] \in Quotes /\ Enclosed(line, i, j, line[i])
<1>1. PICK n \in Nat : n = Len(line)
  BY LenProperties
<1>2. PICK a \in Int, b \in Int : a = i + 1 /\ b = j - 1
  OBVIOUS
<1>3. PICK t : t = SubSeq(line, a, b)
  OBVIOUS
<1>4. t \in Seq(Symbols) /\ Len(t) = b - a + 1 /\ \A k \in 1 .. b - a + 1 : t[k] = line[a+k-1]
  <2>1. a <= b + 1 /\ \A k \in a .. b : k \in 1 .. Len(line)
    BY <1>1, <1>2
  <2>2. \A k \in a .. b : line[k] \in Symbols
    BY <2>1
  <2>3. QED
    BY <1>3, <2>1, <2>2, PartIs
<1>5. line[i] \notin ToSet(t) /\ line[i] \in Quotes /\ line[j] = line[i]
  BY <1>2, <1>3 DEF Quoted
<1>6. ASSUME NEW k \in a .. b PROVE line[k] # line[i]
  <2>1. k - i \in 1 .. b - a + 1 /\ a + (k - i) - 1 = k
    BY <1>2
  <2>2. t[k-i] = line[k]
    BY <1>4, <2>1
  <2>3. k - i \in DOMAIN t
    BY <1>4, <2>1, LenProperties
  <2>4. line[k] \in ToSet(t)
    BY <2>2, <2>3 DEF ToSet
  <2>5. QED
    BY <1>5, <2>4
<1>7. QED
  BY <1>2, <1>5, <1>6 DEF Enclosed

\* What a command gets of its arguments.
LEMMA ArgumentsSurvive ==
  ASSUME NEW line \in Seq(Symbols)
  PROVE  ArgumentSurvives(line, Parse(line))
<1>1. PICK n \in Nat : n = Len(line)
  BY LenProperties
<1>2. SUFFICES ASSUME NEW i \in 3 .. n, NEW j \in 4 .. n, i < j, line[2] = " ", Quoted(line, i, j)
               PROVE  /\ line[1] \in {"\\run", "\\unsave"} /\ i = 3 /\ j = n
                           => Parse(line) = [kind |-> line[1], name |-> SubSeq(line, i + 1, j - 1)]
                      /\ line[1] = "\\save" /\ i = 3 /\ Has(line, j + 1, <<" ">>) /\ IsId(SubSeq(line, j + 2, n))
                           => Parse(line) = [kind |-> "\\save", name |-> SubSeq(line, i + 1, j - 1)]
                      /\ line[1] = "\\export" /\ line[i-1] = " " /\ IsId(SubSeq(line, 3, i - 2)) /\ j = n /\ line[i+1] # "~"
                           => Parse(line) = [kind |-> "\\export", path |-> SubSeq(line, i + 1, j - 1)]
  BY <1>1, Zenon DEF ArgumentSurvives
<1>3. PICK q : q = line[i]
  OBVIOUS
<1>4. q \in Quotes /\ Enclosed(line, i, j, q) /\ line[2] = Space
  BY <1>1, <1>2, <1>3, QuotedIs DEF Space
<1>5. ASSUME line[1] \in {"\\run", "\\unsave"}, i = 3, j = n
      PROVE  Parse(line) = [kind |-> line[1], name |-> SubSeq(line, i + 1, j - 1)]
  <2>1. Len(line) >= 4 /\ Enclosed(line, 3, Len(line), q) /\ i + 1 = 4
    BY <1>1, <1>4, <1>5
  <2>2. Parse(line) = [kind |-> line[1], name |-> SubSeq(line, 4, Len(line) - 1)]
    BY <1>4, <1>5, <2>1, NameAlone
  <2>3. QED
    BY <1>1, <1>5, <2>1, <2>2
<1>6. ASSUME line[1] = "\\save", i = 3, Has(line, j + 1, <<" ">>), IsId(SubSeq(line, j + 2, n))
      PROVE  Parse(line) = [kind |-> "\\save", name |-> SubSeq(line, i + 1, j - 1)]
  <2>1. j + 1 <= Len(line) /\ line[j+1] = Space
    <3>1. PICK k \in Nat : k = j + 1
      OBVIOUS
    <3>2. PICK d : d = <<" ">>
      OBVIOUS
    <3>3. Len(d) = 1 /\ d[1] = Space
      BY <3>2 DEF Space
    <3>4. k + Len(d) - 1 <= Len(line) /\ SubSeq(line, k, k + Len(d) - 1) = d
      <4>1. Has(line, k, d)
        BY <1>6, <3>1, <3>2
      <4>2. QED
        BY <4>1 DEF Has
    <3>5. k + Len(d) - 1 = k
      BY <3>3
    <3>6. k <= Len(line) /\ d = SubSeq(line, k, k)
      BY <3>4, <3>5
    <3>7. k \in Int /\ k <= k + 1 /\ \A x \in k .. k : line[x] \in Symbols
      BY <1>1, <3>1, <3>6
    <3>8. \A x \in 1 .. k - k + 1 : d[x] = line[k+x-1]
      BY <3>6, <3>7, PartIs
    <3>9. 1 \in 1 .. k - k + 1 /\ k + 1 - 1 = k
      OBVIOUS
    <3>10. d[1] = line[k]
      BY <3>8, <3>9
    <3>11. QED
      BY <3>1, <3>3, <3>6, <3>10
  <2>2. i = 3
    BY <1>6, Zenon
  <2>3. Enclosed(line, 3, j, q) /\ i + 1 = 4
    BY <1>4, <2>2
  <2>4. IsId(SubSeq(line, j + 2, Len(line))) /\ line[1] = "\\save"
    BY <1>1, <1>6
  <2>5. Parse(line) = [kind |-> "\\save", name |-> SubSeq(line, 4, j - 1)]
    BY <1>1, <1>4, <2>1, <2>3, <2>4, NameAndId
  <2>6. QED
    BY <2>3, <2>5
<1>7. ASSUME line[1] = "\\export", line[i-1] = " ", IsId(SubSeq(line, 3, i - 2)), j = n, line[i+1] # "~"
      PROVE  Parse(line) = [kind |-> "\\export", path |-> SubSeq(line, i + 1, j - 1)]
  <2>1. line[i-1] = Space
    BY <1>7 DEF Space
  <2>2. i \in 3 .. Len(line) - 1
    <3>1. j = n /\ i < j
      BY <1>2, <1>7, Zenon
    <3>2. QED
      BY <1>1, <3>1
  <2>3. Enclosed(line, i, Len(line), q)
    BY <1>1, <1>4, <1>7
  <2>4. Parse(line) = [kind |-> "\\export", path |-> SubSeq(line, i + 1, Len(line) - 1)]
    BY <1>4, <1>7, <2>1, <2>2, <2>3, PathAfterId
  <2>5. QED
    BY <1>1, <1>7, <2>4
<1>8. QED
  BY <1>5, <1>6, <1>7

\* An argument in quotes gets to its command as it is, however long the line.
THEOREM QuotedArguments == Spec => QuotedArgumentSurvives
<1> DEFINE Step1 == mode = "prompt" => ArgumentSurvives(Trim(entered'), command')
<1>1. IsText /\ [Next]_vars => [Step1]_vars
  <2>1. SUFFICES ASSUME IsText, Next, mode = "prompt" PROVE ArgumentSurvives(Trim(entered'), command')
    OBVIOUS
  <2>2. CASE Submit
    <3>1. PICK line : line = Trim(buffer)
      OBVIOUS
    <3>2. line \in Seq(Symbols) /\ entered' = buffer /\ command' = Parse(line)
      <4>1. buffer \in Seq(Symbols) /\ <<>> \in Seq(Symbols) /\ entered' = buffer /\ command' = Parse(line)
        BY <2>1, <2>2, <3>1 DEF IsText, Submit, Hand
      <4>2. line # <<>> => line \in Seq(Symbols)
        BY <3>1, <4>1, TrimIs
      <4>3. QED
        BY <4>1, <4>2
    <3>3. ArgumentSurvives(line, Parse(line))
      BY <3>2, ArgumentsSurvive
    <3>4. QED
      BY <3>1, <3>2, <3>3
  <2>3. CASE ~Submit
    <3>1. entered' = <<>>
      <4>1. ~SubmitEdited /\ ~Start
        BY <2>1 DEF SubmitEdited, Start
      <4>2. Press \/ Continue \/ Interrupt
        BY <2>1, <2>3, <4>1 DEF Next
      <4>3. Press \/ Continue => entered' = <<>>
        BY DEF Press, Continue, Type
      <4>4. Interrupt => entered' = <<>>
        BY DEF Interrupt, Hand
      <4>5. QED
        BY <4>2, <4>3, <4>4
    <3>2. PICK line : line = Trim(<<>>)
      OBVIOUS
    <3>3. Solid(<<>>) = {}
      BY DEF Solid
    <3>4. line = <<>>
      BY <3>2, <3>3 DEF Trim
    <3>5. Len(line) = 0 /\ \A i \in 3 .. 0 : FALSE
      BY <3>4
    <3>6. ArgumentSurvives(line, command')
      BY <3>5 DEF ArgumentSurvives
    <3>7. QED
      BY <3>1, <3>2, <3>6
  <2>4. QED
    BY <2>2, <2>3
<1>2. QED
  BY <1>1, TextAlways, PTL DEF Spec, QuotedArgumentSurvives

-----------------------------------------------------------------------------
(* Walks over queries                                                       *)

\* What holds of a query whenever it holds of those inside of it holds of all: by
\* how deep they go.
LEMMA InnerFirst ==
  ASSUME NEW D, NEW d \in [D -> Nat], NEW S,
         \A q \in D : (\A r \in D : d[r] < d[q] => r \in S) => q \in S
  PROVE  D \subseteq S
<1>1. SUFFICES ASSUME NEW q \in D PROVE q \in S
  OBVIOUS
<1> DEFINE T == {k \in Nat : \A r \in D : d[r] < k => r \in S}
<1>2. 0 \in T
  OBVIOUS
<1>3. ASSUME NEW k \in Nat, k \in T PROVE k + 1 \in T
  <2>1. SUFFICES ASSUME NEW r \in D, d[r] < k + 1 PROVE r \in S
    OBVIOUS
  <2>2. \A e \in D : d[e] < d[r] => d[e] < k
    BY <2>1
  <2>3. \A e \in D : d[e] < d[r] => e \in S
    BY <1>3, <2>2
  <2>4. QED
    BY <2>3
<1>4. PICK n \in Nat : n = d[q] + 1
  OBVIOUS
<1>5. n \in T
  <2> HIDE DEF T
  <2>1. 0 \in Nat /\ n \in 0 .. n /\ \A k \in 0 .. n - 1 : k \in Nat
    OBVIOUS
  <2>2. \A k \in 0 .. n - 1 : k \in T => k + 1 \in T
    BY <1>3, <2>1
  <2>3. \A k \in 0 .. n : k \in T
    BY <1>2, <2>1, <2>2, FromTo
  <2>4. QED
    BY <2>1, <2>3
<1>6. QED
  BY <1>4, <1>5

\* B makes of what is found something that depends on what lies deeper alone.
Inward(B, D, d, R) ==
  /\ d \in [D -> Nat] /\ B \in [[D -> R] -> [D -> R]]
  /\ \A f, g \in [D -> R], q \in D : (\A r \in D : d[r] < d[q] => f[r] = g[r]) => B[f][q] = B[g][q]

\* What is found of a query from what is found of those inside of it is found of
\* all: for each depth there is a function that is right down to it, any two of
\* them agree there, and so they make up one.
LEMMA WalkExists ==
  ASSUME NEW B, NEW D, NEW d, NEW R, NEW a \in R, Inward(B, D, d, R)
  PROVE  \E f \in [D -> R] : f = B[f]
<1> DEFINE Right(f, k) == f \in [D -> R] /\ \A q \in D : d[q] < k => f[q] = B[f][q]
           T == {k \in Nat : \E f : Right(f, k)}
<1>0. /\ d \in [D -> Nat] /\ B \in [[D -> R] -> [D -> R]]
      /\ \A f, g \in [D -> R], q \in D : (\A r \in D : d[r] < d[q] => f[r] = g[r]) => B[f][q] = B[g][q]
  BY DEF Inward
<1>1. ASSUME NEW n \in Nat PROVE \E f : Right(f, n)
  <2>1. 0 \in T
    <3>1. PICK f : f = [q \in D |-> a]
      OBVIOUS
    <3>2. f \in [D -> R] /\ \A q \in D : ~(d[q] < 0)
      BY <1>0, <3>1
    <3>3. Right(f, 0)
      BY <3>2
    <3>4. QED
      BY <3>3
  <2>2. ASSUME NEW k \in 0 .. n - 1, k \in T PROVE k + 1 \in T
    <3>1. PICK f : Right(f, k)
      BY <2>2
    <3>2. PICK g \in [D -> R] : g = B[f]
      BY <1>0, <3>1
    <3>3. ASSUME NEW q \in D, d[q] < k + 1 PROVE g[q] = B[g][q]
      <4>1. \A r \in D : d[r] < d[q] => d[r] < k
        BY <1>0, <3>3
      <4>2. \A r \in D : d[r] < d[q] => f[r] = g[r]
        BY <3>1, <3>2, <4>1
      <4>3. B[f][q] = B[g][q]
        BY <1>0, <3>1, <4>2
      <4>4. QED
        BY <3>2, <4>3
    <3>4. Right(g, k + 1) /\ k + 1 \in Nat
      BY <3>3
    <3> HIDE DEF Right
    <3>5. QED
      BY <3>4
  <2>3. n \in T
    <3> HIDE DEF T
    <3>1. 0 \in Nat /\ n \in 0 .. n
      OBVIOUS
    <3>2. \A k \in 0 .. n - 1 : k \in T => k + 1 \in T
      BY <2>2
    <3>3. \A k \in 0 .. n : k \in T
      BY <2>1, <3>1, <3>2, FromTo
    <3>4. QED
      BY <3>1, <3>3
  <2>4. QED
    BY <2>3
<1>2. ASSUME NEW k \in Nat, NEW f, NEW g, Right(f, k), Right(g, k), NEW q \in D, d[q] < k
      PROVE  f[q] = g[q]
  <2> DEFINE S == {r \in D : d[r] < k => f[r] = g[r]}
  <2>1. ASSUME NEW e \in D, \A r \in D : d[r] < d[e] => r \in S PROVE e \in S
    <3>1. SUFFICES ASSUME d[e] < k PROVE f[e] = g[e]
      OBVIOUS
    <3>2. \A r \in D : d[r] < d[e] => d[r] < k
      BY <1>0, <3>1
    <3>3. \A r \in D : d[r] < d[e] => f[r] = g[r]
      BY <2>1, <3>2
    <3>4. B[f][e] = B[g][e]
      BY <1>0, <1>2, <3>3
    <3>5. QED
      BY <1>2, <3>1, <3>4
  <2>2. D \subseteq S
    <3> HIDE DEF S
    <3>1. \A e \in D : (\A r \in D : d[r] < d[e] => r \in S) => e \in S
      BY <2>1
    <3>2. QED
      BY <1>0, <3>1, InnerFirst
  <2>3. QED
    BY <1>2, <2>2
<1>3. PICK c : c = [q \in D |-> CHOOSE f : Right(f, d[q] + 1)]
  OBVIOUS
<1>4. ASSUME NEW q \in D PROVE Right(c[q], d[q] + 1)
  <2>1. d[q] + 1 \in Nat
    BY <1>0
  <2>2. \E f : Right(f, d[q] + 1)
    BY <1>1, <2>1
  <2> HIDE DEF Right
  <2>3. c[q] = CHOOSE f : Right(f, d[q] + 1)
    BY <1>3
  <2>4. QED
    BY <2>2, <2>3
<1>5. PICK h : h = [q \in D |-> c[q][q]]
  OBVIOUS
<1>6. h \in [D -> R]
  BY <1>4, <1>5
<1>7. ASSUME NEW q \in D PROVE h[q] = B[h][q]
  <2>1. ASSUME NEW r \in D, d[r] < d[q] PROVE h[r] = c[q][r]
    <3>1. Right(c[r], d[r] + 1) /\ Right(c[q], d[r] + 1)
      <4>1. \A e \in D : d[e] < d[r] + 1 => d[e] < d[q] + 1
        BY <1>0, <2>1
      <4>2. QED
        BY <1>4, <4>1
    <3>2. d[r] + 1 \in Nat /\ d[r] < d[r] + 1
      BY <1>0
    <3> HIDE DEF Right
    <3>3. c[r][r] = c[q][r]
      BY <1>2, <3>1, <3>2
    <3>4. QED
      BY <1>5, <3>3
  <2>2. c[q] \in [D -> R] /\ c[q][q] = B[c[q]][q]
    BY <1>0, <1>4
  <2>3. B[h][q] = B[c[q]][q]
    BY <1>0, <1>6, <2>1, <2>2
  <2>4. QED
    BY <1>5, <2>2, <2>3
<1>8. h = B[h]
  BY <1>0, <1>6, <1>7
<1>9. QED
  BY <1>6, <1>8

-----------------------------------------------------------------------------
(* Sequences of parts                                                       *)

\* A function on the first numbers is a sequence.
LEMMA FunctionIsSeq ==
  ASSUME NEW E, NEW n \in Nat, NEW d \in [1 .. n -> E]
  PROVE  d \in Seq(E)
BY SeqDef, Zenon

\* What stands in a concatenation stands in one of its two parts.
LEMMA ConcatSet ==
  ASSUME NEW C, NEW s \in Seq(C), NEW t \in Seq(C)
  PROVE  s \o t \in Seq(C) /\ ToSet(s \o t) = ToSet(s) \union ToSet(t)
<1>1. PICK u : u = s \o t
  OBVIOUS
<1>2. PICK m \in Nat : m = Len(s) /\ DOMAIN s = 1 .. m
  BY LenProperties
<1>3. PICK n \in Nat : n = Len(t) /\ DOMAIN t = 1 .. n
  BY LenProperties
<1>4. u \in Seq(C) /\ Len(u) = m + n /\ \A i \in 1 .. m + n : u[i] = IF i <= m THEN s[i] ELSE t[i-m]
  BY <1>1, <1>2, <1>3, ConcatProperties
<1>5. DOMAIN u = 1 .. m + n
  BY <1>4, LenProperties
<1>6. ASSUME NEW x \in ToSet(u) PROVE x \in ToSet(s) \union ToSet(t)
  <2>1. PICK i \in 1 .. m + n : x = u[i]
    BY <1>5 DEF ToSet
  <2>2. CASE i <= m
    <3>1. i \in 1 .. m /\ x = s[i]
      BY <1>4, <2>1, <2>2
    <3>2. QED
      BY <1>2, <3>1 DEF ToSet
  <2>3. CASE ~(i <= m)
    <3>1. i - m \in 1 .. n /\ x = t[i-m]
      BY <1>4, <2>1, <2>3
    <3>2. QED
      BY <1>3, <3>1 DEF ToSet
  <2>4. QED
    BY <2>2, <2>3
<1>7. ASSUME NEW x \in ToSet(s) PROVE x \in ToSet(u)
  <2>1. PICK i \in 1 .. m : x = s[i]
    BY <1>2 DEF ToSet
  <2>2. i \in 1 .. m + n /\ u[i] = x
    BY <1>4, <2>1
  <2>3. QED
    BY <1>5, <2>2 DEF ToSet
<1>8. ASSUME NEW x \in ToSet(t) PROVE x \in ToSet(u)
  <2>1. PICK i \in 1 .. n : x = t[i]
    BY <1>3 DEF ToSet
  <2>2. i + m \in 1 .. m + n /\ ~(i + m <= m) /\ (i + m) - m = i
    OBVIOUS
  <2>3. u[i+m] = x
    BY <1>4, <2>1, <2>2
  <2>4. QED
    BY <1>5, <2>2, <2>3 DEF ToSet
<1>9. ToSet(u) = ToSet(s) \union ToSet(t)
  BY <1>6, <1>7, <1>8
<1>10. QED
  BY <1>1, <1>4, <1>9

\* What stands in a flattened sequence stands in one of its parts.
LEMMA FlattenedSet ==
  ASSUME NEW C, NEW s \in Seq(Seq(C))
  PROVE  FlattenSeq(s) \in Seq(C) /\ ToSet(FlattenSeq(s)) = UNION {ToSet(s[i]) : i \in DOMAIN s}
<1> DEFINE Runs(f, k) == f = [i \in 1 .. k |-> IF i = 1 THEN s[1] ELSE f[i-1] \o s[i]]
           T == {k \in Nat : \E f : Runs(f, k)}
<1>0. PICK n \in Nat : n = Len(s) /\ DOMAIN s = 1 .. n
  BY LenProperties
<1>1. \A i \in 1 .. n : s[i] \in Seq(C)
  BY <1>0
<1>2. CASE n = 0
  <2>1. s = <<>>
    BY <1>0, <1>2, EmptySeq
  <2>2. FlattenSeq(s) = <<>>
    BY <2>1 DEF FlattenSeq
  <2>3. ToSet(<<>>) = {} /\ UNION {ToSet(s[i]) : i \in DOMAIN s} = {} /\ <<>> \in Seq(C)
    BY <1>0, <1>2 DEF ToSet
  <2>4. QED
    BY <2>2, <2>3
<1>3. CASE n # 0
  <2>1. 1 \in T
    <3>1. Runs([i \in 1 .. 1 |-> s[1]], 1)
      OBVIOUS
    <3>2. QED
      BY <3>1
  <2>2. ASSUME NEW k \in 1 .. n - 1, k \in T PROVE k + 1 \in T
    <3>1. PICK f : Runs(f, k)
      BY <2>2
    <3> DEFINE g == [i \in 1 .. k + 1 |-> IF i = k + 1 THEN f[k] \o s[k+1] ELSE f[i]]
    <3>2. ASSUME NEW i \in 1 .. k + 1
          PROVE  g[i] = IF i = 1 THEN s[1] ELSE g[i-1] \o s[i]
      <4>1. CASE i = 1
        BY <3>1, <4>1
      <4>2. CASE i = k + 1
        <5>1. i - 1 = k /\ k \in 1 .. k + 1 /\ k # k + 1 /\ i # 1
          BY <4>2
        <5>2. g[i] = f[k] \o s[i] /\ g[i-1] = f[k]
          BY <4>2, <5>1
        <5>3. QED
          BY <5>1, <5>2
      <4>3. CASE i # 1 /\ i # k + 1
        <5>1. i \in 1 .. k /\ i - 1 \in 1 .. k + 1 /\ i - 1 # k + 1
          BY <4>3
        <5>2. g[i] = f[i] /\ g[i-1] = f[i-1] /\ f[i] = f[i-1] \o s[i]
          BY <3>1, <4>3, <5>1
        <5>3. QED
          BY <4>3, <5>2
      <4>4. QED
        BY <4>1, <4>2, <4>3
    <3>3. PICK h : h = g
      OBVIOUS
    <3>4. h = [i \in 1 .. k + 1 |-> h[i]] /\ \A i \in 1 .. k + 1 : h[i] = IF i = 1 THEN s[1] ELSE h[i-1] \o s[i]
      BY <3>2, <3>3
    <3> HIDE DEF g
    <3>5. Runs(h, k + 1)
      BY <3>4
    <3>6. k + 1 \in Nat
      OBVIOUS
    <3> HIDE DEF Runs
    <3>7. \E x : Runs(x, k + 1)
      BY <3>5
    <3>8. QED
      BY <3>6, <3>7
  <2>3. n \in T
    <3> HIDE DEF T
    <3>1. 1 \in Nat /\ n \in Nat /\ n \in 1 .. n
      BY <1>3
    <3>2. \A k \in 1 .. n - 1 : k \in T => k + 1 \in T
      BY <2>2
    <3>3. \A k \in 1 .. n : k \in T
      BY <2>1, <3>1, <3>2, FromTo
    <3>4. QED
      BY <3>1, <3>3
  <2>4. PICK f : f = CHOOSE g : Runs(g, n)
    OBVIOUS
  <2>5. Runs(f, n)
    BY <2>3, <2>4
  <2>6. FlattenSeq(s) = f[n]
    BY <1>0, <1>3, <2>4 DEF FlattenSeq
  <2>7. f[1] = s[1] /\ \A i \in 2 .. n : f[i] = f[i-1] \o s[i]
    <3>1. 1 \in 1 .. n /\ \A i \in 2 .. n : i \in 1 .. n /\ i # 1
      BY <1>3
    <3>2. \A i \in 1 .. n : f[i] = IF i = 1 THEN s[1] ELSE f[i-1] \o s[i]
      BY <2>5
    <3>3. QED
      BY <3>1, <3>2
  <2> DEFINE Holds(k) == \A x : x \in ToSet(f[k]) <=> \E i \in 1 .. k : x \in ToSet(s[i])
             U == {k \in Nat : f[k] \in Seq(C) /\ Holds(k)}
  <2> HIDE DEF Runs, T
  <2>8. 1 \in U
    <3>1. \A i \in 1 .. 1 : i = 1
      OBVIOUS
    <3>2. Holds(1)
      BY <2>7, <3>1
    <3>3. f[1] \in Seq(C)
      BY <1>1, <1>3, <2>7
    <3> HIDE DEF Holds
    <3>4. QED
      BY <3>2, <3>3
  <2>9. ASSUME NEW k \in 1 .. n - 1, k \in U PROVE k + 1 \in U
    <3>1. k + 1 \in 2 .. n /\ (k + 1) - 1 = k /\ k + 1 \in 1 .. n /\ k + 1 \in Nat
      OBVIOUS
    <3>2. PICK a \in Seq(C) : a = f[k]
      BY <2>9
    <3>3. PICK b \in Seq(C) : b = s[k+1]
      BY <1>1, <3>1
    <3>4. f[k+1] = a \o b
      BY <2>7, <3>1, <3>2, <3>3
    <3>5. f[k+1] \in Seq(C) /\ ToSet(f[k+1]) = ToSet(a) \union ToSet(b)
      BY <3>4, ConcatSet
    <3>6. \A x : x \in ToSet(a) <=> \E i \in 1 .. k : x \in ToSet(s[i])
      BY <2>9, <3>2
    <3>7. \A i : i \in 1 .. k + 1 <=> i \in 1 .. k \/ i = k + 1
      OBVIOUS
    <3>8. \A x : x \in ToSet(f[k+1]) <=> x \in ToSet(a) \/ x \in ToSet(s[k+1])
      BY <3>3, <3>5
    <3>9. Holds(k + 1)
      BY <3>6, <3>7, <3>8, Zenon
    <3> HIDE DEF Holds
    <3>10. QED
      BY <3>1, <3>5, <3>9
  <2>10. n \in U
    <3> HIDE DEF U
    <3>1. 1 \in Nat /\ n \in 1 .. n
      BY <1>3
    <3>2. \A k \in 1 .. n - 1 : k \in U => k + 1 \in U
      BY <2>9
    <3>3. \A k \in 1 .. n : k \in U
      BY <2>8, <3>1, <3>2, FromTo
    <3>4. QED
      BY <3>1, <3>3
  <2>11. f[n] \in Seq(C) /\ \A x : x \in ToSet(f[n]) <=> \E i \in 1 .. n : x \in ToSet(s[i])
    BY <2>10
  <2>12. QED
    BY <1>0, <2>6, <2>11
<1>4. QED
  BY <1>2, <1>3

\* Vec::dedup takes none of the elements away for good: the first of some that
\* are alike stays.
LEMMA DedupSet ==
  ASSUME NEW C, NEW s \in Seq(C)
  PROVE  Dedup(s) \in Seq(C) /\ ToSet(Dedup(s)) = ToSet(s)
<1>1. PICK n \in Nat : n = Len(s) /\ DOMAIN s = 1 .. n
  BY LenProperties
<1>2. PICK parts : parts = [i \in DOMAIN s |-> IF i > 1 /\ s[i] = s[i-1] THEN <<>> ELSE <<s[i]>>]
  OBVIOUS
<1>3. \A x \in C : <<x>> \in Seq(C)
  OBVIOUS
<1>4. parts \in [1 .. n -> Seq(C)]
  <2>1. \A i \in 1 .. n : s[i] \in C
    BY <1>1
  <2>2. <<>> \in Seq(C)
    OBVIOUS
  <2>3. QED
    BY <1>1, <1>2, <1>3, <2>1, <2>2
<1>5. parts \in Seq(Seq(C)) /\ DOMAIN parts = 1 .. n
  BY <1>4, FunctionIsSeq
<1>6. Dedup(s) = FlattenSeq(parts)
  BY <1>2 DEF Dedup
<1>7. Dedup(s) \in Seq(C) /\ ToSet(Dedup(s)) = UNION {ToSet(parts[i]) : i \in 1 .. n}
  <2>1. parts \in Seq(Seq(C))
    BY <1>5
  <2>2. FlattenSeq(parts) \in Seq(C) /\ ToSet(FlattenSeq(parts)) = UNION {ToSet(parts[i]) : i \in DOMAIN parts}
    BY <2>1, FlattenedSet
  <2>3. QED
    BY <1>5, <1>6, <2>2
<1>8. \A i \in 1 .. n : ToSet(parts[i]) \subseteq {s[i]}
  <2>1. ToSet(<<>>) = {} /\ \A x : ToSet(<<x>>) = {x}
    BY DEF ToSet
  <2>2. QED
    BY <1>1, <1>2, <2>1
<1>9. ToSet(Dedup(s)) \subseteq ToSet(s)
  BY <1>1, <1>7, <1>8 DEF ToSet
<1>10. ASSUME NEW i \in 1 .. n PROVE s[i] \in ToSet(Dedup(s))
  <2> DEFINE T == {j \in 1 .. n : s[j] = s[i]}
  <2>1. i \in T /\ T \subseteq Nat
    OBVIOUS
  <2>2. PICK m \in T : \A j \in T : m <= j
    <3> HIDE DEF T
    <3>1. QED
      BY <2>1, MinIsLeast
  <2>3. ~(m > 1 /\ s[m] = s[m-1])
    <3>1. SUFFICES ASSUME m > 1, s[m] = s[m-1] PROVE FALSE
      OBVIOUS
    <3>2. m - 1 \in T /\ ~(m <= m - 1)
      BY <3>1
    <3>3. QED
      BY <2>2, <3>2
  <2>4. parts[m] = <<s[i]>>
    BY <1>1, <1>2, <2>3
  <2>5. s[i] \in ToSet(parts[m])
    BY <2>4 DEF ToSet
  <2>6. QED
    BY <1>7, <2>5
<1>11. ToSet(s) \subseteq ToSet(Dedup(s))
  BY <1>1, <1>10 DEF ToSet
<1>12. QED
  BY <1>7, <1>9, <1>11

-----------------------------------------------------------------------------
(* The aliases and the tables of a query                                    *)

\* What Collect gives, from what the factors give.
Around(q, parts, found) ==
  FlattenSeq([i \in DOMAIN q.ctes |-> found[q.ctes[i].query]]) \o
  CASE q.body.kind = "select" -> FlattenSeq(parts)
    [] q.body.kind = "nested" -> found[q.body.query]
    [] q.body.kind = "setop"  -> <<>>
AliasParts(q, found) == [i \in DOMAIN q.body.from |-> FactorAliases(q.body.from[i], found)]
TableParts(q, found) == [i \in DOMAIN q.body.from |-> FactorTables(q.body.from[i], found)]

\* What the map of aliases is made of.
Entries == [id : Ids, to : Ids \union {NoId}]

\* Collect concatenates what its parts give.
LEMMA Collected ==
  ASSUME NEW q, NEW found
  PROVE  /\ Collect(q, FactorAliases, found) = Around(q, AliasParts(q, found), found)
         /\ Collect(q, FactorTables, found) = Around(q, TableParts(q, found), found)
BY Zenon DEF Collect, Concat, Around, AliasParts, TableParts

\* The queries inside of a query are queries, and go less deep.
LEMMA InsideIs ==
  ASSUME NEW q \in QueryTrees
  PROVE  /\ \A i \in DOMAIN q.ctes : q.ctes[i].query \in QueryTrees /\ Depth[q.ctes[i].query] < Depth[q]
         /\ q.body.kind = "select" =>
              /\ q.body.from \in Seq(Factors)
              /\ \A i \in DOMAIN q.body.from :
                   /\ q.body.from[i] \in Factors
                   /\ q.body.from[i].kind = "derived" =>
                        q.body.from[i].query \in QueryTrees /\ Depth[q.body.from[i].query] < Depth[q]
         /\ q.body.kind = "nested" => q.body.query \in QueryTrees /\ Depth[q.body.query] < Depth[q]
<1>1. /\ q.ctes \in Seq([name : Ids, query : QueryTrees])
      /\ q.body.kind = "select" => q.body.from \in Seq(Factors)
      /\ q.body.kind = "nested" => q.body.query \in QueryTrees
      /\ \A r \in InnerQueries(q) : Depth[r] < Depth[q]
  BY QueryAssumption
<1>2. ASSUME NEW i \in DOMAIN q.ctes
      PROVE  q.ctes[i].query \in QueryTrees /\ Depth[q.ctes[i].query] < Depth[q]
  <2>1. q.ctes[i] \in [name : Ids, query : QueryTrees]
    <3>1. PICK c : c = q.ctes
      OBVIOUS
    <3>2. PICK E : E = [name : Ids, query : QueryTrees]
      OBVIOUS
    <3>3. c \in Seq(E) /\ i \in DOMAIN c
      BY <1>1, <3>1, <3>2
    <3>4. c[i] \in E
      BY <3>3
    <3>5. QED
      BY <3>1, <3>2, <3>4
  <2>2. q.ctes[i].query \in InnerQueries(q)
    BY DEF InnerQueries
  <2>3. QED
    BY <1>1, <2>1, <2>2
<1>3. ASSUME q.body.kind = "select", NEW i \in DOMAIN q.body.from
      PROVE  /\ q.body.from[i] \in Factors
             /\ q.body.from[i].kind = "derived" =>
                  q.body.from[i].query \in QueryTrees /\ Depth[q.body.from[i].query] < Depth[q]
  <2>1. q.body.from[i] \in Factors
    <3>1. PICK c : c = q.body.from
      OBVIOUS
    <3>2. c \in Seq(Factors) /\ i \in DOMAIN c
      BY <1>1, <1>3, <3>1
    <3>3. c[i] \in Factors
      BY <3>2
    <3>4. QED
      BY <3>1, <3>3
  <2>2. ASSUME q.body.from[i].kind = "derived"
        PROVE  q.body.from[i].query \in QueryTrees /\ Depth[q.body.from[i].query] < Depth[q]
    <3>1. q.body.from[i].query \in QueryTrees
      BY <2>1, <2>2 DEF Factors
    <3>2. q.body.from[i].query \in InnerQueries(q)
      BY <1>3, <2>2 DEF InnerQueries, ToSet
    <3>3. QED
      BY <1>1, <3>1, <3>2
  <2>3. QED
    BY <2>1, <2>2
<1>4. ASSUME q.body.kind = "nested" PROVE q.body.query \in QueryTrees /\ Depth[q.body.query] < Depth[q]
  <2>1. q.body.query \in InnerQueries(q)
    BY <1>4 DEF InnerQueries
  <2>2. QED
    BY <1>1, <1>4, <2>1
<1>5. QED
  BY <1>1, <1>2, <1>3, <1>4

\* What is found of the queries inside of a query, and of its factors, makes up
\* what is found of the query.
LEMMA AroundType ==
  ASSUME NEW C, NEW q \in QueryTrees, NEW parts, NEW found,
         q.body.kind = "select" => parts \in Seq(Seq(C)),
         \A r \in QueryTrees : Depth[r] < Depth[q] => found[r] \in Seq(C)
  PROVE  /\ Around(q, parts, found) \in Seq(C)
         /\ q.body.kind = "select" =>
              \A x : x \in ToSet(Around(q, parts, found)) <=>
                \/ \E i \in DOMAIN q.ctes : x \in ToSet(found[q.ctes[i].query])
                \/ \E i \in DOMAIN parts : x \in ToSet(parts[i])
<1>1. PICK ctes : ctes = [i \in DOMAIN q.ctes |-> found[q.ctes[i].query]]
  OBVIOUS
<1>2. ctes \in Seq(Seq(C)) /\ DOMAIN ctes = DOMAIN q.ctes
  <2>1. PICK n \in Nat : DOMAIN q.ctes = 1 .. n
    <3>1. q.ctes \in Seq([name : Ids, query : QueryTrees])
      BY QueryAssumption
    <3>2. QED
      BY <3>1, LenProperties
  <2>2. PICK E : E = Seq(C)
    OBVIOUS
  <2>3. \A i \in 1 .. n : found[q.ctes[i].query] \in E
    BY <2>1, <2>2, InsideIs
  <2>4. ctes \in [1 .. n -> E]
    BY <1>1, <2>1, <2>3
  <2>5. ctes \in Seq(E)
    BY <2>4, FunctionIsSeq
  <2>6. QED
    BY <1>1, <2>2, <2>5
<1>3. PICK s : s = FlattenSeq(ctes)
  OBVIOUS
<1>4. s \in Seq(C) /\ ToSet(s) = UNION {ToSet(ctes[i]) : i \in DOMAIN ctes}
  BY <1>2, <1>3, FlattenedSet
<1>5. PICK t : t = CASE q.body.kind = "select" -> FlattenSeq(parts)
                     [] q.body.kind = "nested" -> found[q.body.query]
                     [] q.body.kind = "setop"  -> <<>>
  OBVIOUS
<1>6. q.body.kind = "select" => t \in Seq(C) /\ ToSet(t) = UNION {ToSet(parts[i]) : i \in DOMAIN parts}
  <2>1. SUFFICES ASSUME q.body.kind = "select"
        PROVE  t \in Seq(C) /\ ToSet(t) = UNION {ToSet(parts[i]) : i \in DOMAIN parts}
    OBVIOUS
  <2>2. t = FlattenSeq(parts)
    BY <1>5, <2>1
  <2>3. parts \in Seq(Seq(C))
    BY <2>1
  <2>4. FlattenSeq(parts) \in Seq(C) /\ ToSet(FlattenSeq(parts)) = UNION {ToSet(parts[i]) : i \in DOMAIN parts}
    BY <2>3, FlattenedSet
  <2>5. QED
    BY <2>2, <2>4
<1>7. t \in Seq(C)
  <2>1. q.body.kind = "nested" => found[q.body.query] \in Seq(C)
    BY InsideIs
  <2>2. q.body.kind = "nested" => t = found[q.body.query]
    BY <1>5
  <2>3. q.body.kind = "setop" => t = <<>>
    BY <1>5
  <2>4. <<>> \in Seq(C)
    OBVIOUS
  <2>5. q.body.kind = "select" \/ q.body.kind = "nested" \/ q.body.kind = "setop"
    BY QueryAssumption
  <2>6. QED
    BY <1>6, <2>1, <2>2, <2>3, <2>4, <2>5
<1>8. Around(q, parts, found) = s \o t
  BY <1>1, <1>3, <1>5 DEF Around
<1>9. s \o t \in Seq(C) /\ ToSet(s \o t) = ToSet(s) \union ToSet(t)
  BY <1>4, <1>7, ConcatSet
<1>10. ToSet(s) = UNION {ToSet(found[q.ctes[i].query]) : i \in DOMAIN q.ctes}
  <2>1. UNION {ToSet(ctes[i]) : i \in DOMAIN ctes} = UNION {ToSet(found[q.ctes[i].query]) : i \in DOMAIN q.ctes}
    BY <1>1, Zenon
  <2>2. QED
    BY <1>4, <2>1
<1>11. \A x : x \in ToSet(s) <=> \E i \in DOMAIN q.ctes : x \in ToSet(found[q.ctes[i].query])
  BY <1>10, Zenon
<1>12. q.body.kind = "select" => \A x : x \in ToSet(t) <=> \E i \in DOMAIN parts : x \in ToSet(parts[i])
  BY <1>6, Zenon
<1>13. Around(q, parts, found) \in Seq(C) /\ \A x : x \in ToSet(Around(q, parts, found)) <=> x \in ToSet(s) \/ x \in ToSet(t)
  BY <1>8, <1>9
<1>14. QED
  BY <1>11, <1>12, <1>13, Zenon

\* What is found depends on the queries inside alone.
LEMMA AroundAlike ==
  ASSUME NEW q \in QueryTrees, NEW parts, NEW more, q.body.kind = "select" => parts = more, NEW f, NEW g,
         \A r \in QueryTrees : Depth[r] < Depth[q] => f[r] = g[r]
  PROVE  Around(q, parts, f) = Around(q, more, g)
<1>1. \A i \in DOMAIN q.ctes : f[q.ctes[i].query] = g[q.ctes[i].query]
  BY InsideIs
<1>2. [i \in DOMAIN q.ctes |-> f[q.ctes[i].query]] = [i \in DOMAIN q.ctes |-> g[q.ctes[i].query]]
  BY <1>1
<1>3. q.body.kind = "nested" => f[q.body.query] = g[q.body.query]
  BY InsideIs
<1>4. q.body.kind = "select" \/ q.body.kind = "nested" \/ q.body.kind = "setop"
  BY QueryAssumption
<1>5. (CASE q.body.kind = "select" -> FlattenSeq(parts)
         [] q.body.kind = "nested" -> f[q.body.query]
         [] q.body.kind = "setop"  -> <<>>) =
      (CASE q.body.kind = "select" -> FlattenSeq(more)
         [] q.body.kind = "nested" -> g[q.body.query]
         [] q.body.kind = "setop"  -> <<>>)
  BY <1>3, <1>4
<1>6. QED
  BY <1>2, <1>5, Zenon DEF Around

\* What the factors give is entries and names.
LEMMA FactorType ==
  ASSUME NEW q \in QueryTrees, q.body.kind = "select", NEW found
  PROVE  /\ (\A r \in QueryTrees : Depth[r] < Depth[q] => found[r] \in Seq(Entries)) =>
              AliasParts(q, found) \in Seq(Seq(Entries))
         /\ (\A r \in QueryTrees : Depth[r] < Depth[q] => found[r] \in Seq(Ids)) =>
              TableParts(q, found) \in Seq(Seq(Ids))
<1>1. PICK n \in Nat : DOMAIN q.body.from = 1 .. n
  <2>1. PICK c : c = q.body.from
    OBVIOUS
  <2>2. c \in Seq(Factors)
    BY <2>1, InsideIs
  <2>3. Len(c) \in Nat /\ DOMAIN c = 1 .. Len(c)
    BY <2>2, LenProperties
  <2>4. QED
    BY <2>1, <2>3
<1>2. ASSUME NEW i \in 1 .. n
      PROVE  LET f == q.body.from[i]
             IN  /\ f \in Factors
                 /\ f.kind = "derived" => f.query \in QueryTrees /\ Depth[f.query] < Depth[q]
  BY <1>1, InsideIs
<1>3. ASSUME \A r \in QueryTrees : Depth[r] < Depth[q] => found[r] \in Seq(Entries)
      PROVE  AliasParts(q, found) \in Seq(Seq(Entries))
  <2>1. ASSUME NEW i \in 1 .. n PROVE FactorAliases(q.body.from[i], found) \in Seq(Entries)
    <3>1. PICK f : f = q.body.from[i]
      OBVIOUS
    <3>2. f \in Factors /\ (f.kind = "derived" => f.query \in QueryTrees /\ Depth[f.query] < Depth[q])
      BY <1>2, <3>1
    <3>3. ASSUME NEW to \in Ids \union {NoId}, f.kind = "table" \/ f.kind = "derived"
          PROVE  Bind(f, to) \in Seq(Entries)
      <4>1. f.alias \in Ids \union {NoId}
        BY <3>2, <3>3 DEF Factors
      <4>2. f.alias # NoId => [id |-> f.alias, to |-> to] \in Entries
        BY <4>1 DEF Entries
      <4>3. \A e \in Entries : <<e>> \in Seq(Entries)
        OBVIOUS
      <4>4. <<>> \in Seq(Entries)
        OBVIOUS
      <4>5. QED
        BY <4>2, <4>3, <4>4, Zenon DEF Bind
    <3>4. CASE f.kind = "table"
      <4>1. f.name \in Ids
        BY <3>2, <3>4 DEF Factors
      <4>2. FactorAliases(f, found) = Bind(f, f.name)
        BY <3>4 DEF FactorAliases
      <4>3. QED
        BY <3>1, <3>3, <3>4, <4>1, <4>2
    <3>5. CASE f.kind = "derived"
      <4>1. FactorAliases(f, found) = Bind(f, NoId) \o found[f.query]
        BY <3>5 DEF FactorAliases
      <4>2. Bind(f, NoId) \in Seq(Entries) /\ found[f.query] \in Seq(Entries)
        BY <1>3, <3>2, <3>3, <3>5
      <4>3. Bind(f, NoId) \o found[f.query] \in Seq(Entries)
        BY <4>2, ConcatSet
      <4>4. QED
        BY <3>1, <4>1, <4>3
    <3>6. CASE f.kind = "joined"
      <4>1. FactorAliases(f, found) = <<>>
        BY <3>6 DEF FactorAliases
      <4>2. <<>> \in Seq(Entries)
        OBVIOUS
      <4>3. QED
        BY <3>1, <4>1, <4>2
    <3>7. QED
      BY <3>2, <3>4, <3>5, <3>6 DEF Factors
  <2>2. PICK E : E = Seq(Entries)
    OBVIOUS
  <2>3. AliasParts(q, found) \in [1 .. n -> E]
    BY <1>1, <2>1, <2>2 DEF AliasParts
  <2>4. AliasParts(q, found) \in Seq(E)
    BY <2>3, FunctionIsSeq
  <2>5. QED
    BY <2>2, <2>4
<1>4. ASSUME \A r \in QueryTrees : Depth[r] < Depth[q] => found[r] \in Seq(Ids)
      PROVE  TableParts(q, found) \in Seq(Seq(Ids))
  <2>1. ASSUME NEW i \in 1 .. n PROVE FactorTables(q.body.from[i], found) \in Seq(Ids)
    <3>1. PICK f : f = q.body.from[i]
      OBVIOUS
    <3>2. f \in Factors /\ (f.kind = "derived" => f.query \in QueryTrees /\ Depth[f.query] < Depth[q])
      BY <1>2, <3>1
    <3>3. CASE f.kind = "table"
      <4>1. f.name \in Ids
        BY <3>2, <3>3 DEF Factors
      <4>2. FactorTables(f, found) = <<f.name>>
        BY <3>3 DEF FactorTables
      <4>3. QED
        BY <3>1, <4>1, <4>2
    <3>4. CASE f.kind = "derived"
      <4>1. FactorTables(f, found) = found[f.query]
        BY <3>4 DEF FactorTables
      <4>2. QED
        BY <1>4, <3>1, <3>2, <3>4, <4>1
    <3>5. CASE f.kind = "joined"
      <4>1. FactorTables(f, found) = <<>>
        BY <3>5 DEF FactorTables
      <4>2. <<>> \in Seq(Ids)
        OBVIOUS
      <4>3. QED
        BY <3>1, <4>1, <4>2
    <3>6. QED
      BY <3>2, <3>3, <3>4, <3>5 DEF Factors
  <2>2. PICK E : E = Seq(Ids)
    OBVIOUS
  <2>3. TableParts(q, found) \in [1 .. n -> E]
    BY <1>1, <2>1, <2>2 DEF TableParts
  <2>4. TableParts(q, found) \in Seq(E)
    BY <2>3, FunctionIsSeq
  <2>5. QED
    BY <2>2, <2>4
<1>5. QED
  BY <1>3, <1>4

\* What the factors of a query give depends on the queries inside of it alone.
LEMMA FactorAlike ==
  ASSUME NEW q \in QueryTrees, q.body.kind = "select", NEW f, NEW g,
         \A r \in QueryTrees : Depth[r] < Depth[q] => f[r] = g[r]
  PROVE  AliasParts(q, f) = AliasParts(q, g) /\ TableParts(q, f) = TableParts(q, g)
<1>1. ASSUME NEW i \in DOMAIN q.body.from
      PROVE  /\ FactorAliases(q.body.from[i], f) = FactorAliases(q.body.from[i], g)
             /\ FactorTables(q.body.from[i], f) = FactorTables(q.body.from[i], g)
  <2>1. PICK e : e = q.body.from[i]
    OBVIOUS
  <2>2. e \in Factors /\ (e.kind = "derived" => f[e.query] = g[e.query])
    BY <2>1, InsideIs
  <2>3. e.kind = "table" \/ e.kind = "derived" \/ e.kind = "joined"
    BY <2>2 DEF Factors
  <2>4. FactorAliases(e, f) = FactorAliases(e, g)
    BY <2>2, <2>3 DEF FactorAliases
  <2>5. FactorTables(e, f) = FactorTables(e, g)
    BY <2>2, <2>3 DEF FactorTables
  <2>6. QED
    BY <2>1, <2>4, <2>5
<1>2. QED
  BY <1>1, Zenon DEF AliasParts, TableParts

\* The aliases of a query are found as AliasesOf says.
LEMMA AliasesAre ==
  /\ AliasesOf \in [QueryTrees -> Seq(Entries)]
  /\ \A q \in QueryTrees : AliasesOf[q] = Around(q, AliasParts(q, AliasesOf), AliasesOf)
<1> DEFINE B == [f \in [QueryTrees -> Seq(Entries)] |-> [q \in QueryTrees |-> Around(q, AliasParts(q, f), f)]]
<1>0. Depth \in [QueryTrees -> Nat]
  BY QueryAssumption
<1>1. ASSUME NEW f, NEW q \in QueryTrees, \A r \in QueryTrees : Depth[r] < Depth[q] => f[r] \in Seq(Entries)
      PROVE  Around(q, AliasParts(q, f), f) \in Seq(Entries)
  <2>1. PICK parts : parts = AliasParts(q, f)
    OBVIOUS
  <2>2. q.body.kind = "select" => parts \in Seq(Seq(Entries))
    BY <1>1, <2>1, FactorType
  <2>3. Around(q, parts, f) \in Seq(Entries)
    BY <1>1, <2>2, AroundType
  <2>4. QED
    BY <2>1, <2>3
<1>2. PICK b : b = B
  OBVIOUS
<1>3. b \in [[QueryTrees -> Seq(Entries)] -> [QueryTrees -> Seq(Entries)]]
  BY <1>1, <1>2
<1>4. ASSUME NEW f \in [QueryTrees -> Seq(Entries)], NEW g \in [QueryTrees -> Seq(Entries)], NEW q \in QueryTrees,
             \A r \in QueryTrees : Depth[r] < Depth[q] => f[r] = g[r]
      PROVE  b[f][q] = b[g][q]
  <2>1. PICK parts : parts = AliasParts(q, f)
    OBVIOUS
  <2>2. PICK more : more = AliasParts(q, g)
    OBVIOUS
  <2>3. q.body.kind = "select" => parts = more
    BY <1>4, <2>1, <2>2, FactorAlike
  <2>4. Around(q, parts, f) = Around(q, more, g)
    BY <1>4, <2>3, AroundAlike
  <2>5. QED
    BY <1>2, <2>1, <2>2, <2>4
<1>5. PICK S : S = Seq(Entries)
  OBVIOUS
<1> HIDE DEF B
<1>8. \E f \in [QueryTrees -> S] : f = b[f]
  <2>1. Inward(b, QueryTrees, Depth, S)
    BY <1>0, <1>3, <1>4, <1>5 DEF Inward
  <2>2. <<>> \in S
    BY <1>5
  <2>3. QED
    BY <2>1, <2>2, WalkExists
<1> DEFINE Walks(f) == f = [q \in QueryTrees |-> Collect(q, FactorAliases, f)]
<1>9. \E f : Walks(f)
  <2>1. PICK f \in [QueryTrees -> S] : f = b[f]
    BY <1>8
  <2>2. f = [q \in QueryTrees |-> Around(q, AliasParts(q, f), f)]
    BY <1>2, <1>5, <2>1 DEF B
  <2>3. \A q \in QueryTrees : Collect(q, FactorAliases, f) = Around(q, AliasParts(q, f), f)
    BY Collected
  <2>4. Walks(f)
    BY <2>2, <2>3
  <2>5. QED
    BY <2>4
<1>10. AliasesOf = CHOOSE f : Walks(f)
  BY DEF AliasesOf
<1>11. Walks(AliasesOf)
  <2> HIDE DEF Walks
  <2>1. QED
    BY <1>9, <1>10
<1>12. \A q \in QueryTrees : AliasesOf[q] = Around(q, AliasParts(q, AliasesOf), AliasesOf)
  <2>1. \A q \in QueryTrees : AliasesOf[q] = Collect(q, FactorAliases, AliasesOf)
    BY <1>11
  <2>2. QED
    BY <2>1, Collected
<1>13. DOMAIN AliasesOf = QueryTrees /\ AliasesOf = [q \in QueryTrees |-> AliasesOf[q]]
  <2>1. PICK f : f = AliasesOf
    OBVIOUS
  <2>2. f = [q \in QueryTrees |-> Collect(q, FactorAliases, f)]
    BY <1>11, <2>1
  <2>3. DOMAIN f = QueryTrees /\ f = [q \in QueryTrees |-> f[q]]
    BY <2>2
  <2>4. QED
    BY <2>1, <2>3
<1>14. PICK T : T = {q \in QueryTrees : AliasesOf[q] \in S}
  OBVIOUS
<1>15. ASSUME NEW q \in QueryTrees, \A r \in QueryTrees : Depth[r] < Depth[q] => r \in T PROVE q \in T
  <2>1. \A r \in QueryTrees : Depth[r] < Depth[q] => AliasesOf[r] \in Seq(Entries)
    BY <1>5, <1>14, <1>15
  <2>2. Around(q, AliasParts(q, AliasesOf), AliasesOf) \in Seq(Entries)
    BY <1>1, <2>1
  <2>3. AliasesOf[q] \in S
    BY <1>5, <1>12, <2>2
  <2>4. QED
    BY <1>14, <2>3
<1>16. QueryTrees \subseteq T
  BY <1>0, <1>15, InnerFirst
<1>17. \A q \in QueryTrees : AliasesOf[q] \in Seq(Entries)
  BY <1>5, <1>14, <1>16
<1>18. AliasesOf \in [QueryTrees -> Seq(Entries)]
  BY <1>13, <1>17
<1>19. QED
  BY <1>12, <1>18

\* And its tables as TablesOf says.
LEMMA TablesAre ==
  /\ TablesOf \in [QueryTrees -> Seq(Ids)]
  /\ \A q \in QueryTrees : TablesOf[q] = Around(q, TableParts(q, TablesOf), TablesOf)
<1> DEFINE B == [f \in [QueryTrees -> Seq(Ids)] |-> [q \in QueryTrees |-> Around(q, TableParts(q, f), f)]]
<1>0. Depth \in [QueryTrees -> Nat]
  BY QueryAssumption
<1>1. ASSUME NEW f, NEW q \in QueryTrees, \A r \in QueryTrees : Depth[r] < Depth[q] => f[r] \in Seq(Ids)
      PROVE  Around(q, TableParts(q, f), f) \in Seq(Ids)
  <2>1. PICK parts : parts = TableParts(q, f)
    OBVIOUS
  <2>2. q.body.kind = "select" => parts \in Seq(Seq(Ids))
    BY <1>1, <2>1, FactorType
  <2>3. Around(q, parts, f) \in Seq(Ids)
    BY <1>1, <2>2, AroundType
  <2>4. QED
    BY <2>1, <2>3
<1>2. PICK b : b = B
  OBVIOUS
<1>3. b \in [[QueryTrees -> Seq(Ids)] -> [QueryTrees -> Seq(Ids)]]
  BY <1>1, <1>2
<1>4. ASSUME NEW f \in [QueryTrees -> Seq(Ids)], NEW g \in [QueryTrees -> Seq(Ids)], NEW q \in QueryTrees,
             \A r \in QueryTrees : Depth[r] < Depth[q] => f[r] = g[r]
      PROVE  b[f][q] = b[g][q]
  <2>1. PICK parts : parts = TableParts(q, f)
    OBVIOUS
  <2>2. PICK more : more = TableParts(q, g)
    OBVIOUS
  <2>3. q.body.kind = "select" => parts = more
    BY <1>4, <2>1, <2>2, FactorAlike
  <2>4. Around(q, parts, f) = Around(q, more, g)
    BY <1>4, <2>3, AroundAlike
  <2>5. QED
    BY <1>2, <2>1, <2>2, <2>4
<1>5. PICK S : S = Seq(Ids)
  OBVIOUS
<1> HIDE DEF B
<1>8. \E f \in [QueryTrees -> S] : f = b[f]
  <2>1. Inward(b, QueryTrees, Depth, S)
    BY <1>0, <1>3, <1>4, <1>5 DEF Inward
  <2>2. <<>> \in S
    BY <1>5
  <2>3. QED
    BY <2>1, <2>2, WalkExists
<1> DEFINE Walks(f) == f = [q \in QueryTrees |-> Collect(q, FactorTables, f)]
<1>9. \E f : Walks(f)
  <2>1. PICK f \in [QueryTrees -> S] : f = b[f]
    BY <1>8
  <2>2. f = [q \in QueryTrees |-> Around(q, TableParts(q, f), f)]
    BY <1>2, <1>5, <2>1 DEF B
  <2>3. \A q \in QueryTrees : Collect(q, FactorTables, f) = Around(q, TableParts(q, f), f)
    BY Collected
  <2>4. Walks(f)
    BY <2>2, <2>3
  <2>5. QED
    BY <2>4
<1>10. TablesOf = CHOOSE f : Walks(f)
  BY DEF TablesOf
<1>11. Walks(TablesOf)
  <2> HIDE DEF Walks
  <2>1. QED
    BY <1>9, <1>10
<1>12. \A q \in QueryTrees : TablesOf[q] = Around(q, TableParts(q, TablesOf), TablesOf)
  <2>1. \A q \in QueryTrees : TablesOf[q] = Collect(q, FactorTables, TablesOf)
    BY <1>11
  <2>2. QED
    BY <2>1, Collected
<1>13. DOMAIN TablesOf = QueryTrees /\ TablesOf = [q \in QueryTrees |-> TablesOf[q]]
  <2>1. PICK f : f = TablesOf
    OBVIOUS
  <2>2. f = [q \in QueryTrees |-> Collect(q, FactorTables, f)]
    BY <1>11, <2>1
  <2>3. DOMAIN f = QueryTrees /\ f = [q \in QueryTrees |-> f[q]]
    BY <2>2
  <2>4. QED
    BY <2>1, <2>3
<1>14. PICK T : T = {q \in QueryTrees : TablesOf[q] \in S}
  OBVIOUS
<1>15. ASSUME NEW q \in QueryTrees, \A r \in QueryTrees : Depth[r] < Depth[q] => r \in T PROVE q \in T
  <2>1. \A r \in QueryTrees : Depth[r] < Depth[q] => TablesOf[r] \in Seq(Ids)
    BY <1>5, <1>14, <1>15
  <2>2. Around(q, TableParts(q, TablesOf), TablesOf) \in Seq(Ids)
    BY <1>1, <2>1
  <2>3. TablesOf[q] \in S
    BY <1>5, <1>12, <2>2
  <2>4. QED
    BY <1>14, <2>3
<1>16. QueryTrees \subseteq T
  BY <1>0, <1>15, InnerFirst
<1>17. \A q \in QueryTrees : TablesOf[q] \in Seq(Ids)
  BY <1>5, <1>14, <1>16
<1>18. TablesOf \in [QueryTrees -> Seq(Ids)]
  BY <1>13, <1>17
<1>19. QED
  BY <1>12, <1>18

\* A walk that goes on in parentheses alone.
InParentheses(f, F, z) ==
  f = [q \in QueryTrees |-> IF q.body.kind = "select" THEN F[q]
                           ELSE IF q.body.kind = "nested" THEN f[q.body.query] ELSE z]

\* There is such a walk, a text in parentheses being less deep than they are.
LEMMA ParenthesesWalk ==
  ASSUME NEW F, NEW z
  PROVE  \E f : InParentheses(f, F, z)
<1> DEFINE In(f, q) == IF q.body.kind = "select" THEN F[q]
                      ELSE IF q.body.kind = "nested" THEN f[q.body.query] ELSE z
           R == {F[q] : q \in QueryTrees} \union {z}
           B == [f \in [QueryTrees -> R] |-> [q \in QueryTrees |-> In(f, q)]]
<1>1. ASSUME NEW f \in [QueryTrees -> R], NEW q \in QueryTrees PROVE In(f, q) \in R
  <2>2. q.body.kind = "nested" => f[q.body.query] \in R
    <3>1. q.body.kind = "nested" => q.body.query \in QueryTrees
      BY InsideIs
    <3> HIDE DEF R
    <3>2. QED
      BY <3>1
  <2>3. QED
    BY <2>2
<1>2. ASSUME NEW f \in [QueryTrees -> R], NEW g \in [QueryTrees -> R], NEW q \in QueryTrees,
             \A r \in QueryTrees : Depth[r] < Depth[q] => f[r] = g[r]
      PROVE  In(f, q) = In(g, q)
  <2>1. q.body.kind = "nested" => f[q.body.query] = g[q.body.query]
    BY <1>2, InsideIs
  <2>2. QED
    BY <2>1
<1>3. PICK S : S = R
  OBVIOUS
<1>4. z \in S
  BY <1>3
<1> HIDE DEF R, In
<1>5. PICK b : b = B
  OBVIOUS
<1>6. Inward(b, QueryTrees, Depth, S)
  <2>1. b \in [[QueryTrees -> S] -> [QueryTrees -> S]]
    BY <1>1, <1>3, <1>5
  <2>2. \A f \in [QueryTrees -> S], q \in QueryTrees : b[f][q] = In(f, q)
    BY <1>3, <1>5
  <2>3. QED
    <3>1. Depth \in [QueryTrees -> Nat]
      BY QueryAssumption
    <3>2. \A e, g \in [QueryTrees -> S], q \in QueryTrees :
            (\A r \in QueryTrees : Depth[r] < Depth[q] => e[r] = g[r]) => In(e, q) = In(g, q)
      BY <1>2, <1>3
    <3>3. \A e, g \in [QueryTrees -> S], q \in QueryTrees :
            (\A r \in QueryTrees : Depth[r] < Depth[q] => e[r] = g[r]) => b[e][q] = b[g][q]
      BY <2>2, <3>2
    <3>4. QED
      BY <2>1, <3>1, <3>3 DEF Inward
<1>7. PICK f \in [QueryTrees -> S] : f = b[f]
  BY <1>4, <1>6, WalkExists
<1>8. f = [q \in QueryTrees |-> In(f, q)]
  BY <1>3, <1>5, <1>7
<1>9. InParentheses(f, F, z)
  BY <1>8, Zenon DEF In, InParentheses
<1>10. QED
  BY <1>9

\* The first select of a select is itself, and the server takes it if it is clear.
LEMMA SelectIs ==
  ASSUME NEW q \in QueryTrees, q.body.kind = "select"
  PROVE  FirstSelect[q] = <<q.body>> /\ Taken[q] = Clear(q)
<1>1. FirstSelect[q] = <<q.body>>
  <2>1. PICK F : F = [r \in QueryTrees |-> <<r.body>>]
    OBVIOUS
  <2> DEFINE Walks(f) == f = [r \in QueryTrees |-> IF r.body.kind = "select" THEN <<r.body>>
                                           ELSE IF r.body.kind = "nested" THEN f[r.body.query] ELSE <<>>]
  <2>2. PICK f : InParentheses(f, F, <<>>)
    BY ParenthesesWalk, Zenon
  <2>3. Walks(f)
    <3>1. \A r \in QueryTrees : F[r] = <<r.body>>
      BY <2>1
    <3>2. f = [r \in QueryTrees |-> IF r.body.kind = "select" THEN F[r]
                                           ELSE IF r.body.kind = "nested" THEN f[r.body.query] ELSE <<>>]
      BY <2>2, Zenon DEF InParentheses
    <3>3. QED
      BY <3>1, <3>2
  <2>4. FirstSelect = CHOOSE h : Walks(h)
    BY DEF FirstSelect
  <2>5. Walks(FirstSelect)
    <3> HIDE DEF Walks
    <3>1. QED
      BY <2>3, <2>4
  <2>6. QED
    BY <2>5
<1>2. Taken[q] = Clear(q)
  <2>1. PICK F : F = [r \in QueryTrees |-> Clear(r)]
    OBVIOUS
  <2> DEFINE Walks(f) == f = [r \in QueryTrees |-> IF r.body.kind = "select" THEN Clear(r)
                                           ELSE IF r.body.kind = "nested" THEN f[r.body.query] ELSE TRUE]
  <2>2. PICK f : InParentheses(f, F, TRUE)
    BY ParenthesesWalk, Zenon
  <2>3. Walks(f)
    <3>1. \A r \in QueryTrees : F[r] = Clear(r)
      BY <2>1
    <3>2. f = [r \in QueryTrees |-> IF r.body.kind = "select" THEN F[r]
                                           ELSE IF r.body.kind = "nested" THEN f[r.body.query] ELSE TRUE]
      BY <2>2, Zenon DEF InParentheses
    <3>3. QED
      BY <3>1, <3>2
  <2>4. Taken = CHOOSE h : Walks(h)
    BY DEF Taken
  <2>5. Walks(Taken)
    <3> HIDE DEF Walks
    <3>1. QED
      BY <2>3, <2>4
  <2>6. QED
    BY <2>5
<1>3. QED
  BY <1>1, <1>2

-----------------------------------------------------------------------------
(* The aliases and the tables of a text                                     *)

\* The statements of a text, and the queries in them.
LEMMA StatementIs ==
  ASSUME NEW t \in Texts
  PROVE  \E n \in Nat : /\ DOMAIN t = 1 .. n /\ Len(t) = n
                        /\ \A i \in 1 .. n : /\ t[i] \in Statements
                                             /\ t[i].kind \in {"query", "update", "delete"} => t[i].query \in QueryTrees
                                             /\ t[i].kind = "insert" => t[i].table \in Ids
<1>1. t \in Seq(Statements)
  BY QueryAssumption
<1>2. PICK n \in Nat : DOMAIN t = 1 .. n /\ Len(t) = n
  BY <1>1, LenProperties
<1>3. PICK S : S = Statements
  OBVIOUS
<1>4. \A i \in 1 .. n : t[i] \in S
  BY <1>1, <1>2, <1>3
<1>5. \A st \in S : /\ st.kind \in {"query", "update", "delete"} => st.query \in QueryTrees
                    /\ st.kind = "insert" => st.table \in Ids
  BY <1>3 DEF Statements
<1>6. QED
  BY <1>2, <1>3, <1>4, <1>5

\* The map of a text has the aliases of its queries and updates.
LEMMA MapIs ==
  ASSUME NEW t \in Texts
  PROVE  /\ BuildAliasMap(t) \in Seq(Entries)
         /\ \A x : x \in ToSet(BuildAliasMap(t)) <=>
              \E i \in DOMAIN t : t[i].kind \in {"query", "update"} /\ x \in ToSet(AliasesOf[t[i].query])
<1>1. PICK n \in Nat : /\ DOMAIN t = 1 .. n
                       /\ \A i \in 1 .. n : t[i].kind \in {"query", "update"} => t[i].query \in QueryTrees
  BY StatementIs
<1>2. PICK parts : parts = [i \in DOMAIN t |-> IF t[i].kind \in {"query", "update"} THEN AliasesOf[t[i].query] ELSE <<>>]
  OBVIOUS
<1>3. parts \in Seq(Seq(Entries)) /\ DOMAIN parts = 1 .. n
  <2>1. PICK S : S = Seq(Entries)
    OBVIOUS
  <2>2. <<>> \in S /\ \A q \in QueryTrees : AliasesOf[q] \in S
    BY <2>1, AliasesAre
  <2>3. parts \in [1 .. n -> S]
    BY <1>1, <1>2, <2>2
  <2>4. QED
    BY <2>1, <2>3, FunctionIsSeq
<1>4. BuildAliasMap(t) = FlattenSeq(parts)
  BY <1>2, Zenon DEF BuildAliasMap, Concat
<1>5. FlattenSeq(parts) \in Seq(Entries) /\ ToSet(FlattenSeq(parts)) = UNION {ToSet(parts[i]) : i \in DOMAIN parts}
  BY <1>3, FlattenedSet
<1>6. \A x : x \in ToSet(FlattenSeq(parts)) <=> \E i \in 1 .. n : x \in ToSet(parts[i])
  BY <1>3, <1>5, Zenon
<1>7. \A x, i : i \in 1 .. n => (x \in ToSet(parts[i]) <=> t[i].kind \in {"query", "update"} /\ x \in ToSet(AliasesOf[t[i].query]))
  <2>1. ToSet(<<>>) = {}
    BY DEF ToSet
  <2>2. \A i \in 1 .. n : parts[i] = IF t[i].kind \in {"query", "update"} THEN AliasesOf[t[i].query] ELSE <<>>
    BY <1>1, <1>2
  <2>3. QED
    BY <2>1, <2>2
<1>8. \A x : x \in ToSet(FlattenSeq(parts)) <=>
               \E i \in 1 .. n : t[i].kind \in {"query", "update"} /\ x \in ToSet(AliasesOf[t[i].query])
  BY <1>6, <1>7, Zenon
<1>9. QED
  BY <1>1, <1>4, <1>5, <1>8

\* The tables of a text are those of its statements.
LEMMA ReferencedAre ==
  ASSUME NEW t \in Texts
  PROVE  /\ ExtractReferencedTables(t) \in Seq(Ids)
         /\ \A x : x \in ToSet(ExtractReferencedTables(t)) <=>
              \E i \in DOMAIN t : \/ t[i].kind \in {"query", "update", "delete"} /\ x \in ToSet(TablesOf[t[i].query])
                                  \/ t[i].kind = "insert" /\ x = t[i].table
<1>1. PICK n \in Nat : /\ DOMAIN t = 1 .. n
                       /\ \A i \in 1 .. n : /\ t[i] \in Statements
                                            /\ t[i].kind \in {"query", "update", "delete"} => t[i].query \in QueryTrees
                                            /\ t[i].kind = "insert" => t[i].table \in Ids
  BY StatementIs
<1> DEFINE Of(st) == CASE st.kind \in {"query", "update", "delete"} -> TablesOf[st.query]
                       [] st.kind = "insert"                        -> <<st.table>>
                       [] st.kind = "other"                         -> <<>>
<1>2. PICK parts : parts = [i \in DOMAIN t |-> Of(t[i])]
  OBVIOUS
<1>3. ASSUME NEW i \in 1 .. n
      PROVE  /\ Of(t[i]) \in Seq(Ids)
             /\ \A x : x \in ToSet(Of(t[i])) <=>
                         \/ t[i].kind \in {"query", "update", "delete"} /\ x \in ToSet(TablesOf[t[i].query])
                         \/ t[i].kind = "insert" /\ x = t[i].table
  <2>1. PICK st : st = t[i]
    OBVIOUS
  <2>2. /\ st \in Statements
        /\ st.kind \in {"query", "update", "delete"} => st.query \in QueryTrees
        /\ st.kind = "insert" => st.table \in Ids
    BY <1>1, <2>1
  <2>3. ToSet(<<>>) = {} /\ \A x : ToSet(<<x>>) = {x}
    BY DEF ToSet
  <2>4. CASE st.kind \in {"query", "update", "delete"}
    <3>1. Of(st) = TablesOf[st.query] /\ st.kind # "insert"
      BY <2>4
    <3>2. TablesOf[st.query] \in Seq(Ids)
      BY <2>2, <2>4, TablesAre
    <3>3. QED
      BY <2>1, <2>4, <3>1, <3>2
  <2>5. CASE st.kind = "insert"
    <3>1. Of(st) = <<st.table>> /\ ~(st.kind \in {"query", "update", "delete"})
      BY <2>5
    <3>2. <<st.table>> \in Seq(Ids)
      BY <2>2, <2>5
    <3>3. QED
      BY <2>1, <2>3, <2>5, <3>1, <3>2
  <2>6. CASE st.kind = "other"
    <3>1. Of(st) = <<>> /\ ~(st.kind \in {"query", "update", "delete"}) /\ st.kind # "insert"
      BY <2>6
    <3>2. <<>> \in Seq(Ids)
      OBVIOUS
    <3>3. QED
      BY <2>1, <2>3, <3>1, <3>2
  <2>7. st.kind \in {"query", "update", "delete"} \/ st.kind = "insert" \/ st.kind = "other"
    BY <2>2 DEF Statements
  <2>8. QED
    BY <2>4, <2>5, <2>6, <2>7
<1> HIDE DEF Of
<1>4. parts \in Seq(Seq(Ids)) /\ DOMAIN parts = 1 .. n
  <2>1. PICK S : S = Seq(Ids)
    OBVIOUS
  <2>2. parts \in [1 .. n -> S]
    BY <1>1, <1>2, <1>3, <2>1
  <2>3. QED
    BY <2>1, <2>2, FunctionIsSeq
<1>5. PICK s : s = FlattenSeq(parts)
  OBVIOUS
<1>6. s \in Seq(Ids) /\ ToSet(s) = UNION {ToSet(parts[i]) : i \in DOMAIN parts}
  BY <1>4, <1>5, FlattenedSet
<1>7. ExtractReferencedTables(t) = Dedup(s)
  BY <1>2, <1>5, Zenon DEF ExtractReferencedTables, Concat, Of
<1>8. Dedup(s) \in Seq(Ids) /\ ToSet(Dedup(s)) = ToSet(s)
  BY <1>6, DedupSet
<1>9. \A x : x \in ToSet(s) <=> \E i \in 1 .. n : x \in ToSet(parts[i])
  BY <1>4, <1>6, Zenon
<1>10. \A i \in 1 .. n : parts[i] = Of(t[i])
  BY <1>1, <1>2
<1>11. \A x : x \in ToSet(s) <=> \E i \in 1 .. n : x \in ToSet(Of(t[i]))
  BY <1>9, <1>10
<1>12. \A x : x \in ToSet(s) <=>
         \E i \in 1 .. n : \/ t[i].kind \in {"query", "update", "delete"} /\ x \in ToSet(TablesOf[t[i].query])
                           \/ t[i].kind = "insert" /\ x = t[i].table
  BY <1>3, <1>11, Zenon
<1>13. QED
  BY <1>1, <1>7, <1>8, <1>12

\* All entries of that name agree, and if there are none the name is the table's own.
StandsFor(map, id, to) ==
  /\ to # NoId /\ \A e \in ToSet(map) : e.id = id => e.to = to
  /\ id = to \/ \E e \in ToSet(map) : e.id = id

\* A name stands for what every alias of that name stands for, or for itself.
LEMMA ResolveIs ==
  ASSUME NEW map \in Seq(Entries), NEW id, NEW to, StandsFor(map, id, to)
  PROVE  Resolve(map, id) = to
<1>0. /\ to # NoId /\ \A e \in ToSet(map) : e.id = id => e.to = to
      /\ id = to \/ \E e \in ToSet(map) : e.id = id
  BY DEF StandsFor
<1>1. PICK n \in Nat : n = Len(map) /\ DOMAIN map = 1 .. n
  BY LenProperties
<1>2. PICK T : T = {i \in 1 .. n : map[i].id = id}
  OBVIOUS
<1>3. PICK i : i = IF T # {} THEN Max(T) ELSE 0
  OBVIOUS
<1>4. Resolve(map, id) = IF i = 0 THEN id ELSE IF map[i].to = NoId THEN id ELSE map[i].to
  BY <1>1, <1>2, <1>3, Zenon DEF Resolve, SelectLastInSeq
<1>5. CASE T = {}
  <2>1. ~\E e \in ToSet(map) : e.id = id
    BY <1>1, <1>2, <1>5 DEF ToSet
  <2>2. QED
    BY <1>0, <1>3, <1>4, <1>5, <2>1
<1>6. CASE T # {}
  <2>1. T \subseteq 1 .. n
    BY <1>2
  <2>2. i \in T
    BY <1>3, <1>6, <2>1, MaxIsGreatest
  <2>3. i \in 1 .. n /\ map[i].id = id
    BY <1>2, <2>2
  <2>4. map[i] \in ToSet(map)
    BY <1>1, <2>3 DEF ToSet
  <2>5. map[i].to = to /\ i # 0
    BY <1>0, <2>3, <2>4
  <2>6. QED
    BY <1>0, <1>4, <2>5
<1>7. QED
  BY <1>5, <1>6

\* A table with an alias is in the map.
LEMMA AliasIsEntered ==
  ASSUME NEW q \in QueryTrees, q.body.kind = "select", NEW k \in DOMAIN q.body.from,
         q.body.from[k].kind = "table", q.body.from[k].alias # NoId
  PROVE  [id |-> q.body.from[k].alias, to |-> q.body.from[k].name] \in ToSet(AliasesOf[q])
<1>1. PICK parts : parts = AliasParts(q, AliasesOf)
  OBVIOUS
<1>2. \A r \in QueryTrees : AliasesOf[r] \in Seq(Entries)
  BY AliasesAre
<1>3. parts \in Seq(Seq(Entries))
  BY <1>1, <1>2, FactorType
<1>4. k \in DOMAIN parts /\ parts[k] = FactorAliases(q.body.from[k], AliasesOf)
  BY <1>1, Zenon DEF AliasParts
<1>5. PICK e : e = [id |-> q.body.from[k].alias, to |-> q.body.from[k].name]
  OBVIOUS
<1>6. parts[k] = <<e>>
  BY <1>4, <1>5 DEF FactorAliases, Bind
<1>7. e \in ToSet(parts[k])
  BY <1>6 DEF ToSet
<1>8. e \in ToSet(Around(q, parts, AliasesOf))
  BY <1>2, <1>3, <1>4, <1>7, AroundType
<1>9. QED
  BY <1>1, <1>5, <1>8, AliasesAre

\* The columns of a text that begins with a select are found by that select's
\* stars and by what it mentions.
LEMMA ColumnsOfSelect ==
  ASSUME NEW t \in Texts, t # <<>>, t[1].kind = "query", t[1].query.body.kind = "select",
         NEW map, map = BuildAliasMap(t), NEW referenced, referenced = ExtractReferencedTables(t)
  PROVE  \A pair : pair \in ExtractColumnRefs(t) <=>
           \/ \E of \in t[1].query.body.stars : pair \in ExpandWildcard(map, referenced, of)
           \/ \E token \in Mentioned(t[1].query.body) : pair \in ResolveToken(map, referenced, token)
<1>1. PICK n \in Nat : /\ DOMAIN t = 1 .. n /\ Len(t) = n
                       /\ \A i \in 1 .. n : t[i].kind \in {"query", "update", "delete"} => t[i].query \in QueryTrees
  BY StatementIs
<1>2. 1 \in 1 .. n
  <2>1. n # 0
    <3>1. t \in Seq(Statements)
      BY QueryAssumption
    <3>2. QED
      BY <1>1, <3>1, EmptySeq
  <2>2. QED
    BY <2>1
<1>3. PICK s : s = t[1].query.body
  OBVIOUS
<1>4. FirstSelect[t[1].query] = <<s>>
  <2>1. t[1].query \in QueryTrees
    BY <1>1, <1>2
  <2>2. QED
    BY <1>3, <2>1, SelectIs
<1>5. PICK T : T = {i \in 1 .. n : t[i].kind = "query" /\ FirstSelect[t[i].query] # <<>>}
  OBVIOUS
<1>6. 1 \in T /\ T \subseteq Nat
  BY <1>2, <1>4, <1>5
<1>7. PICK query : query = IF T # {} THEN Min(T) ELSE 0
  OBVIOUS
<1>8. query = 1
  <2>1. query \in T /\ query <= 1
    BY <1>6, <1>7, MinIsLeast
  <2>2. query \in 1 .. n
    BY <1>5, <2>1
  <2>3. QED
    BY <2>1, <2>2
<1>9. SelectInSeq(t, LAMBDA st : st.kind = "query" /\ FirstSelect[st.query] # <<>>) = query
  BY <1>1, <1>5, <1>7, Zenon DEF SelectInSeq
<1>10. ExtractColumnRefs(t) = IF query = 0 THEN {} ELSE ColumnsOf(map, referenced, FirstSelect[t[query].query][1])
  BY <1>9, Zenon DEF ExtractColumnRefs
<1>11. ExtractColumnRefs(t) = ColumnsOf(map, referenced, s)
  BY <1>4, <1>8, <1>10
<1>12. \A pair : pair \in ColumnsOf(map, referenced, s) <=>
              \/ \E of \in s.stars : pair \in ExpandWildcard(map, referenced, of)
              \/ \E token \in Mentioned(s) : pair \in ResolveToken(map, referenced, token)
  BY Zenon DEF ColumnsOf
<1>13. QED
  BY <1>3, <1>11, <1>12

\* What is collected is all that is named outside of Exotic forms, and nothing else
\* than what is named.
LEMMA MentionedIs ==
  ASSUME NEW q \in QueryTrees, q.body.kind = "select"
  PROVE  PlainNamed(q.body) \subseteq Mentioned(q.body) /\ Mentioned(q.body) \subseteq AllNamed(q.body)
<1>1. q.body.mentions \in [Places -> SUBSET Mentions]
  BY QueryAssumption
<1>2. AllNamed(q.body) = UNION {q.body.mentions[p] : p \in Places}
  BY <1>1 DEF AllNamed, Range
<1>3. \A token \in AllNamed(q.body) : token.under \subseteq Common \union Exotic
  BY <1>1, <1>2 DEF Mentions
<1>4. Common \subseteq Walked
  BY DEF Common, Walked
<1>5. QED
  BY <1>2, <1>3, <1>4 DEF PlainNamed, Mentioned

-----------------------------------------------------------------------------
(* What is recorded                                                         *)

\* The columns are those of the text, which the server has taken.
Recorded ==
  text # <<>> => /\ text \in Texts
                 /\ \A st \in ToSet(text) : st.kind = "query" => Taken[st.query]
                 /\ columns = ExtractColumnRefs(text)

\* It is an invariant: record_query writes all three rows, and nothing else writes them.
LEMMA RecordedInv == RefsSpec => []Recorded
<1>1. RefsInit => Recorded
  BY DEF RefsInit, Recorded
<1>2. Recorded /\ [RefsNext]_refsVars => Recorded'
  <2>1. SUFFICES ASSUME Recorded, [RefsNext]_refsVars PROVE Recorded'
    OBVIOUS
  <2>2. CASE RecordQuery
    BY <2>2 DEF RecordQuery, Recorded
  <2>3. CASE Return
    BY <2>3 DEF Return, Recorded
  <2>4. CASE UNCHANGED refsVars
    BY <2>1, <2>4 DEF Recorded, refsVars
  <2>5. QED
    BY <2>1, <2>2, <2>3, <2>4 DEF RefsNext
<1>3. QED
  BY <1>1, <1>2, PTL DEF RefsSpec

\* QualifiedIsCounted: a column that the first select mentions under the name or the
\* alias of one of its tables is counted for that table (resolve_token alias.rs:314-337).
THEOREM QualifiedCounts == RefsSpec => []QualifiedIsCounted
<1>1. Recorded => QualifiedIsCounted
  <2>1. SUFFICES ASSUME Recorded, text # <<>>, text[1].kind = "query", text[1].query.body.kind = "select",
                        NEW token \in PlainNamed(text[1].query.body), NEW k \in DOMAIN text[1].query.body.from,
                        text[1].query.body.from[k].kind = "table", HasCol(text[1].query.body.from[k].name, token.name),
                        token.of # NoId, token.of = Binding(text[1].query.body.from[k]),
                        Unshared(token.of, text[1].query.body.from[k].name)
                 PROVE  <<text[1].query.body.from[k].name, token.name>> \in columns
    BY DEF QualifiedIsCounted
  <2>2. PICK q : q = text[1].query
    OBVIOUS
  <2>3. PICK f : f = q.body.from[k]
    OBVIOUS
  <2>4. PICK map : map = BuildAliasMap(text)
    OBVIOUS
  <2>5. PICK referenced : referenced = ExtractReferencedTables(text)
    OBVIOUS
  <2>6. text \in Texts /\ columns = ExtractColumnRefs(text)
    BY <2>1 DEF Recorded
  <2>7. 1 \in DOMAIN text /\ q \in QueryTrees
    <3>1. PICK n \in Nat : /\ DOMAIN text = 1 .. n /\ Len(text) = n
                           /\ \A i \in 1 .. n : text[i].kind \in {"query", "update", "delete"} => text[i].query \in QueryTrees
      BY <2>6, StatementIs
    <3>2. text \in Seq(Statements)
      BY <2>6, QueryAssumption
    <3>3. n # 0
      BY <2>1, <3>1, <3>2, EmptySeq
    <3>4. QED
      BY <2>1, <2>2, <3>1, <3>3
  <2>8. \A pair : (\E e \in Mentioned(q.body) : pair \in ResolveToken(map, referenced, e)) => pair \in columns
    BY <2>1, <2>2, <2>4, <2>5, <2>6, ColumnsOfSelect
  <2>9. f.name # NoId
    BY <2>1, <2>2, <2>3, SchemaAssumption DEF HasCol
  <2>10. map \in Seq(Entries) /\ \A e \in ToSet(map) : e.id = token.of => e.to = f.name
    BY <2>1, <2>2, <2>3, <2>4, <2>6, MapIs DEF Unshared
  <2>11. token.of = f.name \/ \E e \in ToSet(map) : e.id = token.of
    <3>1. SUFFICES ASSUME f.alias # NoId PROVE \E e \in ToSet(map) : e.id = token.of
      BY <2>1, <2>2, <2>3, ZenonT(30) DEF Binding
    <3>2. token.of = f.alias
      BY <2>1, <2>2, <2>3, <3>1 DEF Binding
    <3>3. [id |-> f.alias, to |-> f.name] \in ToSet(AliasesOf[q])
      BY <2>1, <2>2, <2>3, <2>7, <3>1, AliasIsEntered
    <3>4. [id |-> f.alias, to |-> f.name] \in ToSet(map)
      <4>1. text[1].kind \in {"query", "update"}
        BY <2>1
      <4>2. QED
        BY <2>2, <2>4, <2>6, <2>7, <3>3, <4>1, MapIs
    <3>5. QED
      BY <3>2, <3>4
  <2>12. Resolve(map, token.of) = f.name
    <3>1. PICK to : to = f.name
      OBVIOUS
    <3>2. PICK id : id = token.of
      OBVIOUS
    <3>3. Resolve(map, id) = to
      <4>1. map \in Seq(Entries)
        BY <2>10
      <4>2. StandsFor(map, id, to)
        BY <2>9, <2>10, <2>11, <3>1, <3>2 DEF StandsFor
      <4>3. QED
        BY <4>1, <4>2, ResolveIs
    <3>4. QED
      BY <3>1, <3>2, <3>3
  <2>13. ResolveToken(map, referenced, token) = {<<f.name, token.name>>}
    <3>1. HasCol(f.name, token.name)
      BY <2>1, <2>2, <2>3
    <3>2. ResolveToken(map, referenced, token) =
            IF HasCol(Resolve(map, token.of), token.name) THEN {<<Resolve(map, token.of), token.name>>} ELSE {}
      BY <2>1, Zenon DEF ResolveToken
    <3>3. QED
      BY <2>12, <3>1, <3>2
  <2>14. <<f.name, token.name>> \in ResolveToken(map, referenced, token)
    BY <2>13
  <2>15. token \in Mentioned(q.body)
    BY <2>1, <2>2, <2>7, MentionedIs
  <2>16. <<f.name, token.name>> \in columns
    BY <2>8, <2>14, <2>15
  <2>17. QED
    BY <2>2, <2>3, <2>16
<1>2. QED
  BY <1>1, RecordedInv, PTL

-----------------------------------------------------------------------------
(* A select over tables                                                     *)

\* A select over tables: the name of each, and what it is called in the select.
PlainQuery(q, n, name, called) ==
  /\ q \in QueryTrees /\ q.ctes = <<>> /\ q.body.kind = "select" /\ DOMAIN q.body.from = 1 .. n
  /\ \A i \in 1 .. n : q.body.from[i].kind = "table" /\ q.body.from[i].name \in Tables
  /\ name = [i \in 1 .. n |-> q.body.from[i].name] /\ called = [i \in 1 .. n |-> Binding(q.body.from[i])]

\* The entry of a factor with an alias.
IsEntry(q, n, x) ==
  \E i \in 1 .. n : /\ q.body.from[i].alias # NoId
                    /\ x = [id |-> q.body.from[i].alias, to |-> q.body.from[i].name]

\* A select over tables has the aliases that it states.
LEMMA PlainAliases ==
  ASSUME NEW q, NEW n \in Nat, NEW name, NEW called, PlainQuery(q, n, name, called)
  PROVE  \A x : x \in ToSet(AliasesOf[q]) <=> IsEntry(q, n, x)
<1>1. /\ q \in QueryTrees /\ q.ctes = <<>> /\ q.body.kind = "select" /\ DOMAIN q.body.from = 1 .. n
      /\ \A i \in 1 .. n : q.body.from[i].kind = "table" /\ q.body.from[i].name \in Tables
  BY DEF PlainQuery
<1>2. DOMAIN q.ctes = {}
  BY <1>1
<1>3. ToSet(<<>>) = {} /\ \A x : ToSet(<<x>>) = {x}
  BY DEF ToSet
<1>4. \A x : x \in ToSet(AliasesOf[q]) <=>
        \E i \in 1 .. n : /\ q.body.from[i].alias # NoId
                          /\ x = [id |-> q.body.from[i].alias, to |-> q.body.from[i].name]
  <2>1. PICK parts : parts = AliasParts(q, AliasesOf)
    OBVIOUS
  <2>2. \A r \in QueryTrees : AliasesOf[r] \in Seq(Entries)
    BY AliasesAre
  <2>3. parts \in Seq(Seq(Entries))
    BY <1>1, <2>1, <2>2, FactorType
  <2>4. \A x : x \in ToSet(Around(q, parts, AliasesOf)) <=>
          \/ \E i \in DOMAIN q.ctes : x \in ToSet(AliasesOf[q.ctes[i].query])
          \/ \E i \in DOMAIN parts : x \in ToSet(parts[i])
    BY <1>1, <2>2, <2>3, AroundType
  <2>5. DOMAIN parts = 1 .. n
    BY <1>1, <2>1 DEF AliasParts
  <2>6. \A i \in 1 .. n : parts[i] = Bind(q.body.from[i], q.body.from[i].name)
    <3>1. \A i \in 1 .. n : parts[i] = FactorAliases(q.body.from[i], AliasesOf)
      BY <1>1, <2>1 DEF AliasParts
    <3>2. \A i \in 1 .. n : q.body.from[i].kind = "table"
      BY <1>1
    <3>3. QED
      BY <3>1, <3>2 DEF FactorAliases
  <2>7. \A f, to, x : x \in ToSet(Bind(f, to)) <=> f.alias # NoId /\ x = [id |-> f.alias, to |-> to]
    BY <1>3 DEF Bind
  <2>8. AliasesOf[q] = Around(q, parts, AliasesOf)
    BY <1>1, <2>1, AliasesAre
  <2>9. \A x : x \in ToSet(AliasesOf[q]) <=> \E i \in 1 .. n : x \in ToSet(Bind(q.body.from[i], q.body.from[i].name))
    BY <1>2, <2>4, <2>5, <2>6, <2>8
  <2>10. \A x, i : x \in ToSet(Bind(q.body.from[i], q.body.from[i].name)) <=>
                      /\ q.body.from[i].alias # NoId
                      /\ x = [id |-> q.body.from[i].alias, to |-> q.body.from[i].name]
    BY <2>7
  <2>11. QED
    BY <2>9, <2>10
<1>5. QED
  BY <1>4 DEF IsEntry

\* One of the tables in FROM.
IsName(n, name, x) == \E i \in 1 .. n : x = name[i]

\* And the tables that it names.
LEMMA PlainTables ==
  ASSUME NEW q, NEW n \in Nat, NEW name, NEW called, PlainQuery(q, n, name, called)
  PROVE  \A x : x \in ToSet(TablesOf[q]) <=> IsName(n, name, x)
<1>1. /\ q \in QueryTrees /\ q.ctes = <<>> /\ q.body.kind = "select" /\ DOMAIN q.body.from = 1 .. n
      /\ \A i \in 1 .. n : q.body.from[i].kind = "table" /\ q.body.from[i].name \in Tables
  BY DEF PlainQuery
<1>2. DOMAIN q.ctes = {}
  BY <1>1
<1>3. \A x : ToSet(<<x>>) = {x}
  BY DEF ToSet
<1>4. \A x : x \in ToSet(TablesOf[q]) <=> \E i \in 1 .. n : x = name[i]
  <2>1. PICK parts : parts = TableParts(q, TablesOf)
    OBVIOUS
  <2>2. \A r \in QueryTrees : TablesOf[r] \in Seq(Ids)
    BY TablesAre
  <2>3. parts \in Seq(Seq(Ids))
    BY <1>1, <2>1, <2>2, FactorType
  <2>4. \A x : x \in ToSet(Around(q, parts, TablesOf)) <=>
          \/ \E i \in DOMAIN q.ctes : x \in ToSet(TablesOf[q.ctes[i].query])
          \/ \E i \in DOMAIN parts : x \in ToSet(parts[i])
    BY <1>1, <2>2, <2>3, AroundType
  <2>5. DOMAIN parts = 1 .. n
    BY <1>1, <2>1 DEF TableParts
  <2>6. \A i \in 1 .. n : parts[i] = <<q.body.from[i].name>>
    <3>1. \A i \in 1 .. n : parts[i] = FactorTables(q.body.from[i], TablesOf)
      BY <1>1, <2>1 DEF TableParts
    <3>2. \A i \in 1 .. n : q.body.from[i].kind = "table"
      BY <1>1
    <3>3. QED
      BY <3>1, <3>2 DEF FactorTables
  <2>7. TablesOf[q] = Around(q, parts, TablesOf)
    BY <1>1, <2>1, TablesAre
  <2>8. \A i \in 1 .. n : ToSet(parts[i]) = {name[i]}
    BY <1>3, <2>6 DEF PlainQuery
  <2>9. \A x : x \in ToSet(TablesOf[q]) <=> \E i \in 1 .. n : x \in ToSet(parts[i])
    BY <1>2, <2>4, <2>5, <2>7
  <2>10. QED
    BY <2>8, <2>9
<1>5. QED
  BY <1>4 DEF IsName

\* What the columns of a select over tables are looked up in: the tables in FROM,
\* each found under what it is called.
Lookup(n, name, called, map, referenced) ==
  /\ name \in [1 .. n -> Tables] /\ called \in [1 .. n -> Ids] /\ referenced \in Seq(Ids)
  /\ \A x : x \in ToSet(referenced) <=> \E i \in 1 .. n : x = name[i]
  /\ \A i \in 1 .. n : Resolve(map, called[i]) = name[i]

\* A text of one such select, taken by the server, is looked up in its own tables.
LEMMA PlainLookup ==
  ASSUME NEW t \in Texts, OverTables(t), NEW q, q = t[1].query, Clear(q),
         NEW n \in Nat, NEW name, NEW called, PlainQuery(q, n, name, called)
  PROVE  Lookup(n, name, called, BuildAliasMap(t), ExtractReferencedTables(t))
<1>1. /\ q \in QueryTrees /\ q.body.kind = "select" /\ DOMAIN q.body.from = 1 .. n
      /\ \A i \in 1 .. n : q.body.from[i].kind = "table" /\ q.body.from[i].name \in Tables
      /\ name = [i \in 1 .. n |-> q.body.from[i].name] /\ called = [i \in 1 .. n |-> Binding(q.body.from[i])]
  BY DEF PlainQuery
<1>2. DOMAIN t = {1} /\ t[1].kind = "query"
  <2>1. t \in Seq(Statements) /\ Len(t) = 1
    BY QueryAssumption DEF OverTables
  <2>2. DOMAIN t = 1 .. 1
    BY <2>1, LenProperties
  <2>3. QED
    BY <2>2 DEF OverTables
<1>3. PICK map \in Seq(Entries) : map = BuildAliasMap(t)
  BY MapIs
<1>4. PICK referenced \in Seq(Ids) : referenced = ExtractReferencedTables(t)
  BY ReferencedAre
<1>5. \A x : x \in ToSet(map) <=> IsEntry(q, n, x)
  <2>1. \A x : x \in ToSet(map) <=> \E i \in DOMAIN t : t[i].kind \in {"query", "update"} /\ x \in ToSet(AliasesOf[t[i].query])
    BY <1>3, MapIs
  <2>2. \A x : x \in ToSet(map) <=> x \in ToSet(AliasesOf[q])
    BY <1>2, <2>1
  <2>3. \A x : x \in ToSet(AliasesOf[q]) <=> IsEntry(q, n, x)
    BY PlainAliases
  <2>4. QED
    BY <2>2, <2>3
<1>6. \A x : x \in ToSet(referenced) <=> x \in ToSet(TablesOf[q])
  <2>1. \A x : x \in ToSet(referenced) <=>
          \E i \in DOMAIN t : \/ t[i].kind \in {"query", "update", "delete"} /\ x \in ToSet(TablesOf[t[i].query])
                              \/ t[i].kind = "insert" /\ x = t[i].table
    BY <1>4, ReferencedAre
  <2>2. QED
    BY <1>2, <2>1
<1>7. name \in [1 .. n -> Tables]
  BY <1>1
<1>8. \A i \in 1 .. n : q.body.from[i] \in Factors
  BY <1>1, InsideIs
<1>9. called \in [1 .. n -> Ids]
  <2>1. \A i \in 1 .. n : Binding(q.body.from[i]) \in Ids
    BY <1>1, <1>8, SchemaAssumption, ZenonT(30) DEF Binding, Factors
  <2>2. called = [i \in 1 .. n |-> Binding(q.body.from[i])]
    BY <1>1
  <2>3. QED
    BY <2>1, <2>2
<1>10. \A x : x \in ToSet(referenced) <=> \E i \in 1 .. n : x = name[i]
  <2>1. \A x : x \in ToSet(TablesOf[q]) <=> IsName(n, name, x)
    BY PlainTables
  <2>2. QED
    BY <1>6, <2>1 DEF IsName
<1>11. ASSUME NEW i \in 1 .. n, NEW j \in 1 .. n, called[i] = called[j] PROVE i = j
  <2>1. \A k \in 1 .. n : Called(q.body.from[k]) = {called[k]}
    BY <1>1 DEF Called
  <2>2. i # j => Called(q.body.from[i]) \cap Called(q.body.from[j]) = {}
    BY <1>1, Zenon DEF Clear
  <2>3. QED
    BY <1>11, <2>1, <2>2
<1>12. ASSUME NEW i \in 1 .. n PROVE Resolve(map, called[i]) = name[i]
  <2>1. PICK f : f = q.body.from[i]
    OBVIOUS
  <2>2. name[i] = f.name /\ called[i] = Binding(f)
    BY <1>1, <2>1
  <2>3. PICK id : id = called[i]
    OBVIOUS
  <2>4. PICK to : to = name[i]
    OBVIOUS
  <2>5. to # NoId
    BY <1>7, <2>4, SchemaAssumption
  <2>6. ASSUME NEW e \in ToSet(map), e.id = id PROVE e.to = to
    <3>1. PICK j \in 1 .. n : /\ q.body.from[j].alias # NoId
                              /\ e = [id |-> q.body.from[j].alias, to |-> q.body.from[j].name]
      BY <1>5 DEF IsEntry
    <3>2. called[j] = q.body.from[j].alias /\ name[j] = q.body.from[j].name
      BY <1>1, <3>1 DEF Binding
    <3>3. e.id = called[j] /\ e.to = name[j]
      BY <3>1, <3>2
    <3>4. i = j
      BY <1>11, <2>3, <2>6, <3>3
    <3>5. QED
      BY <2>4, <3>3, <3>4
  <2>7. id = to \/ \E e \in ToSet(map) : e.id = id
    <3>1. CASE f.alias = NoId
      BY <2>2, <2>3, <2>4, <3>1 DEF Binding
    <3>2. CASE f.alias # NoId
      <4>1. PICK e : e = [id |-> f.alias, to |-> f.name]
        OBVIOUS
      <4>2. e \in ToSet(map)
        BY <1>1, <1>5, <2>1, <3>2, <4>1 DEF IsEntry
      <4>3. e.id = id
        BY <2>2, <2>3, <3>2, <4>1 DEF Binding
      <4>4. QED
        BY <4>2, <4>3
    <3>3. QED
      BY <3>1, <3>2
  <2>8. StandsFor(map, id, to)
    BY <2>5, <2>6, <2>7 DEF StandsFor
  <2>9. Resolve(map, id) = to
    BY <2>8, ResolveIs
  <2>10. QED
    BY <2>3, <2>4, <2>9
<1>13. QED
  BY <1>3, <1>4, <1>7, <1>9, <1>10, <1>12 DEF Lookup

\* The table in the place i has the column of the token, under the token's qualifier.
FitsAt(name, called, token, i) == token.name \in Schema[name[i]] /\ token.of \in {NoId, called[i]}

\* A token that one table in FROM alone has a column for is attributed to that table.
LEMMA TokenFound ==
  ASSUME NEW n \in Nat, NEW name, NEW called, NEW map, NEW referenced, Lookup(n, name, called, map, referenced),
         NEW token, NEW i \in 1 .. n, FitsAt(name, called, token, i),
         \A j \in 1 .. n : FitsAt(name, called, token, j) => j = i
  PROVE  ResolveToken(map, referenced, token) = {<<name[i], token.name>>}
<1>1. /\ name \in [1 .. n -> Tables] /\ called \in [1 .. n -> Ids] /\ referenced \in Seq(Ids)
      /\ \A x : x \in ToSet(referenced) <=> \E j \in 1 .. n : x = name[j]
      /\ \A j \in 1 .. n : Resolve(map, called[j]) = name[j]
  BY DEF Lookup
<1>2. HasCol(name[i], token.name)
  BY <1>1 DEF HasCol, FitsAt
<1>3. CASE token.of # NoId
  <2>1. token.of = called[i]
    BY <1>3 DEF FitsAt
  <2>2. Resolve(map, token.of) = name[i]
    BY <1>1, <2>1
  <2>3. ResolveToken(map, referenced, token) =
          IF HasCol(Resolve(map, token.of), token.name) THEN {<<Resolve(map, token.of), token.name>>} ELSE {}
    BY <1>3, Zenon DEF ResolveToken
  <2>4. QED
    BY <1>2, <2>2, <2>3
<1>4. CASE token.of = NoId
  <2>1. PICK m \in Nat : m = Len(referenced) /\ DOMAIN referenced = 1 .. m
    BY <1>1, LenProperties
  <2>2. PICK T : T = {k \in 1 .. m : HasCol(referenced[k], token.name)}
    OBVIOUS
  <2>3. PICK owner : owner = IF T # {} THEN Min(T) ELSE 0
    OBVIOUS
  <2>4. PICK k \in 1 .. m : referenced[k] = name[i]
    <3>1. name[i] \in ToSet(referenced)
      BY <1>1
    <3>2. QED
      BY <2>1, <3>1 DEF ToSet
  <2>5. T # {} /\ T \subseteq Nat
    BY <1>2, <2>2, <2>4
  <2>6. owner \in T
    BY <2>3, <2>5, MinIsLeast
  <2>7. owner \in 1 .. m /\ HasCol(referenced[owner], token.name)
    BY <2>2, <2>6
  <2>8. PICK j \in 1 .. n : referenced[owner] = name[j]
    <3>1. referenced[owner] \in ToSet(referenced)
      BY <2>1, <2>7 DEF ToSet
    <3>2. QED
      BY <1>1, <3>1
  <2>9. FitsAt(name, called, token, j)
    BY <1>4, <2>7, <2>8 DEF FitsAt, HasCol
  <2>10. referenced[owner] = name[i] /\ owner # 0
    BY <2>7, <2>8, <2>9
  <2>11. referenced # <<>>
    BY <2>1, <2>4
  <2>12. ResolveToken(map, referenced, token) = IF owner = 0 THEN {} ELSE {<<referenced[owner], token.name>>}
    <3>1. SelectInSeq(referenced, LAMBDA u : HasCol(u, token.name)) = owner
      BY <2>1, <2>2, <2>3, Zenon DEF SelectInSeq
    <3>2. QED
      BY <1>4, <2>11, <3>1, Zenon DEF ResolveToken
  <2>13. QED
    BY <2>10, <2>12
<1>5. QED
  BY <1>3, <1>4

\* The column c of the table in the place i, in the scope of the select.
Column(name, called, i, c) == <<i, [of |-> called[i], name |-> c, from |-> <<name[i], c>>]>>

\* A column that the select sees.
InScope(n, name, called, x) == \E i \in 1 .. n : \E c \in Schema[name[i]] : x = Column(name, called, i, c)

\* A select over tables sees their columns.
LEMMA ScopeIs ==
  ASSUME NEW q, NEW n \in Nat, NEW name, NEW called, PlainQuery(q, n, name, called)
  PROVE  \A x : x \in Scope(q) <=> InScope(n, name, called, x)
<1>1. /\ q.ctes = <<>> /\ DOMAIN q.body.from = 1 .. n /\ \A i \in 1 .. n : q.body.from[i].kind = "table"
  BY DEF PlainQuery
<1>2. ASSUME NEW f, f.kind = "table"
      PROVE  Shown(q.ctes, f, OutputOf) = {[of |-> Binding(f), name |-> c, from |-> <<f.name, c>>] : c \in Schema[f.name]}
  <2>1. {i \in DOMAIN q.ctes : q.ctes[i].name = f.name} = {}
    BY <1>1
  <2>2. QED
    BY <1>2, <2>1 DEF Shown
<1>3. PICK seen : seen = [i \in 1 .. n |-> {i} \X Shown(q.ctes, q.body.from[i], OutputOf)]
  OBVIOUS
<1>4. \A x : x \in Scope(q) <=> \E i \in 1 .. n : x \in seen[i]
  <2>1. \A x : x \in Scope(q) <=> \E i \in 1 .. n : x \in {i} \X Shown(q.ctes, q.body.from[i], OutputOf)
    BY <1>1, Zenon DEF Scope
  <2>2. \A i \in 1 .. n : seen[i] = {i} \X Shown(q.ctes, q.body.from[i], OutputOf)
    BY <1>3
  <2>3. QED
    BY <2>1, <2>2
<1>5. ASSUME NEW i \in 1 .. n, NEW x
      PROVE  x \in seen[i] <=> \E c \in Schema[name[i]] : x = Column(name, called, i, c)
  <2>1. PICK f : f = q.body.from[i]
    OBVIOUS
  <2>2. PICK S : S = Shown(q.ctes, f, OutputOf)
    OBVIOUS
  <2>3. S = {[of |-> Binding(f), name |-> c, from |-> <<f.name, c>>] : c \in Schema[f.name]}
    BY <1>1, <1>2, <2>1, <2>2
  <2>4. called[i] = Binding(f) /\ name[i] = f.name
    BY <2>1 DEF PlainQuery
  <2>5. \A y : y \in S <=> \E c \in Schema[name[i]] : y = [of |-> called[i], name |-> c, from |-> <<name[i], c>>]
    BY <2>3, <2>4
  <2>6. x \in {i} \X S <=> \E y \in S : x = <<i, y>>
    OBVIOUS
  <2>7. x \in {i} \X S <=> \E c \in Schema[name[i]] : x = <<i, [of |-> called[i], name |-> c, from |-> <<name[i], c>>]>>
    BY <2>5, <2>6
  <2>8. QED
    BY <1>3, <2>1, <2>2, <2>7 DEF Column
<1>6. QED
  BY <1>4, <1>5 DEF InScope

\* Every token of a select that the server has taken fits the column of one table.
LEMMA OneMeaning ==
  ASSUME NEW q, NEW n \in Nat, NEW name, NEW called, PlainQuery(q, n, name, called), Clear(q),
         NEW token \in AllNamed(q.body)
  PROVE  \E i \in 1 .. n : FitsAt(name, called, token, i) /\ \A j \in 1 .. n : FitsAt(name, called, token, j) => j = i
<1>1. PICK S : S = {x \in Scope(q) : Fits(x[2], token)}
  OBVIOUS
<1>2. \A x : x \in Scope(q) <=> InScope(n, name, called, x)
  BY ScopeIs
<1>3. \A i, c : Fits(Column(name, called, i, c)[2], token) <=> c = token.name /\ token.of \in {NoId, called[i]}
  BY DEF Fits, Column
<1>4. \A x : x \in S <=> \E i \in 1 .. n : FitsAt(name, called, token, i) /\ x = Column(name, called, i, token.name)
  <2>1. \A x : x \in S <=> x \in Scope(q) /\ Fits(x[2], token)
    BY <1>1
  <2>2. QED
    BY <1>2, <1>3, <2>1 DEF FitsAt, InScope
<1>5. Cardinality(S) = 1
  <2>1. \A i \in DOMAIN q.body.from : q.body.from[i].kind = "table" => q.body.from[i].name \in Tables \union {c.name : c \in ToSet(q.ctes)}
    BY DEF PlainQuery
  <2>2. \A e \in AllNamed(q.body) : Cardinality({x \in Scope(q) : Fits(x[2], e)}) = 1
    BY <2>1, Zenon DEF Clear
  <2>3. QED
    BY <1>1, <2>2
<1>6. IsFiniteSet(S)
  <2>1. PICK f : f = [i \in 1 .. n |-> Column(name, called, i, token.name)]
    OBVIOUS
  <2>2. PICK T : T = {f[i] : i \in 1 .. n}
    OBVIOUS
  <2>3. f \in Surjection(1 .. n, T)
    BY <2>1, <2>2 DEF Surjection
  <2>4. IsFiniteSet(1 .. n)
    BY FS_Interval
  <2>5. IsFiniteSet(T)
    BY <2>3, <2>4, FS_Surjection
  <2>6. S \subseteq T
    BY <1>4, <2>1, <2>2
  <2>7. QED
    BY <2>5, <2>6, FS_Subset
<1>7. PICK x : S = {x}
  BY <1>5, <1>6, FS_Singleton
<1>8. PICK i \in 1 .. n : FitsAt(name, called, token, i) /\ x = Column(name, called, i, token.name)
  BY <1>4, <1>7
<1>9. ASSUME NEW j \in 1 .. n, FitsAt(name, called, token, j) PROVE j = i
  <2>1. Column(name, called, j, token.name) = Column(name, called, i, token.name)
    BY <1>4, <1>7, <1>8, <1>9
  <2>2. QED
    BY <2>1 DEF Column
<1>10. QED
  BY <1>8, <1>9

\* A select over tables reads what its stars and the tokens fit.
LEMMA ReadsAre ==
  ASSUME NEW q, NEW n \in Nat, NEW name, NEW called, PlainQuery(q, n, name, called), NEW tokens
  PROVE  \A pair : pair \in Reads(q, tokens) <=>
           \E i \in 1 .. n : \E c \in Schema[name[i]] :
              /\ pair = <<name[i], c>>
              /\ \/ \E of \in q.body.stars : of \in {NoId, called[i]}
                 \/ \E token \in tokens : c = token.name /\ FitsAt(name, called, token, i)
<1>1. \A x : x \in Scope(q) <=> InScope(n, name, called, x)
  BY ScopeIs
<1> DEFINE Read(x) == \/ \E of \in q.body.stars : of \in {NoId, x[2].of}
                      \/ \E token \in tokens : Fits(x[2], token)
<1>2. ASSUME NEW i \in 1 .. n, NEW c \in Schema[name[i]]
      PROVE  /\ Column(name, called, i, c)[2].from = <<name[i], c>>
             /\ Read(Column(name, called, i, c)) <=>
                  \/ \E of \in q.body.stars : of \in {NoId, called[i]}
                  \/ \E token \in tokens : c = token.name /\ FitsAt(name, called, token, i)
  <2>1. PICK e : e = Column(name, called, i, c)[2]
    OBVIOUS
  <2>2. e.of = called[i] /\ e.name = c /\ e.from = <<name[i], c>>
    BY <2>1 DEF Column
  <2>3. \A token : Fits(e, token) <=> c = token.name /\ FitsAt(name, called, token, i)
    BY <2>2 DEF Fits, FitsAt
  <2>4. Read(Column(name, called, i, c)) <=> \/ \E of \in q.body.stars : of \in {NoId, e.of}
                                            \/ \E token \in tokens : Fits(e, token)
    BY <2>1
  <2>5. QED
    BY <2>1, <2>2, <2>3, <2>4
<1>3. \A pair : pair \in Reads(q, tokens) <=> \E x \in Scope(q) : Read(x) /\ pair = x[2].from
  BY Zenon DEF Reads
<1> HIDE DEF Read
<1>4. \A pair : pair \in Reads(q, tokens) <=>
        \E i \in 1 .. n : \E c \in Schema[name[i]] :
           Read(Column(name, called, i, c)) /\ pair = Column(name, called, i, c)[2].from
  BY <1>1, <1>3 DEF InScope
<1>5. QED
  BY <1>2, <1>4

\* The pair is a column of a table in FROM that the star stands for.
StarSees(n, name, called, of, pair) ==
  \E i \in 1 .. n : \E c \in Schema[name[i]] : pair = <<name[i], c>> /\ of \in {NoId, called[i]}

\* A bare star stands for all tables in FROM, a qualified one for those of that name.
LEMMA StarFound ==
  ASSUME NEW n \in Nat, NEW name, NEW called, NEW map, NEW referenced, Lookup(n, name, called, map, referenced),
         NEW of, of = NoId \/ \E i \in 1 .. n : of = called[i]
  PROVE  \A pair : pair \in ExpandWildcard(map, referenced, of) <=> StarSees(n, name, called, of, pair)
<1>1. /\ name \in [1 .. n -> Tables] /\ called \in [1 .. n -> Ids]
      /\ \A x : x \in ToSet(referenced) <=> \E j \in 1 .. n : x = name[j]
      /\ \A j \in 1 .. n : Resolve(map, called[j]) = name[j]
  BY DEF Lookup
<1>2. PICK expanded : expanded = IF of = NoId THEN ToSet(referenced) ELSE {Resolve(map, of)}
  OBVIOUS
<1>3. \A x : x \in expanded <=> \E i \in 1 .. n : x = name[i] /\ of \in {NoId, called[i]}
  <2>1. CASE of = NoId
    BY <1>1, <1>2, <2>1
  <2>2. CASE of # NoId
    <3>1. PICK i \in 1 .. n : of = called[i]
      BY <2>2
    <3>2. expanded = {name[i]}
      BY <1>1, <1>2, <2>2, <3>1
    <3>3. \A j \in 1 .. n : of = called[j] => name[j] = name[i]
      BY <1>1, <3>1
    <3>4. QED
      BY <2>2, <3>1, <3>2, <3>3
  <2>3. QED
    BY <2>1, <2>2
<1>4. ExpandWildcard(map, referenced, of) = UNION {{t} \X Schema[t] : t \in expanded \cap Tables}
  BY <1>2, Zenon DEF ExpandWildcard
<1>5. \A pair : pair \in ExpandWildcard(map, referenced, of) <=> \E t \in expanded \cap Tables : \E c \in Schema[t] : pair = <<t, c>>
  BY <1>4
<1>6. QED
  BY <1>1, <1>3, <1>5 DEF StarSees

\* What is found for a text of one select over tables is what the select reads
\* by its stars and by what is collected.
LEMMA PlainFound ==
  ASSUME NEW t \in Texts, OverTables(t), NEW q \in QueryTrees, q = t[1].query, Clear(q)
  PROVE  ExtractColumnRefs(t) = Reads(q, Mentioned(q.body))
<1>1. /\ t # <<>> /\ t[1].kind = "query" /\ q.ctes = <<>> /\ q.body.kind = "select"
      /\ \A f \in ToSet(q.body.from) : f.kind = "table" /\ f.name \in Tables
  <2>1. t \in Seq(Statements) /\ Len(t) = 1
    BY QueryAssumption DEF OverTables
  <2>2. QED
    BY <2>1 DEF OverTables
<1>2. PICK n \in Nat : DOMAIN q.body.from = 1 .. n
  <2>1. PICK from : from = q.body.from
    OBVIOUS
  <2>2. from \in Seq(Factors)
    BY <1>1, <2>1, InsideIs
  <2>3. QED
    BY <2>1, <2>2, LenProperties
<1>3. PICK name : name = [i \in 1 .. n |-> q.body.from[i].name]
  OBVIOUS
<1>4. PICK called : called = [i \in 1 .. n |-> Binding(q.body.from[i])]
  OBVIOUS
<1>5. PlainQuery(q, n, name, called)
  <2>1. \A i \in 1 .. n : q.body.from[i] \in ToSet(q.body.from)
    BY <1>2 DEF ToSet
  <2>2. QED
    BY <1>1, <1>2, <1>3, <1>4, <2>1 DEF PlainQuery
<1>6. PICK map : map = BuildAliasMap(t)
  OBVIOUS
<1>7. PICK referenced : referenced = ExtractReferencedTables(t)
  OBVIOUS
<1>8. Lookup(n, name, called, map, referenced)
  BY <1>5, <1>6, <1>7, PlainLookup
<1>9. \A pair : pair \in ExtractColumnRefs(t) <=>
        \/ \E of \in q.body.stars : pair \in ExpandWildcard(map, referenced, of)
        \/ \E token \in Mentioned(q.body) : pair \in ResolveToken(map, referenced, token)
  BY <1>1, <1>6, <1>7, ColumnsOfSelect
<1>10. Mentioned(q.body) \subseteq AllNamed(q.body)
  BY <1>1, MentionedIs
<1>11. ASSUME NEW of \in q.body.stars, NEW pair
       PROVE  pair \in ExpandWildcard(map, referenced, of) <=> StarSees(n, name, called, of, pair)
  <2>1. of = NoId \/ \E i \in 1 .. n : of = called[i]
    <3>1. \A e \in q.body.stars \ {NoId} : \E i \in DOMAIN q.body.from : e \in Called(q.body.from[i])
      BY DEF Clear
    <3>2. \A i \in 1 .. n : Called(q.body.from[i]) = {called[i]}
      BY <1>4, <1>5 DEF Called, PlainQuery
    <3>3. SUFFICES ASSUME of # NoId PROVE \E i \in 1 .. n : of = called[i]
      OBVIOUS
    <3>4. PICK i \in 1 .. n : of \in Called(q.body.from[i])
      BY <1>2, <3>1, <3>3
    <3>5. of = called[i]
      BY <3>2, <3>4
    <3>6. QED
      BY <3>5
  <2>2. QED
    BY <1>8, <2>1, StarFound
<1>12. ASSUME NEW token \in Mentioned(q.body)
       PROVE  \E i \in 1 .. n : /\ FitsAt(name, called, token, i)
                                /\ \A j \in 1 .. n : FitsAt(name, called, token, j) => j = i
                                /\ ResolveToken(map, referenced, token) = {<<name[i], token.name>>}
  <2>1. PICK i \in 1 .. n : FitsAt(name, called, token, i) /\ \A j \in 1 .. n : FitsAt(name, called, token, j) => j = i
    BY <1>5, <1>10, OneMeaning
  <2>2. ResolveToken(map, referenced, token) = {<<name[i], token.name>>}
    BY <1>8, <2>1, TokenFound
  <2>3. QED
    BY <2>1, <2>2
<1>13. \A pair : pair \in Reads(q, Mentioned(q.body)) <=>
         \E i \in 1 .. n : \E c \in Schema[name[i]] :
            /\ pair = <<name[i], c>>
            /\ \/ \E of \in q.body.stars : of \in {NoId, called[i]}
               \/ \E token \in Mentioned(q.body) : c = token.name /\ FitsAt(name, called, token, i)
  BY <1>5, ReadsAre
<1>14. ASSUME NEW pair \in ExtractColumnRefs(t) PROVE pair \in Reads(q, Mentioned(q.body))
  <2>1. CASE \E of \in q.body.stars : pair \in ExpandWildcard(map, referenced, of)
    BY <1>11, <1>13, <2>1 DEF StarSees
  <2>2. CASE \E token \in Mentioned(q.body) : pair \in ResolveToken(map, referenced, token)
    <3>1. PICK token \in Mentioned(q.body) : pair \in ResolveToken(map, referenced, token)
      BY <2>2
    <3>2. PICK i \in 1 .. n : FitsAt(name, called, token, i) /\ ResolveToken(map, referenced, token) = {<<name[i], token.name>>}
      BY <1>12
    <3>3. pair = <<name[i], token.name>> /\ token.name \in Schema[name[i]]
      BY <3>1, <3>2 DEF FitsAt
    <3>4. QED
      BY <1>13, <3>2, <3>3
  <2>3. QED
    BY <1>9, <2>1, <2>2
<1>15. ASSUME NEW pair \in Reads(q, Mentioned(q.body)) PROVE pair \in ExtractColumnRefs(t)
  <2>0. PICK i \in 1 .. n :
          \E c \in Schema[name[i]] :
             /\ pair = <<name[i], c>>
             /\ \/ \E of \in q.body.stars : of \in {NoId, called[i]}
                \/ \E token \in Mentioned(q.body) : c = token.name /\ FitsAt(name, called, token, i)
    BY <1>13
  <2>1. PICK c \in Schema[name[i]] :
          /\ pair = <<name[i], c>>
          /\ \/ \E of \in q.body.stars : of \in {NoId, called[i]}
             \/ \E token \in Mentioned(q.body) : c = token.name /\ FitsAt(name, called, token, i)
    BY <2>0
  <2>2. CASE \E of \in q.body.stars : of \in {NoId, called[i]}
    BY <1>9, <1>11, <2>1, <2>2 DEF StarSees
  <2>3. CASE \E token \in Mentioned(q.body) : c = token.name /\ FitsAt(name, called, token, i)
    <3>1. PICK token \in Mentioned(q.body) : c = token.name /\ FitsAt(name, called, token, i)
      BY <2>3
    <3>2. ResolveToken(map, referenced, token) = {<<name[i], token.name>>}
      BY <1>12, <3>1
    <3>3. QED
      BY <1>9, <2>1, <3>1, <3>2
  <2>4. QED
    BY <2>1, <2>2, <2>3
<1>16. QED
  BY <1>14, <1>15

\* PlainIsExact: what \stats counts for one select over tables is read by the select,
\* and all is counted that it reads outside of Exotic forms, under whatever aliases
\* (extract_column_refs alias.rs:363-419, collect_expr_columns alias.rs:217-297).
THEOREM PlainExact == RefsSpec => []PlainIsExact
<1>1. Recorded => PlainIsExact
  <2>1. SUFFICES ASSUME Recorded, OverTables(text), NEW q, q = text[1].query
                 PROVE  /\ Reads(q, PlainNamed(q.body)) \subseteq columns
                        /\ columns \subseteq Reads(q, AllNamed(q.body))
    BY DEF PlainIsExact
  <2>2. text # <<>> /\ Len(text) = 1 /\ text[1].kind = "query" /\ text[1].query.body.kind = "select"
    BY <2>1 DEF OverTables
  <2>3. /\ text \in Texts /\ columns = ExtractColumnRefs(text)
        /\ \A st \in ToSet(text) : st.kind = "query" => Taken[st.query]
    BY <2>1, <2>2 DEF Recorded
  <2>4. q = text[1].query
    BY <2>1
  <2>5. q \in QueryTrees /\ Taken[q]
    <3>1. PICK k \in Nat : /\ DOMAIN text = 1 .. k /\ Len(text) = k
                           /\ \A i \in 1 .. k : text[i].kind \in {"query", "update", "delete"} => text[i].query \in QueryTrees
      BY <2>3, StatementIs
    <3>2. 1 \in DOMAIN text /\ q \in QueryTrees
      BY <2>2, <2>4, <3>1
    <3>3. text[1] \in ToSet(text)
      BY <3>2 DEF ToSet
    <3>4. QED
      BY <2>2, <2>3, <2>4, <3>2, <3>3
  <2>6. Clear(q)
    <3>1. Taken[q] = Clear(q)
      BY <2>2, <2>4, <2>5, SelectIs
    <3>2. QED
      BY <2>5, <3>1, Zenon
  <2>7. PICK t : t = text
    OBVIOUS
  <2>8. ExtractColumnRefs(t) = Reads(q, Mentioned(q.body))
    <3>1. t \in Texts /\ OverTables(t) /\ q = t[1].query
      BY <2>1, <2>3, <2>4, <2>7
    <3>2. QED
      BY <2>5, <2>6, <3>1, PlainFound
  <2>9. columns = Reads(q, Mentioned(q.body))
    BY <2>3, <2>7, <2>8
  <2>10. PlainNamed(q.body) \subseteq Mentioned(q.body) /\ Mentioned(q.body) \subseteq AllNamed(q.body)
    BY <2>2, <2>4, <2>5, MentionedIs
  <2>11. ASSUME NEW small, NEW large, small \subseteq large PROVE Reads(q, small) \subseteq Reads(q, large)
    BY <2>11 DEF Reads
  <2>12. QED
    BY <2>9, <2>10, <2>11
<1>2. QED
  BY <1>1, RecordedInv, PTL

=============================================================================
