------------------------------ MODULE Cli_proofs ------------------------------
(***************************************************************************)
(* What Cli says of the commands and of the connection URLs that they read *)
(* holds for any alphabet, arguments, connections and URLs.                *)
(***************************************************************************)
EXTENDS Cli, SequenceTheorems, WellFoundedInduction, TLAPS

-----------------------------------------------------------------------------
(* The first and the last of a set of places                                *)

\* The least of a set of places is in it: places are well-founded.
LEMMA MinIsLeast ==
  ASSUME NEW S, S \subseteq Nat, S # {}
  PROVE  Min(S) \in S /\ \A n \in S : Min(S) <= n
<1>1. PICK m \in S : \A n \in S : <<n, m>> \notin OpToRel(<, Nat)
  BY WFMin, NatLessThanWellFounded, Zenon
<1>2. ASSUME NEW n \in S PROVE ~(n < m)
  <2>1. n \in Nat /\ m \in Nat
    OBVIOUS
  <2>2. QED
    BY <1>1, <2>1, Zenon DEF OpToRel
<1>3. \A n \in S : m <= n
  BY <1>2
<1>4. QED
  BY <1>3 DEF Min

\* The greatest of a bounded set of places is the least seen from the other end.
LEMMA MaxIsMost ==
  ASSUME NEW bound \in Nat, NEW S, S \subseteq 0..bound, S # {}
  PROVE  Max(S) \in S /\ \A n \in S : n <= Max(S)
<1> DEFINE above == {bound - n : n \in S}
<1>1. above \subseteq Nat /\ above # {}
  <2>1. \A n \in S : bound - n \in Nat
    OBVIOUS
  <2>2. QED
    BY <2>1, Zenon
<1>2. Min(above) \in above /\ \A k \in above : Min(above) <= k
  BY <1>1, MinIsLeast
<1>3. PICK m \in S : Min(above) = bound - m
  BY <1>2
<1>4. ASSUME NEW n \in S PROVE n <= m
  <2>1. bound - m <= bound - n
    BY <1>2, <1>3
  <2>2. QED
    BY <2>1
<1>5. QED
  BY <1>4 DEF Max

-----------------------------------------------------------------------------
(* Texts that are split where they were joined                              *)

\* Find is the first place of a character, and 0 if there is none.
LEMMA FindFirst ==
  ASSUME NEW S, NEW s \in Seq(S), NEW c
  PROVE  /\ Find(s, c) \in 0..Len(s)
         /\ Find(s, c) = 0 <=> c \notin ToSet(s)
         /\ Find(s, c) # 0 => s[Find(s, c)] = c /\ \A i \in 1..Len(s) : s[i] = c => Find(s, c) <= i
<1> DEFINE I == {i \in 1..Len(s) : s[i] = c}
<1>1. Len(s) \in Nat /\ DOMAIN s = 1..Len(s)
  BY LenProperties
<1>2. Find(s, c) = IF I # {} THEN Min(I) ELSE 0
  BY DEF Find, SelectInSeq
<1>3. I = {} <=> c \notin ToSet(s)
  BY <1>1 DEF ToSet
<1>4. I # {} => Min(I) \in I /\ \A i \in I : Min(I) <= i
  <2>1. I \subseteq Nat
    OBVIOUS
  <2> HIDE DEF I
  <2>2. QED
    BY <2>1, MinIsLeast
<1>5. QED
  BY <1>1, <1>2, <1>3, <1>4

\* RFind is the last place of a character, and 0 if there is none.
LEMMA RFindLast ==
  ASSUME NEW S, NEW s \in Seq(S), NEW c
  PROVE  /\ RFind(s, c) \in 0..Len(s)
         /\ RFind(s, c) = 0 <=> c \notin ToSet(s)
         /\ RFind(s, c) # 0 => s[RFind(s, c)] = c /\ \A i \in 1..Len(s) : s[i] = c => i <= RFind(s, c)
<1> DEFINE I == {i \in 1..Len(s) : s[i] = c}
<1>1. Len(s) \in Nat /\ DOMAIN s = 1..Len(s)
  BY LenProperties
<1>2. RFind(s, c) = IF I # {} THEN Max(I) ELSE 0
  BY DEF RFind, SelectLastInSeq
<1>3. I = {} <=> c \notin ToSet(s)
  BY <1>1 DEF ToSet
<1>4. I # {} => Max(I) \in I /\ \A i \in I : i <= Max(I)
  <2>1. I \subseteq 0..Len(s)
    BY <1>1
  <2> HIDE DEF I
  <2>2. QED
    BY <1>1, <2>1, MaxIsMost
<1>5. QED
  BY <1>1, <1>2, <1>3, <1>4

\* Two characters side by side are a pair.
LEMMA Pair ==
  ASSUME NEW S, NEW a \in S, NEW b \in S
  PROVE  <<a>> \o <<b>> = <<a, b>>
<1>1. <<a>> \in Seq(S) /\ <<b>> \in Seq(S) /\ <<a, b>> \in Seq(S)
  OBVIOUS
<1>2. PICK s \in Seq(S) : s = <<a>> \o <<b>>
  BY <1>1, ConcatProperties
<1>3. Len(s) = 2 /\ s[1] = a /\ s[2] = b
  BY <1>1, <1>2, ConcatProperties
<1>4. s = <<a, b>>
  <2>1. \A i \in 1..2 : s[i] = <<a, b>>[i]
    BY <1>3
  <2>2. QED
    BY <1>1, <1>3, <2>1, SeqEqual
<1>5. QED
  BY <1>2, <1>4

\* The characters of two texts together are those of either.
LEMMA ConcatToSet ==
  ASSUME NEW S, NEW a \in Seq(S), NEW b \in Seq(S)
  PROVE  ToSet(a \o b) = ToSet(a) \union ToSet(b)
<1>1. Len(a) \in Nat /\ Len(b) \in Nat /\ DOMAIN a = 1..Len(a) /\ DOMAIN b = 1..Len(b)
  BY LenProperties
<1>2. /\ DOMAIN (a \o b) = 1..Len(a) + Len(b)
      /\ \A i \in 1..Len(a) + Len(b) : (a \o b)[i] = IF i <= Len(a) THEN a[i] ELSE b[i - Len(a)]
  BY <1>1, ConcatProperties, LenProperties
<1>3. ASSUME NEW i \in DOMAIN (a \o b) PROVE (a \o b)[i] \in ToSet(a) \union ToSet(b)
  <2>1. CASE i <= Len(a)
    BY <1>1, <1>2, <2>1 DEF ToSet
  <2>2. CASE ~(i <= Len(a))
    <3>1. i - Len(a) \in DOMAIN b
      BY <1>1, <1>2, <2>2
    <3>2. QED
      BY <1>2, <2>2, <3>1 DEF ToSet
  <2>3. QED
    BY <2>1, <2>2
<1>4. ASSUME NEW i \in DOMAIN a PROVE a[i] \in ToSet(a \o b)
  <2>1. i \in DOMAIN (a \o b) /\ (a \o b)[i] = a[i]
    BY <1>1, <1>2
  <2>2. QED
    BY <2>1 DEF ToSet
<1>5. ASSUME NEW i \in DOMAIN b PROVE b[i] \in ToSet(a \o b)
  <2>1. Len(a) + i \in DOMAIN (a \o b) /\ (a \o b)[Len(a) + i] = b[i]
    BY <1>1, <1>2
  <2>2. QED
    BY <2>1 DEF ToSet
<1>6. ToSet(a \o b) \subseteq ToSet(a) \union ToSet(b)
  BY <1>3 DEF ToSet
<1>7. ToSet(a) \subseteq ToSet(a \o b) /\ ToSet(b) \subseteq ToSet(a \o b)
  BY <1>4, <1>5 DEF ToSet
<1>8. QED
  BY <1>6, <1>7

\* a c b, for a character c.
Joined(a, c, b) == a \o <<c>> \o b

IsJoined(s, a, c, b) ==
  /\ Len(s) = Len(a) + 1 + Len(b)
  /\ \A i \in 1..Len(a) : s[i] = a[i]
  /\ s[Len(a) + 1] = c
  /\ \A i \in 1..Len(b) : s[Len(a) + 1 + i] = b[i]

\* What is before the character that joins two texts, and what is behind it.
LEMMA JoinedType ==
  ASSUME NEW S, NEW a \in Seq(S), NEW b \in Seq(S), NEW c \in S
  PROVE  Joined(a, c, b) \in Seq(S) /\ IsJoined(Joined(a, c, b), a, c, b)
<1>1. Len(a) \in Nat /\ Len(b) \in Nat
  BY LenProperties
<1>2. <<c>> \in Seq(S) /\ Len(<<c>>) = 1 /\ <<c>>[1] = c
  OBVIOUS
<1>3. PICK ac \in Seq(S) : ac = a \o <<c>>
  BY <1>2, ConcatProperties
<1>4. /\ Len(ac) = Len(a) + 1
      /\ \A i \in 1..Len(a) : ac[i] = a[i]
      /\ ac[Len(a) + 1] = c
  BY <1>1, <1>2, <1>3, ConcatProperties
<1>5. /\ ac \o b \in Seq(S) /\ Len(ac \o b) = Len(ac) + Len(b)
      /\ \A i \in 1..Len(ac) + Len(b) : (ac \o b)[i] = IF i <= Len(ac) THEN ac[i] ELSE b[i - Len(ac)]
  BY ConcatProperties
<1>6. Joined(a, c, b) = ac \o b
  BY <1>3 DEF Joined
<1>7. QED
  BY <1>1, <1>4, <1>5, <1>6 DEF IsJoined

\* Cut at c, a c b is a and b again.
LEMMA Cut ==
  ASSUME NEW S, NEW a \in Seq(S), NEW b \in Seq(S), NEW c \in S
  PROVE  /\ Upto(Joined(a, c, b), Len(a) + 1) = a
         /\ Past(Joined(a, c, b), Len(a) + 1) = b
<1>1. Len(a) \in Nat /\ Len(b) \in Nat
  BY LenProperties
<1>2. PICK s \in Seq(S) : s = Joined(a, c, b) /\ IsJoined(s, a, c, b)
  BY JoinedType, Zenon
<1>3. /\ Len(s) = Len(a) + 1 + Len(b) /\ \A i \in 1..Len(a) : s[i] = a[i]
      /\ \A i \in 1..Len(b) : s[Len(a) + 1 + i] = b[i]
  BY <1>2 DEF IsJoined
<1>4. \A i \in 1..Len(s) : s[i] \in S
  BY ElementOfSeq
<1>5. Upto(s, Len(a) + 1) = a
  <2>1. PICK t : t = SubSeq(s, 1, Len(a))
    OBVIOUS
  <2>2. \A i \in 1..Len(a) : s[i] \in S
    BY <1>1, <1>3, <1>4
  <2>3. t \in Seq(S) /\ Len(t) = Len(a) /\ \A i \in 1..Len(a) : t[i] = s[i]
    BY <1>1, <2>1, <2>2, SubSeqProperties
  <2>4. t = a
    BY <1>3, <2>3, SeqEqual
  <2>5. QED
    BY <1>1, <2>1, <2>4 DEF Upto
<1>6. Past(s, Len(a) + 1) = b
  <2>1. PICK t : t = SubSeq(s, Len(a) + 2, Len(s))
    OBVIOUS
  <2>2. \A i \in Len(a) + 2 .. Len(s) : s[i] \in S
    BY <1>1, <1>3, <1>4
  <2>3. /\ t \in Seq(S) /\ Len(t) = IF Len(a) + 2 <= Len(s) THEN Len(s) - (Len(a) + 2) + 1 ELSE 0
        /\ \A i \in 1 .. Len(s) - (Len(a) + 2) + 1 : t[i] = s[Len(a) + 2 + i - 1]
    BY <1>1, <1>3, <2>1, <2>2, SubSeqProperties
  <2>4. Len(s) - (Len(a) + 2) + 1 = Len(b) /\ Len(t) = Len(b)
    BY <1>1, <1>3, <2>3
  <2>7. ASSUME NEW i \in 1..Len(b) PROVE t[i] = b[i]
    <3>1. Len(a) + 2 + i - 1 = Len(a) + 1 + i
      BY <1>1
    <3>2. QED
      BY <1>3, <2>3, <2>4, <3>1
  <2>5. t = b
    BY <2>3, <2>4, <2>7, SeqEqual
  <2>6. QED
    BY <1>1, <2>1, <2>5 DEF Past
<1>7. QED
  BY <1>2, <1>5, <1>6

\* c is found where it was put, if the part before it, or behind it, has none.
LEMMA FoundFirst ==
  ASSUME NEW S, NEW a \in Seq(S), NEW b \in Seq(S), NEW c \in S, c \notin ToSet(a)
  PROVE  Find(Joined(a, c, b), c) = Len(a) + 1
<1>1. Len(a) \in Nat /\ Len(b) \in Nat /\ DOMAIN a = 1..Len(a)
  BY LenProperties
<1>2. PICK s \in Seq(S) : s = Joined(a, c, b) /\ IsJoined(s, a, c, b)
  BY JoinedType, Zenon
<1>3. /\ Len(s) = Len(a) + 1 + Len(b) /\ \A i \in 1..Len(a) : s[i] = a[i]
      /\ s[Len(a) + 1] = c
  BY <1>2 DEF IsJoined
<1>4. \A i \in 1..Len(a) : s[i] # c
  BY <1>1, <1>3 DEF ToSet
<1>5. PICK k : k = Find(s, c)
  OBVIOUS
<1>6. k \in 0..Len(s) /\ (k = 0 <=> c \notin ToSet(s))
      /\ (k # 0 => s[k] = c /\ \A i \in 1..Len(s) : s[i] = c => k <= i)
  BY <1>5, FindFirst
<1>7. c \in ToSet(s)
  <2>1. Len(a) + 1 \in DOMAIN s
    BY <1>1, <1>3, LenProperties
  <2>2. QED
    BY <1>3, <2>1 DEF ToSet
<1>8. k = Len(a) + 1
  BY <1>1, <1>3, <1>4, <1>6, <1>7
<1>9. QED
  BY <1>2, <1>5, <1>8

\* A character that the second text does not have is last found where it joins.
LEMMA FoundLast ==
  ASSUME NEW S, NEW a \in Seq(S), NEW b \in Seq(S), NEW c \in S, c \notin ToSet(b)
  PROVE  RFind(Joined(a, c, b), c) = Len(a) + 1
<1>1. Len(a) \in Nat /\ Len(b) \in Nat /\ DOMAIN b = 1..Len(b)
  BY LenProperties
<1>2. PICK s \in Seq(S) : s = Joined(a, c, b) /\ IsJoined(s, a, c, b)
  BY JoinedType, Zenon
<1>3. /\ Len(s) = Len(a) + 1 + Len(b) /\ \A i \in 1..Len(b) : s[Len(a) + 1 + i] = b[i]
      /\ s[Len(a) + 1] = c
  BY <1>2 DEF IsJoined
<1>4. \A i \in 1..Len(b) : s[Len(a) + 1 + i] # c
  BY <1>1, <1>3 DEF ToSet
<1>5. PICK k : k = RFind(s, c)
  OBVIOUS
<1>6. k \in 0..Len(s) /\ (k = 0 <=> c \notin ToSet(s))
      /\ (k # 0 => s[k] = c /\ \A i \in 1..Len(s) : s[i] = c => i <= k)
  BY <1>5, RFindLast
<1>7. c \in ToSet(s)
  <2>1. Len(a) + 1 \in DOMAIN s
    BY <1>1, <1>3, LenProperties
  <2>2. QED
    BY <1>3, <2>1 DEF ToSet
<1>8. k >= Len(a) + 1
  BY <1>1, <1>3, <1>6, <1>7
<1>9. ~(k > Len(a) + 1)
  <2>1. SUFFICES ASSUME k > Len(a) + 1 PROVE FALSE
    OBVIOUS
  <2>2. k - (Len(a) + 1) \in 1..Len(b) /\ Len(a) + 1 + (k - (Len(a) + 1)) = k
    BY <1>1, <1>3, <1>6, <2>1
  <2>3. s[k] # c
    BY <1>4, <2>2
  <2>4. QED
    BY <1>6, <1>8, <1>1, <2>3
<1>10. QED
  BY <1>1, <1>2, <1>5, <1>6, <1>8, <1>9

-----------------------------------------------------------------------------
(* A URL that is read again                                                 *)

Letters == ToSet(Alphabet)
Signs   == Letters \union {":", "@", "/", "[", "]", "postgres://"}

\* A text that is written with escapes is read as it was, and has none of the
\* characters that must be escaped.
LEMMA EscapedType ==
  ASSUME NEW s, IsText(s), ToSet(s) \intersect DOMAIN Escapes = {},
         NEW must, must \intersect DOMAIN Escapes = {}, NEW t \in Escaped(s, must)
  PROVE  t \in Seq(Signs) /\ PercentDecode(t) = s /\ ToSet(t) \intersect must = {}
<1>1. s \in Seq(Letters) /\ Len(s) \in Nat /\ DOMAIN s = 1..Len(s) /\ s \in [1..Len(s) -> Letters]
  BY LenProperties DEF IsText, Letters
<1>2. /\ DOMAIN t = 1..Len(s) /\ t = [i \in 1..Len(s) |-> t[i]]
      /\ \A i \in 1..Len(s) : (t[i] \in DOMAIN Escapes /\ Escapes[t[i]] = s[i]) \/ (t[i] = s[i] /\ t[i] \notin must)
  BY <1>1 DEF Escaped
<1>3. \A i \in 1..Len(s) : s[i] \in Letters /\ s[i] \notin DOMAIN Escapes
  BY <1>1 DEF ToSet
<1>4. DOMAIN Escapes \subseteq Signs /\ Letters \subseteq Signs
  BY CliAssumption DEF Letters, Signs
<1>5. t \in Seq(Signs)
  <2>1. \A i \in 1..Len(s) : t[i] \in Signs
    BY <1>2, <1>3, <1>4
  <2>2. t \in [1..Len(s) -> Signs]
    BY <1>2, <2>1
  <2>3. QED
    BY <1>1, <2>2, SeqDef
<1>6. ToSet(t) \intersect must = {}
  BY <1>2 DEF ToSet
<1>7. PercentDecode(t) = s
  <2>1. PercentDecode(t) = [i \in 1..Len(s) |-> IF t[i] \in DOMAIN Escapes THEN Escapes[t[i]] ELSE t[i]]
    BY <1>2 DEF PercentDecode
  <2>2. \A i \in 1..Len(s) : (IF t[i] \in DOMAIN Escapes THEN Escapes[t[i]] ELSE t[i]) = s[i]
    BY <1>2, <1>3
  <2>3. s = [i \in 1..Len(s) |-> s[i]]
    BY <1>1
  <2>4. QED
    BY <2>1, <2>2, <2>3
<1>8. QED
  BY <1>5, <1>6, <1>7

\* A host that a URL may have.
IsHost(host) == IsText(host) /\ ToSet(host) \intersect {"@", "/", "[", "]"} = {}

\* A host written without brackets has none of the characters that end it.
LEMMA HostType ==
  ASSUME NEW host, IsHost(host)
  PROVE  /\ host \in Seq(Signs) /\ Len(host) \in Nat
         /\ \A i \in 1..Len(host) : host[i] \notin {"@", "/", "[", "]"}
<1>1. host \in Seq(Letters) /\ Letters \subseteq Signs
  BY DEF IsHost, IsText, Letters, Signs
<1>2. host \in Seq(Signs)
  BY <1>1, SeqMonotonic
<1>3. DOMAIN host = 1..Len(host) /\ Len(host) \in Nat
  BY <1>2, LenProperties
<1>4. QED
  BY <1>2, <1>3 DEF IsHost, ToSet

\* The port of a URL: none, or a colon and a number.
LEMMA PortType ==
  ASSUME NEW port, port # <<>> => port = <<port[1]>> /\ port[1] < 2^16, NEW n \in PortWritten(port)
  PROVE  \/ n = <<>> /\ port = <<>>
         \/ \E m \in DOMAIN NumberOf :
              /\ n = <<":", m>> /\ ParsePort(<<m>>) = port
              /\ m \in Signs /\ m \notin {":", "@", "/", "[", "]"}
<1>1. CASE port = <<>>
  BY <1>1 DEF PortWritten
<1>2. CASE port # <<>>
  <2>1. PICK m \in DOMAIN NumberOf : n = <<":", m>> /\ NumberOf[m] = port[1]
    BY <1>2 DEF PortWritten
  <2>2. m \in Signs /\ m \notin {":", "@", "/", "[", "]"}
    BY CliAssumption, PartsAssumption DEF PartsToWrite, Signs, Letters
  <2>3. ParsePort(<<m>>) = port
    <3>1. Len(<<m>>) = 1 /\ <<m>>[1] = m
      OBVIOUS
    <3>2. QED
      BY <1>2, <2>1, <3>1 DEF ParsePort
  <2>4. QED
    BY <2>1, <2>2, <2>3
<1>3. QED
  BY <1>1, <1>2

\* A host and its port are read as they were written.
LEMMA BracketedRead ==
  ASSUME NEW host, IsHost(host), NEW n, NEW port,
         \/ n = <<>> /\ port = <<>>
         \/ \E m \in Signs : n = <<":", m>> /\ ParsePort(<<m>>) = port /\ port # <<>>
  PROVE  ParseHostPort(<<"[">> \o host \o <<"]">> \o n) = << [host |-> Given(host), port |-> port] >>
<1>0. {":", "@", "/", "[", "]"} \subseteq Signs
  BY DEF Signs
<1>1. /\ host \in Seq(Signs) /\ Len(host) \in Nat
      /\ \A i \in 1..Len(host) : host[i] \notin {"@", "/", "[", "]"}
  BY HostType
<1>2. n \in Seq(Signs) /\ Len(n) \in Nat
  <2>1. n = <<>> \/ \E m \in Signs : n = <<":", m>>
    OBVIOUS
  <2>2. ASSUME NEW m \in Signs PROVE <<":", m>> \in Seq(Signs)
    BY <1>0
  <2>3. n \in Seq(Signs)
    BY <2>1, <2>2, EmptySeq
  <2>4. QED
    BY <2>3, LenProperties
<1>3. PICK h \in Seq(Signs) : h = <<"[">> \o host
  <2>1. <<"[">> \in Seq(Signs)
    BY <1>0
  <2>2. QED
    BY <1>1, <2>1, ConcatProperties
<1>4. /\ Len(h) = Len(host) + 1 /\ h[1] = "[" /\ \A i \in 1..Len(host) : h[i + 1] = host[i]
  <2>1. <<"[">> \in Seq(Signs) /\ Len(<<"[">>) = 1 /\ <<"[">>[1] = "["
    BY <1>0
  <2>2. /\ Len(h) = Len(host) + 1
        /\ \A i \in 1..Len(host) + 1 : h[i] = IF i <= 1 THEN <<"[">>[i] ELSE host[i - 1]
    BY <1>1, <1>3, <2>1, ConcatProperties
  <2>3. ASSUME NEW i \in 1..Len(host) PROVE h[i + 1] = host[i]
    <3>1. i + 1 \in 1..Len(host) + 1 /\ ~(i + 1 <= 1) /\ i + 1 - 1 = i
      BY <1>1
    <3>2. QED
      BY <2>2, <3>1
  <2>4. h[1] = "["
    BY <1>1, <2>1, <2>2
  <2>5. QED
    BY <2>2, <2>3, <2>4
<1>5. PICK s \in Seq(Signs) : s = Joined(h, "]", n) /\ IsJoined(s, h, "]", n)
  BY <1>0, <1>2, JoinedType, Zenon
<1>6. s = <<"[">> \o host \o <<"]">> \o n
  BY <1>3, <1>5 DEF Joined
<1>7. /\ Len(s) = Len(host) + 2 + Len(n) /\ s[1] = "["
      /\ \A i \in 1..Len(host) : s[i + 1] = host[i]
      /\ \A i \in 1..Len(n) : s[Len(host) + 2 + i] = n[i]
  <2>1. Len(h) + 1 + Len(n) = Len(host) + 2 + Len(n) /\ Len(h) + 1 = Len(host) + 2
    BY <1>1, <1>2, <1>4
  <2>2. \A i \in 1..Len(host) : i + 1 \in 1..Len(h)
    BY <1>1, <1>4
  <2>3. 1 \in 1..Len(h)
    BY <1>1, <1>4
  <2>4. QED
    BY <1>4, <1>5, <2>1, <2>2, <2>3 DEF IsJoined
<1>8. Find(s, "]") = Len(host) + 2
  <2>1. "]" \notin ToSet(h)
    <3>1. SUFFICES ASSUME NEW k \in 1..Len(h), h[k] = "]" PROVE FALSE
      BY LenProperties DEF ToSet
    <3>2. k # 1
      BY <1>4, <3>1
    <3>3. k - 1 \in 1..Len(host) /\ (k - 1) + 1 = k
      BY <1>1, <1>4, <3>2
    <3>4. h[k] = host[k - 1]
      BY <1>4, <3>3
    <3>5. QED
      BY <1>1, <3>1, <3>3, <3>4
  <2>2. Find(Joined(h, "]", n), "]") = Len(h) + 1
    BY <1>0, <1>2, <2>1, FoundFirst
  <2>3. QED
    BY <1>1, <1>4, <1>5, <2>2
<1>9. \A i \in 1..Len(s) : s[i] \in Signs
  BY ElementOfSeq
<1>10. SubSeq(s, 2, Len(host) + 1) = host
  <2>1. PICK t : t = SubSeq(s, 2, Len(host) + 1)
    OBVIOUS
  <2>2. \A i \in 2..Len(host) + 1 : s[i] \in Signs
    BY <1>1, <1>2, <1>7, <1>9
  <2>3. t \in Seq(Signs) /\ Len(t) = Len(host) /\ \A i \in 1..Len(host) : t[i] = s[2 + i - 1]
    <3>1. /\ t \in Seq(Signs) /\ Len(t) = IF 2 <= Len(host) + 1 THEN (Len(host) + 1) - 2 + 1 ELSE 0
          /\ \A i \in 1..(Len(host) + 1) - 2 + 1 : t[i] = s[2 + i - 1]
      BY <1>1, <2>1, <2>2, SubSeqProperties
    <3>2. (Len(host) + 1) - 2 + 1 = Len(host)
      BY <1>1
    <3>3. QED
      BY <1>1, <3>1, <3>2
  <2>4. \A i \in 1..Len(host) : t[i] = host[i]
    <3>1. \A i \in 1..Len(host) : 2 + i - 1 = i + 1
      OBVIOUS
    <3>2. QED
      BY <1>7, <2>3, <3>1
  <2>5. QED
    BY <1>1, <2>1, <2>3, <2>4, SeqEqual
<1>11. s # <<>> /\ Find(s, "]") # 0 /\ (Len(host) + 2) - 1 = Len(host) + 1
  BY <1>1, <1>2, <1>7, <1>8, EmptySeq
<1>12. CASE n = <<>> /\ port = <<>>
  <2>1. Find(s, "]") = Len(s)
    BY <1>1, <1>7, <1>8, <1>12
  <2>2. QED
    BY <1>6, <1>7, <1>8, <1>10, <1>11, <1>12, <2>1 DEF ParseHostPort
<1>13. ASSUME NEW m \in Signs, n = <<":", m>>, ParsePort(<<m>>) = port, port # <<>>
       PROVE  ParseHostPort(s) = << [host |-> Given(host), port |-> port] >>
  <2>1. Len(n) = 2 /\ n[1] = ":" /\ n[2] = m
    BY <1>13
  <2>2. Len(s) = Len(host) + 4 /\ s[Len(host) + 3] = ":" /\ s[Len(host) + 4] = m
    <3>1. Len(host) + 2 + 1 = Len(host) + 3 /\ Len(host) + 2 + 2 = Len(host) + 4
      BY <1>1
    <3>2. QED
      BY <1>7, <2>1, <3>1
  <2>3. Past(s, Len(host) + 3) = <<m>>
    <3>1. PICK t : t = SubSeq(s, Len(host) + 4, Len(host) + 4)
      OBVIOUS
    <3>2. t \in Seq(Signs) /\ Len(t) = 1 /\ t[1] = m
      <4>1. PICK k \in Nat : k = Len(host) + 4
        BY <1>1
      <4>2. \A i \in k..k : s[i] \in Signs
        BY <2>2, <4>1
      <4>3. /\ t \in Seq(Signs) /\ Len(t) = IF k <= k THEN k - k + 1 ELSE 0
            /\ \A i \in 1..k - k + 1 : t[i] = s[k + i - 1]
        BY <3>1, <4>1, <4>2, SubSeqProperties
      <4>4. 1 \in 1..k - k + 1 /\ k + 1 - 1 = k
        BY <4>1
      <4>5. QED
        BY <2>2, <4>1, <4>3, <4>4
    <3>3. <<m>> \in Seq(Signs) /\ Len(<<m>>) = 1 /\ <<m>>[1] = m
      OBVIOUS
    <3>4. t = <<m>>
      BY <3>2, <3>3, SeqEqual
    <3>5. Len(host) + 3 + 1 = Len(host) + 4
      BY <1>1
    <3>6. QED
      BY <2>2, <3>1, <3>4, <3>5 DEF Past
  <2>4. Find(s, "]") # Len(s) /\ s[Find(s, "]") + 1] = ":" /\ Past(s, Find(s, "]") + 1) = <<m>>
    <3>1. Len(host) + 2 + 1 = Len(host) + 3 /\ Len(host) + 2 # Len(host) + 4
      BY <1>1
    <3>2. QED
      BY <1>8, <2>2, <2>3, <3>1
  <2>5. QED
    BY <1>7, <1>8, <1>10, <1>11, <1>13, <2>4 DEF ParseHostPort
<1>14. QED
  BY <1>6, <1>12, <1>13

\* A host without a colon is read back, whether or not a port follows.
LEMMA PlainRead ==
  ASSUME NEW host, IsHost(host), ":" \notin ToSet(host), NEW n, NEW port,
         \/ n = <<>> /\ port = <<>>
         \/ \E m \in Signs \ {":"} : n = <<":", m>> /\ ParsePort(<<m>>) = port /\ port # <<>>
  PROVE  ParseHostPort(host \o n) = << [host |-> Given(host), port |-> port] >>
<1>0. {":", "@", "/", "[", "]"} \subseteq Signs
  BY DEF Signs
<1>1. /\ host \in Seq(Signs) /\ Len(host) \in Nat
      /\ \A i \in 1..Len(host) : host[i] \notin {"@", "/", "[", "]"}
  BY HostType
<1>2. CASE n = <<>> /\ port = <<>>
  <2>1. host \o n = host
    BY <1>1, <1>2, ConcatEmptySeq
  <2>2. ~(host # <<>> /\ host[1] = "[")
    BY <1>1, EmptySeq
  <2>3. RFind(host, ":") = 0
    BY <1>1, RFindLast
  <2>4. QED
    BY <1>2, <2>1, <2>2, <2>3 DEF ParseHostPort
<1>3. ASSUME NEW m \in Signs \ {":"}, n = <<":", m>>, ParsePort(<<m>>) = port, port # <<>>
      PROVE  ParseHostPort(host \o n) = << [host |-> Given(host), port |-> port] >>
  <2>1. <<m>> \in Seq(Signs) /\ Len(<<m>>) = 1 /\ ToSet(<<m>>) = {m}
    BY DEF ToSet
  <2>2. PICK s \in Seq(Signs) : s = Joined(host, ":", <<m>>) /\ IsJoined(s, host, ":", <<m>>)
    BY <1>0, <1>1, <2>1, JoinedType, Zenon
  <2>3. s = host \o n
    <3>1. <<":">> \o <<m>> = n
      BY <1>0, <1>3, Pair
    <3>2. (host \o <<":">>) \o <<m>> = host \o (<<":">> \o <<m>>)
      BY <1>0, <1>1, <2>1, ConcatAssociative
    <3>3. QED
      BY <2>2, <3>1, <3>2 DEF Joined
  <2>4. RFind(s, ":") = Len(host) + 1 /\ Upto(s, Len(host) + 1) = host /\ Past(s, Len(host) + 1) = <<m>>
    <3>1. ":" \notin ToSet(<<m>>) /\ ":" \in Signs
      BY <1>0, <2>1
    <3>2. RFind(s, ":") = Len(host) + 1
      BY <1>1, <2>1, <2>2, <3>1, FoundLast
    <3>3. QED
      BY <1>1, <2>1, <2>2, <3>1, <3>2, Cut
  <2>5. ~(s # <<>> /\ s[1] = "[")
    <3>1. CASE Len(host) = 0
      BY <2>2, <3>1 DEF IsJoined
    <3>2. CASE Len(host) > 0
      <4>1. s[1] = host[1] /\ host[1] # "["
        BY <1>1, <2>2, <3>2 DEF IsJoined
      <4>2. QED
        BY <4>1
    <3>3. QED
      BY <1>1, <3>1, <3>2
  <2>6. RFind(s, ":") # 0
    BY <1>1, <2>4
  <2>7. QED
    BY <1>3, <2>3, <2>4, <2>5, <2>6 DEF ParseHostPort
<1>4. QED
  BY <1>2, <1>3

\* So is a host in brackets, if it needs them, or without.  Neither part has an
\* @ or a /.
LEMMA HostPortRead ==
  ASSUME NEW host, IsHost(host), NEW port, port # <<>> => port = <<port[1]>> /\ port[1] < 2^16,
         NEW n \in PortWritten(port)
  PROVE  /\ Bracketed(host) \in Seq(Signs) /\ n \in Seq(Signs)
         /\ ToSet(Bracketed(host) \o n) \intersect {"@", "/"} = {}
         /\ ParseHostPort(Bracketed(host) \o n) = << [host |-> Given(host), port |-> port] >>
<1>0. {":", "@", "/", "[", "]"} \subseteq Signs
  BY DEF Signs
<1>1. /\ host \in Seq(Signs) /\ Len(host) \in Nat /\ DOMAIN host = 1..Len(host)
      /\ ToSet(host) \intersect {"@", "/"} = {}
  BY HostType, LenProperties DEF IsHost
<1>2. \/ n = <<>> /\ port = <<>>
      \/ \E m \in Signs \ {":", "@", "/", "[", "]"} :
           n = <<":", m>> /\ ParsePort(<<m>>) = port /\ port # <<>>
  <2>1. CASE port = <<>>
    BY <2>1 DEF PortWritten
  <2>2. CASE port # <<>>
    BY <2>2, PortType
  <2>3. QED
    BY <2>1, <2>2
<1>3. n \in Seq(Signs) /\ ToSet(n) \intersect {"@", "/"} = {}
  <2>1. CASE n = <<>>
    BY <2>1, EmptySeq DEF ToSet
  <2>2. ASSUME NEW m \in Signs \ {":", "@", "/", "[", "]"}, n = <<":", m>>
        PROVE  n \in Seq(Signs) /\ ToSet(n) \intersect {"@", "/"} = {}
    <3>1. n \in Seq(Signs) /\ DOMAIN n = 1..2 /\ n[1] = ":" /\ n[2] = m
      BY <1>0, <2>2
    <3>2. \A i \in 1..2 : i = 1 \/ i = 2
      OBVIOUS
    <3>3. \A i \in DOMAIN n : n[i] \notin {"@", "/"}
      BY <3>1, <3>2
    <3>4. QED
      BY <3>1, <3>3 DEF ToSet
  <2>3. QED
    BY <1>2, <2>1, <2>2
<1>4. /\ <<"[">> \in Seq(Signs) /\ <<"]">> \in Seq(Signs)
      /\ ToSet(<<"[">>) = {"["} /\ ToSet(<<"]">>) = {"]"}
  BY <1>0 DEF ToSet
<1>5. Bracketed(host) \in Seq(Signs) /\ ToSet(Bracketed(host)) \intersect {"@", "/"} = {}
  <2>1. PICK open, close \in Seq(Signs) : open = <<"[">> /\ close = <<"]">>
    BY <1>4
  <2>2. PICK opened \in Seq(Signs) : opened = open \o host
    BY <1>1, ConcatProperties
  <2>3. ToSet(opened) = ToSet(open) \union ToSet(host)
    BY <1>1, <2>2, ConcatToSet
  <2>4. opened \o close \in Seq(Signs)
    BY ConcatProperties
  <2>5. ToSet(opened \o close) = ToSet(opened) \union ToSet(close)
    BY ConcatToSet
  <2>6. Bracketed(host) = opened \o close \/ Bracketed(host) = host
    BY <2>1, <2>2 DEF Bracketed
  <2>7. ToSet(open) = {"["} /\ ToSet(close) = {"]"}
    BY <1>4, <2>1
  <2>8. ToSet(opened \o close) \intersect {"@", "/"} = {}
    BY <1>1, <2>3, <2>5, <2>7
  <2>9. QED
    BY <1>1, <2>4, <2>6, <2>8
<1>6. ToSet(Bracketed(host) \o n) \intersect {"@", "/"} = {}
  BY <1>3, <1>5, ConcatToSet
<1>7. ParseHostPort(Bracketed(host) \o n) = << [host |-> Given(host), port |-> port] >>
  <2>1. CASE Contains(host, ":")
    <3>1. Bracketed(host) \o n = <<"[">> \o host \o <<"]">> \o n
      BY <2>1 DEF Bracketed
    <3>2. QED
      BY <1>2, <3>1, BracketedRead
  <2>2. CASE ~Contains(host, ":")
    <3>1. Bracketed(host) \o n = host \o n /\ ":" \notin ToSet(host)
      BY <1>1, <2>2 DEF Bracketed, Contains, ToSet
    <3>2. QED
      BY <1>2, <3>1, PlainRead
  <2>3. QED
    BY <2>1, <2>2
<1>8. QED
  BY <1>3, <1>5, <1>6, <1>7

\* What is behind the first character.
LEMMA Behind ==
  ASSUME NEW S, NEW c \in S, NEW s \in Seq(S)
  PROVE  /\ <<c>> \o s # <<>> /\ (<<c>> \o s)[1] = c /\ Tail(<<c>> \o s) = s
<1>1. <<c>> \in Seq(S) /\ Len(<<c>>) = 1 /\ <<c>>[1] = c /\ Len(s) \in Nat
  BY LenProperties
<1>2. PICK t \in Seq(S) : t = <<c>> \o s
  BY <1>1, ConcatProperties
<1>3. /\ Len(t) = 1 + Len(s) /\ t[1] = c
      /\ \A i \in 1..1 + Len(s) : t[i] = IF i <= 1 THEN <<c>>[i] ELSE s[i - 1]
  BY <1>1, <1>2, ConcatProperties
<1>4. t # <<>>
  BY <1>1, <1>3, EmptySeq
<1>5. /\ Tail(t) \in Seq(S) /\ Len(Tail(t)) = Len(t) - 1
      /\ \A i \in 1..Len(Tail(t)) : Tail(t)[i] = t[i + 1]
  BY <1>4, HeadTailProperties
<1>6. Len(Tail(t)) = Len(s)
  BY <1>1, <1>3, <1>5
<1>7. \A i \in 1..Len(s) : t[i + 1] = s[i]
  <2>1. ASSUME NEW i \in 1..Len(s) PROVE t[i + 1] = s[i]
    <3>1. i + 1 \in 1..1 + Len(s) /\ ~(i + 1 <= 1) /\ i + 1 - 1 = i
      BY <1>1
    <3>2. QED
      BY <1>3, <3>1
  <2>2. QED
    BY <2>1
<1>8. Tail(t) = s
  BY <1>5, <1>6, <1>7, SeqEqual
<1>9. QED
  BY <1>2, <1>3, <1>4, <1>8

\* A part of a text can be read with the part before it or the part behind it.
LEMMA Regrouped ==
  ASSUME NEW a \in Seq(Signs), NEW b \in Seq(Signs), NEW c \in Seq(Signs)
  PROVE  (a \o b) \o c = a \o (b \o c) /\ a \o b \in Seq(Signs) /\ b \o c \in Seq(Signs)
BY ConcatAssociative, ConcatProperties

\* The parts of a URL, read from the outside in.
LEMMA UrlIsNested ==
  ASSUME NEW u, NEW w, NEW b, NEW n, NEW d
  PROVE  u \in Seq(Signs) /\ w \in Seq(Signs) /\ b \in Seq(Signs) /\ n \in Seq(Signs) /\ d \in Seq(Signs)
           => UrlOf(u, w, b, n, d)
                = <<"postgres://">> \o Joined(Joined(u, ":", w), "@", Joined(b \o n, "/", d))
<1>1. SUFFICES ASSUME u \in Seq(Signs), w \in Seq(Signs), b \in Seq(Signs), n \in Seq(Signs), d \in Seq(Signs)
               PROVE  UrlOf(u, w, b, n, d)
                        = <<"postgres://">> \o Joined(Joined(u, ":", w), "@", Joined(b \o n, "/", d))
  OBVIOUS
<1>2. PICK s, c, e, g : s = <<"postgres://">> /\ c = <<":">> /\ e = <<"@">> /\ g = <<"/">>
  OBVIOUS
<1>3. s \in Seq(Signs)
  BY <1>2 DEF Signs
<1>4. c \in Seq(Signs)
  BY <1>2 DEF Signs
<1>5. e \in Seq(Signs)
  BY <1>2 DEF Signs
<1>6. g \in Seq(Signs)
  BY <1>2 DEF Signs
<1>7. PICK user : user = (u \o c) \o w /\ user \in Seq(Signs) /\ s \o u \o c \o w = s \o user
  <2>1. u \in Seq(Signs)
    BY <1>1
  <2>2. (s \o u) \o c = s \o (u \o c) /\ u \o c \in Seq(Signs)
    BY <1>3, <1>4, <2>1, Regrouped
  <2>3. PICK uc : uc = u \o c /\ uc \in Seq(Signs)
    BY <2>2
  <2>4. w \in Seq(Signs)
    BY <1>1
  <2>5. (s \o uc) \o w = s \o (uc \o w) /\ uc \o w \in Seq(Signs)
    BY <1>3, <2>3, <2>4, Regrouped, SMTT(30)
  <2>6. QED
    BY <2>2, <2>3, <2>5, Zenon
<1>8. PICK x, y, h, hg, after : x = user \o e /\ y = s \o x /\ h = b \o n /\ hg = h \o g /\ after = hg \o d
  OBVIOUS
<1>9. user \in Seq(Signs)
  BY <1>7
<1>10. (s \o user) \o e = y /\ x \in Seq(Signs)
  <2>1. (s \o user) \o e = s \o (user \o e) /\ user \o e \in Seq(Signs)
    BY <1>3, <1>5, <1>9, Regrouped
  <2>2. QED
    BY <1>8, <2>1, Zenon
<1>11. y \in Seq(Signs)
  BY <1>3, <1>8, <1>10, ConcatProperties
<1>12. (y \o b) \o n = y \o h /\ h \in Seq(Signs)
  <2>1. b \in Seq(Signs) /\ n \in Seq(Signs)
    BY <1>1
  <2>2. (y \o b) \o n = y \o (b \o n) /\ b \o n \in Seq(Signs)
    BY <1>11, <2>1, Regrouped
  <2>3. QED
    BY <1>8, <2>2, Zenon
<1>13. h \in Seq(Signs)
  BY <1>12
<1>14. (y \o h) \o g = y \o hg /\ hg \in Seq(Signs)
  <2>1. (y \o h) \o g = y \o (h \o g) /\ h \o g \in Seq(Signs)
    BY <1>6, <1>11, <1>13, Regrouped
  <2>2. QED
    BY <1>8, <2>1, Zenon
<1>15. (y \o hg) \o d = y \o after /\ after \in Seq(Signs)
  <2>1. hg \in Seq(Signs) /\ d \in Seq(Signs)
    BY <1>1, <1>14
  <2>2. (y \o hg) \o d = y \o (hg \o d) /\ hg \o d \in Seq(Signs)
    BY <1>11, <2>1, Regrouped
  <2>3. QED
    BY <1>8, <2>2, Zenon
<1>16. y \o after = s \o (x \o after)
  <2>1. after \in Seq(Signs)
    BY <1>15
  <2>2. (s \o x) \o after = s \o (x \o after)
    BY <1>3, <1>10, <2>1, Regrouped
  <2>3. QED
    BY <1>8, <2>2, Zenon
<1>17. UrlOf(u, w, b, n, d) = s \o (x \o after)
  <2>1. UrlOf(u, w, b, n, d) = s \o u \o c \o w \o e \o b \o n \o g \o d
    BY <1>2 DEF UrlOf
  <2>2. s \o u \o c \o w \o e = y
    BY <1>7, <1>10, Zenon
  <2>3. y \o b \o n \o g \o d = y \o after
    BY <1>12, <1>14, <1>15, Zenon
  <2>4. QED
    BY <1>16, <2>1, <2>2, <2>3, Zenon
<1>18. Joined(Joined(u, ":", w), "@", Joined(b \o n, "/", d)) = x \o after
  BY <1>2, <1>7, <1>8, Zenon DEF Joined
<1>19. QED
  BY <1>2, <1>17, <1>18, Zenon

\* A part of a connection can be written in a URL.
IsPart(p) ==
  /\ IsHost(p.host) /\ (p.port # <<>> => p.port = <<p.port[1]>> /\ p.port[1] < 2^16)
  /\ \A part \in {p.username, p.password, p.database} :
       IsText(part) /\ ToSet(part) \intersect DOMAIN Escapes = {}

\* Every way to write a connection as a URL is read as that connection.
LEMMA UrlRead ==
  ASSUME NEW p, IsPart(p), NEW url \in UrlsFor(p)
  PROVE  ParseConnectionUrl(url) =
           << [host |-> Given(p.host), port |-> p.port, username |-> <<p.username>>,
               password |-> <<p.password>>, database |-> Given(p.database)] >>
<1>0. {":", "@", "/", "postgres://"} \subseteq Signs
  BY DEF Signs
<1>1. PICK u \in Escaped(p.username, {":"}), w \in Escaped(p.password, {}),
           d \in Escaped(p.database, {"@"}), n \in PortWritten(p.port) :
        url = UrlOf(u, w, Bracketed(p.host), n, d)
  BY DEF UrlsFor
<1>2. /\ u \in Seq(Signs) /\ PercentDecode(u) = p.username /\ ":" \notin ToSet(u)
      /\ w \in Seq(Signs) /\ PercentDecode(w) = p.password
      /\ d \in Seq(Signs) /\ PercentDecode(d) = p.database /\ "@" \notin ToSet(d)
  <2>1. {":"} \intersect DOMAIN Escapes = {} /\ {"@"} \intersect DOMAIN Escapes = {}
    BY PartsAssumption DEF PartsToWrite
  <2>2. u \in Seq(Signs) /\ PercentDecode(u) = p.username /\ ":" \notin ToSet(u)
    BY <2>1, EscapedType DEF IsPart
  <2>3. w \in Seq(Signs) /\ PercentDecode(w) = p.password
    BY EscapedType DEF IsPart
  <2>4. d \in Seq(Signs) /\ PercentDecode(d) = p.database /\ "@" \notin ToSet(d)
    BY <2>1, EscapedType DEF IsPart
  <2>5. QED
    BY <2>2, <2>3, <2>4
<1>3. PICK b, h : b = Bracketed(p.host) /\ h = b \o n
  OBVIOUS
<1>4. /\ b \in Seq(Signs) /\ n \in Seq(Signs) /\ h \in Seq(Signs)
      /\ "@" \notin ToSet(h) /\ "/" \notin ToSet(h)
      /\ ParseHostPort(h) = << [host |-> Given(p.host), port |-> p.port] >>
  <2>1. /\ b \in Seq(Signs) /\ n \in Seq(Signs) /\ ToSet(h) \intersect {"@", "/"} = {}
        /\ ParseHostPort(h) = << [host |-> Given(p.host), port |-> p.port] >>
    BY <1>3, HostPortRead DEF IsPart
  <2>2. QED
    BY <1>3, <2>1, ConcatProperties
<1>5. PICK user, after, rest : /\ user = Joined(u, ":", w) /\ after = Joined(h, "/", d)
                               /\ rest = Joined(user, "@", after)
  OBVIOUS
<1>6. user \in Seq(Signs) /\ after \in Seq(Signs) /\ rest \in Seq(Signs)
  BY <1>0, <1>2, <1>4, <1>5, JoinedType
<1>7. url = <<"postgres://">> \o rest
  <2>1. url = UrlOf(u, w, b, n, d)
    BY <1>1, <1>3
  <2>2. u \in Seq(Signs) /\ w \in Seq(Signs) /\ b \in Seq(Signs) /\ n \in Seq(Signs) /\ d \in Seq(Signs)
    BY <1>2, <1>4
  <2>3. UrlOf(u, w, b, n, d)
          = <<"postgres://">> \o Joined(Joined(u, ":", w), "@", Joined(b \o n, "/", d))
    BY <2>2, UrlIsNested
  <2>4. QED
    BY <1>3, <1>5, <2>1, <2>3, Zenon
<1>8. url # <<>> /\ url[1] = "postgres://" /\ Tail(url) = rest
  BY <1>0, <1>6, <1>7, Behind
<1>9. "@" \notin ToSet(after)
  <2>1. <<"/">> \in Seq(Signs) /\ ToSet(<<"/">>) = {"/"}
    BY <1>0 DEF ToSet
  <2>2. PICK g \in Seq(Signs) : g = <<"/">> /\ ToSet(g) = {"/"}
    BY <2>1
  <2>8. h \in Seq(Signs)
    BY <1>4
  <2>3. PICK hg \in Seq(Signs) : hg = h \o g
    BY <2>8, ConcatProperties
  <2>9. ToSet(hg) = ToSet(h) \union ToSet(g)
    BY <2>3, <2>8, ConcatToSet, Zenon
  <2>4. ToSet(hg) = ToSet(h) \union {"/"}
    BY <2>2, <2>9
  <2>5. after = hg \o d
    BY <1>5, <2>2, <2>3 DEF Joined
  <2>6. ToSet(after) = ToSet(hg) \union ToSet(d)
    BY <1>2, <2>5, ConcatToSet
  <2>7. QED
    BY <1>2, <1>4, <2>4, <2>6
<1>10. /\ RFind(rest, "@") = Len(user) + 1
       /\ Upto(rest, Len(user) + 1) = user /\ Past(rest, Len(user) + 1) = after
  BY <1>0, <1>5, <1>6, <1>9, FoundLast, Cut
<1>11. /\ Find(user, ":") = Len(u) + 1
       /\ Upto(user, Len(u) + 1) = u /\ Past(user, Len(u) + 1) = w
  BY <1>0, <1>2, <1>5, FoundFirst, Cut
<1>12. /\ Find(after, "/") = Len(h) + 1
       /\ Upto(after, Len(h) + 1) = h /\ Past(after, Len(h) + 1) = d
  BY <1>0, <1>2, <1>4, <1>5, FoundFirst, Cut
<1>13. Len(user) + 1 # 0 /\ Len(u) + 1 # 0 /\ Len(h) + 1 # 0
  BY <1>2, <1>4, <1>6, LenProperties
<1>14. PICK i, j, k : i = Len(user) + 1 /\ j = Len(u) + 1 /\ k = Len(h) + 1
  OBVIOUS
<1>15. /\ i # 0 /\ j # 0 /\ k # 0
       /\ RFind(rest, "@") = i /\ Find(user, ":") = j /\ Find(after, "/") = k
       /\ Upto(rest, i) = user /\ Past(rest, i) = after /\ Upto(user, j) = u /\ Past(user, j) = w
       /\ Upto(after, k) = h /\ Past(after, k) = d
  BY <1>10, <1>11, <1>12, <1>13, <1>14, Zenon
<1>16. PICK hosts : hosts = ParseHostPort(h) /\ hosts # <<>>
                    /\ hosts[1].host = Given(p.host) /\ hosts[1].port = p.port
  BY <1>4
<1>17. QED
  BY <1>2, <1>8, <1>15, <1>16 DEF ParseConnectionUrl

-----------------------------------------------------------------------------
(* Options                                                                  *)

\* What follows a command on the command line are arguments.
LEMMA ArgsGiven ==
  ASSUME NEW command \in {"add", "edit", "rename", "delete", "open"}, NEW args \in Args[command]
  PROVE  IsArgs(args)
BY ArgsAssumption DEF ArgumentLists

\* The k-th argument is the first option of that key, and its value is one text.
GivenAt(args, key, option, k) ==
  /\ k \in DOMAIN args /\ args[k] = Option(key, option[1])
  /\ \A j \in 1 .. k - 1 : args[j].key # key \/ args[j].value = <<>>
  /\ option = <<option[1]>> /\ IsText(option[1])

\* An option is not given, or its first value counts.
LEMMA OptionFirst ==
  ASSUME NEW args, IsArgs(args), NEW key
  PROVE  \/ OptionalOption(args, key) = <<>> /\ NotGiven(args, key)
         \/ /\ OptionalOption(args, key) # <<>>
            /\ \E k \in DOMAIN args : GivenAt(args, key, OptionalOption(args, key), k)
<1> DEFINE I == {i \in 1..Len(args) : args[i].key = key /\ args[i].value # <<>>}
<1>1. PICK i : i = SelectInSeq(args, LAMBDA a : a.key = key /\ a.value # <<>>)
  OBVIOUS
<1>2. i = IF I # {} THEN Min(I) ELSE 0
  BY <1>1 DEF SelectInSeq
<1>3. OptionalOption(args, key) = IF i = 0 THEN <<>> ELSE args[i].value
  BY <1>1 DEF OptionalOption
<1>4. Len(args) \in Nat /\ DOMAIN args = 1..Len(args)
  BY LenProperties DEF IsArgs
<1>5. CASE I = {}
  BY <1>2, <1>3, <1>4, <1>5 DEF NotGiven
<1>6. CASE I # {}
  <2>1. i \in I /\ \A j \in I : i <= j
    <3>1. I \subseteq Nat
      OBVIOUS
    <3> HIDE DEF I
    <3>2. QED
      BY <1>2, <1>6, <3>1, MinIsLeast
  <2>2. i \in DOMAIN args /\ i # 0 /\ args[i].key = key /\ args[i].value # <<>>
    BY <1>4, <2>1
  <2>3. args[i] \in ToSet(args)
    BY <2>2 DEF ToSet
  <2>4. /\ args[i] = [key |-> args[i].key, value |-> args[i].value]
        /\ args[i].value = <<args[i].value[1]>> /\ IsText(args[i].value[1])
    <3>1. IsArg(args[i])
      BY <2>3 DEF IsArgs
    <3>2. QED
      BY <2>2, <3>1 DEF IsArg
  <2>5. PICK v : v = args[i].value[1]
    OBVIOUS
  <2>6. args[i].value = <<v>> /\ IsText(v) /\ args[i] = [key |-> key, value |-> <<v>>]
    BY <2>2, <2>4, <2>5
  <2>7. OptionalOption(args, key) = <<v>>
    BY <1>3, <2>2, <2>6
  <2>8. \A j \in 1 .. i - 1 : args[j].key # key \/ args[j].value = <<>>
    <3>1. SUFFICES ASSUME NEW j \in 1 .. i - 1, args[j].key = key, args[j].value # <<>> PROVE FALSE
      OBVIOUS
    <3>2. j \in 1..Len(args) /\ ~(i <= j)
      BY <1>4, <2>1, <3>1
    <3>3. QED
      BY <2>1, <3>1, <3>2
  <2>9. GivenAt(args, key, <<v>>, i)
    BY <2>2, <2>6, <2>8 DEF GivenAt, Option
  <2>10. QED
    BY <2>2, <2>7, <2>9
<1>7. QED
  BY <1>5, <1>6

\* What is kept is the old value or the first one given.
LEMMA KeptIsFirst ==
  ASSUME NEW args, IsArgs(args), NEW key, NEW old
  PROVE  FirstGiven(args, key, Kept(OptionalOption(args, key), old), old)
<1>1. PICK o : o = OptionalOption(args, key)
  OBVIOUS
<1>2. CASE o = <<>> /\ NotGiven(args, key)
  BY <1>1, <1>2 DEF FirstGiven, Kept
<1>3. ASSUME NEW k \in DOMAIN args, GivenAt(args, key, o, k), o # <<>>
      PROVE  FirstGiven(args, key, Kept(o, old), old)
  BY <1>3 DEF FirstGiven, FirstIs, Kept, GivenAt
<1>4. QED
  BY <1>1, <1>2, <1>3, OptionFirst

\* A port that was read is one of 16 bits.
LEMMA PortBits == 2^16 = 65536
OBVIOUS

\* A port that is read fits in 16 bits.
LEMMA PortRead ==
  ASSUME NEW s
  PROVE  ParsePort(s) = <<>> \/ ParsePort(s)[1] \in 0 .. 2^16 - 1
<1>1. CASE Len(s) = 1 /\ s[1] \in DOMAIN NumberOf /\ NumberOf[s[1]] < 2^16
  <2>1. NumberOf[s[1]] \in Nat
    BY <1>1, CliAssumption
  <2>2. QED
    BY <1>1, <2>1, PortBits DEF ParsePort
<1>2. QED
  BY <1>1 DEF ParsePort

\* A port read from a URL fits in 16 bits.
LEMMA UrlPortRead ==
  ASSUME NEW args
  PROVE  UrlOption(args) = <<>> \/ UrlOption(args)[1].port = <<>> \/ UrlOption(args)[1].port[1] \in 0 .. 2^16 - 1
<1>1. ASSUME NEW s, ParseHostPort(s) # <<>>, ParseHostPort(s)[1].port # <<>>
      PROVE  \E t : ParseHostPort(s)[1].port = ParsePort(t) /\ ParsePort(t) # <<>>
  BY <1>1 DEF ParseHostPort
<1>2. ASSUME NEW url, ParseConnectionUrl(url) # <<>>
      PROVE  \E s : ParseHostPort(s) # <<>> /\ ParseConnectionUrl(url)[1].port = ParseHostPort(s)[1].port
  BY <1>2 DEF ParseConnectionUrl
<1>3. QED
  BY <1>1, <1>2, PortRead DEF UrlOption, NoParts

\* The texts that stand for a TLS mode.
TlsTexts == {<<"disable">>, <<"require">>, <<"verify-full">>}

\* A mode that is read from a text is written as that text again.
LEMMA TlsRoundTrip ==
  ASSUME NEW s
  PROVE  /\ ParseTlsMode(s) # <<>> => s \in TlsTexts /\ Display(ParseTlsMode(s)[1]) = s
         /\ s \in TlsTexts => Display(TlsFromStr(s)) = s
<1>0. <<"disable">> # <<"require">> /\ <<"disable">> # <<"verify-full">> /\ <<"require">> # <<"verify-full">>
  OBVIOUS
<1>1. CASE s = <<"disable">>
  <2>1. ParseTlsMode(s) = <<"Disable">> /\ TlsFromStr(s) = "Disable"
    BY <1>0, <1>1 DEF ParseTlsMode, TlsFromStr
  <2>2. Display("Disable") = s
    BY <1>1 DEF Display
  <2>3. QED
    BY <1>1, <2>1, <2>2 DEF TlsTexts
<1>2. CASE s = <<"require">>
  <2>1. ParseTlsMode(s) = <<"Require">> /\ TlsFromStr(s) = "Require"
    BY <1>0, <1>2 DEF ParseTlsMode, TlsFromStr
  <2>2. Display("Require") = s
    BY <1>2 DEF Display
  <2>3. QED
    BY <1>2, <2>1, <2>2 DEF TlsTexts
<1>3. CASE s = <<"verify-full">>
  <2>1. ParseTlsMode(s) = <<"VerifyFull">> /\ TlsFromStr(s) = "VerifyFull"
    BY <1>0, <1>3 DEF ParseTlsMode, TlsFromStr
  <2>2. Display("VerifyFull") = s
    BY <1>3 DEF Display
  <2>3. QED
    BY <1>3, <2>1, <2>2 DEF TlsTexts
<1>4. CASE s \notin TlsTexts
  BY <1>4 DEF ParseTlsMode, TlsTexts
<1>5. QED
  BY <1>1, <1>2, <1>3, <1>4 DEF TlsTexts

\* An option that can be read stands for the mode that is stored.
LEMMA TlsGiven ==
  ASSUME NEW args, IsArgs(args), OptionsParse(args)
  PROVE  \/ TlsOption(args) = <<>> /\ OptionalOption(args, "--tls") = <<>>
         \/ /\ TlsOption(args) # <<>> /\ OptionalOption(args, "--tls") # <<>>
            /\ OptionalOption(args, "--tls")[1] \in TlsTexts
            /\ Display(TlsOption(args)[1]) = OptionalOption(args, "--tls")[1]
<1>1. PICK o : o = OptionalOption(args, "--tls")
  OBVIOUS
<1>2. CASE o = <<>>
  BY <1>1, <1>2 DEF TlsOption
<1>3. CASE o # <<>>
  <2>1. PICK k \in DOMAIN args : GivenAt(args, "--tls", o, k)
    BY <1>1, <1>3, OptionFirst
  <2>2. PICK v : v = o[1]
    OBVIOUS
  <2>3. o = <<v>>
    BY <2>1, <2>2 DEF GivenAt
  <2>4. ParseTlsMode(v) # <<>>
    BY <1>1, <2>3 DEF OptionsParse, Parses
  <2>5. TlsOption(args) = ParseTlsMode(v)
    BY <1>1, <1>3, <2>2 DEF TlsOption
  <2>6. QED
    BY <1>1, <1>3, <2>2, <2>4, <2>5, TlsRoundTrip
<1>4. QED
  BY <1>2, <1>3

-----------------------------------------------------------------------------
(* What every command keeps                                                 *)

\* A connection as it is stored.
Row(conn) ==
  /\ conn = [name |-> conn.name, fields |-> conn.fields, port |-> conn.port, tls |-> conn.tls,
             environment |-> conn.environment]
  /\ conn.fields = [host |-> conn.fields.host, username |-> conn.fields.username,
                    password |-> conn.fields.password, database |-> conn.fields.database]
  /\ conn.port \in 0 .. 2^16 - 1 /\ conn.tls \in TlsTexts

\* Ids are given once, in order; a stored port and TLS mode can be read, and the
\* mode is the one that was asked for.
TypeOK ==
  /\ lastId \in Nat /\ DOMAIN conns \subseteq 1..lastId
  /\ conns = [i \in DOMAIN conns |-> conns[i]]
  /\ \A i \in DOMAIN conns : Row(conns[i])
  /\ asked = [i \in DOMAIN conns |-> conns[i].tls]

\* No two connections have the same name.
NamesDiffer == \A i, j \in DOMAIN conns : conns[i].name = conns[j].name => i = j

IInv == TypeOK /\ NamesDiffer /\ ReachedAsAsked

\* What pgrs add stores.
AddedRow(args) ==
  [name |-> Trim(Text(args[1])),
   fields |-> [host |-> Asked(args, "host")[1], username |-> Asked(args, "username")[1],
               password |-> Asked(args, "password")[1], database |-> Asked(args, "database")[1]],
   port |-> Or(PortOption(args), Or(UrlOption(args)[1].port, <<DefaultPort>>))[1],
   tls  |-> Display(Or(TlsOption(args), <<"Disable">>)[1]),
   environment |-> OptionalOption(args, "--env")]

\* A command adds, changes or removes one connection or none.
Adds(args) ==
  /\ lastId' = lastId + 1 /\ reached' = reached /\ AddOk(args)
  /\ DOMAIN conns' = DOMAIN conns \union {lastId + 1}
  /\ conns' = [i \in DOMAIN conns' |-> conns'[i]]
  /\ \A i \in DOMAIN conns : conns'[i] = conns[i] /\ conns[i].name # Trim(Text(args[1]))
  /\ conns'[lastId + 1] = AddedRow(args)
  /\ asked' = [i \in DOMAIN conns' |-> conns'[i].tls]

\* What was asked for is what a command writes.
LEMMA AskedIsStored ==
  ASSUME NEW args, IsArgs(args), OptionsParse(args)
  PROVE  /\ Display(Or(TlsOption(args), <<"Disable">>)[1]) = LastAsked(args, <<"disable">>)
         /\ LastAsked(args, <<"disable">>) \in TlsTexts
         /\ \A old \in TlsTexts : /\ Display(Kept(TlsOption(args), TlsFromStr(old))) = LastAsked(args, old)
                                /\ LastAsked(args, old) \in TlsTexts
<1>1. CASE TlsOption(args) = <<>> /\ OptionalOption(args, "--tls") = <<>>
  <2>1. LastAsked(args, <<"disable">>) = <<"disable">> /\ Or(TlsOption(args), <<"Disable">>) = <<"Disable">>
    BY <1>1 DEF LastAsked, Kept, Or
  <2>2. Display("Disable") = <<"disable">>
    BY DEF Display
  <2>3. ASSUME NEW old \in TlsTexts
        PROVE  LastAsked(args, old) = old /\ Kept(TlsOption(args), TlsFromStr(old)) = TlsFromStr(old)
    BY <1>1 DEF LastAsked, Kept
  <2>4. QED
    BY <2>1, <2>2, <2>3, TlsRoundTrip DEF TlsTexts
<1>2. CASE ~(TlsOption(args) = <<>> /\ OptionalOption(args, "--tls") = <<>>)
  BY <1>2, TlsGiven DEF LastAsked, Kept, Or
<1>3. QED
  BY <1>1, <1>2

\* add refuses, or adds a row under the next id.
LEMMA AddEffect ==
  ASSUME TypeOK, NEW args, IsArgs(args), Add(args)
  PROVE  UNCHANGED vars \/ Adds(args)
<1>1. CASE UNCHANGED vars
  BY <1>1
<1>2. CASE ~UNCHANGED vars
  <2>1. PICK row : row = AddedRow(args)
    OBVIOUS
  <2>2. /\ AddOk(args) /\ Named(Trim(Text(args[1]))) = {}
        /\ lastId' = lastId + 1 /\ reached' = reached
        /\ conns' = [i \in DOMAIN conns \union {lastId + 1} |-> IF i = lastId + 1 THEN row ELSE conns[i]]
        /\ asked' = [i \in DOMAIN conns' |-> IF i = lastId + 1 THEN LastAsked(args, <<"disable">>) ELSE asked[i]]
    BY <1>2, <2>1 DEF Add, Refuse, OfEach, AddedRow
  <2>3. lastId + 1 \notin DOMAIN conns
    BY DEF TypeOK
  <2>4. PICK k : k = lastId + 1
    OBVIOUS
  <2>5. conns' = [i \in DOMAIN conns \union {k} |-> IF i = k THEN row ELSE conns[i]]
    BY <2>2, <2>4
  <2>6. \A i \in DOMAIN conns : conns[i].name # Trim(Text(args[1]))
    BY <2>2 DEF Named
  <2>7. /\ DOMAIN conns' = DOMAIN conns \union {k} /\ conns'[k] = row
        /\ conns' = [i \in DOMAIN conns' |-> conns'[i]]
        /\ \A i \in DOMAIN conns : conns'[i] = conns[i]
    BY <2>3, <2>4, <2>5
  <2>9. row.tls = LastAsked(args, <<"disable">>)
    BY <2>1, <2>2, AskedIsStored DEF AddedRow, AddOk
  <2>10. asked' = [i \in DOMAIN conns' |-> conns'[i].tls]
    <3>1. \A i \in DOMAIN conns : asked[i] = conns[i].tls
      BY DEF TypeOK
    <3>2. \A i \in DOMAIN conns' : (IF i = k THEN LastAsked(args, <<"disable">>) ELSE asked[i]) = conns'[i].tls
      BY <2>3, <2>4, <2>7, <2>9, <3>1
    <3>3. QED
      BY <2>2, <2>4, <3>2
  <2>8. QED
    BY <2>1, <2>2, <2>4, <2>6, <2>7, <2>10 DEF Adds
<1>3. QED
  BY <1>1, <1>2

\* The i-th connection is the one that is changed, and found by what was typed.
Found(i, args) == i \in DOMAIN conns /\ i \in FindConnection(Typed(args))

Changes(i, conn) ==
  /\ lastId' = lastId /\ reached' = reached /\ DOMAIN conns' = DOMAIN conns
  /\ conns' = [j \in DOMAIN conns' |-> conns'[j]]
  /\ conns'[i] = conn /\ \A j \in DOMAIN conns \ {i} : conns'[j] = conns[j]
  /\ asked' = [j \in DOMAIN conns' |-> conns'[j].tls]

Removes(i) ==
  /\ lastId' = lastId /\ reached' = reached /\ DOMAIN conns' = DOMAIN conns \ {i}
  /\ conns' = [j \in DOMAIN conns' |-> conns'[j]]
  /\ \A j \in DOMAIN conns \ {i} : conns'[j] = conns[j]
  /\ asked' = [j \in DOMAIN conns' |-> conns'[j].tls]

\* What FindConnection finds is there.
LEMMA FoundIsThere ==
  ASSUME NEW input, NEW i \in FindConnection(input)
  PROVE  i \in DOMAIN conns
BY DEF FindConnection, Matches, Named

\* An update of one row changes that row only.
LEMMA Changed ==
  ASSUME TypeOK, NEW i \in DOMAIN conns, NEW conn, UNCHANGED <<lastId, reached>>,
         conns' = [conns EXCEPT ![i] = conn], asked' = [asked EXCEPT ![i] = conn.tls]
  PROVE  Changes(i, conn)
<1>1. PICK k : k = i
  OBVIOUS
<1>2. conns' = [j \in DOMAIN conns |-> IF j = i THEN conn ELSE conns[j]]
  BY DEF TypeOK
<1>3. asked' = [j \in DOMAIN conns |-> IF j = i THEN conn.tls ELSE conns[j].tls]
  BY DEF TypeOK
<1>4. asked' = [j \in DOMAIN conns' |-> conns'[j].tls]
  <2>1. DOMAIN conns' = DOMAIN conns /\ \A j \in DOMAIN conns : conns'[j] = IF j = i THEN conn ELSE conns[j]
    BY <1>2
  <2>2. \A j \in DOMAIN conns : (IF j = i THEN conn.tls ELSE conns[j].tls) = conns'[j].tls
    BY <2>1
  <2>3. QED
    BY <1>3, <2>1, <2>2
<1>5. QED
  BY <1>2, <1>4 DEF Changes

\* edit refuses, or changes the row it found.
LEMMA EditEffect ==
  ASSUME TypeOK, NEW args, IsArgs(args), Edit(args)
  PROVE  \/ Refuse
         \/ EditOk(args) /\ \E i \in DOMAIN conns : Found(i, args) /\ Changes(i, Edited(conns[i], args))
<1>1. CASE Refuse
  BY <1>1, Zenon
<1>2. CASE ~Refuse
  <2>1. PICK i \in FindConnection(Trim(Text(args[1]))) :
          /\ conns' = [conns EXCEPT ![i] = Edited(conns[i], args)]
          /\ asked' = [asked EXCEPT ![i] = LastAsked(args, asked[i])]
    BY <1>2 DEF Edit
  <2>2. EditOk(args) /\ UNCHANGED <<lastId, reached>>
    BY <1>2 DEF Edit
  <2>3. i \in DOMAIN conns
    BY <2>1, FoundIsThere
  <2>4. PICK conn : conn = Edited(conns[i], args)
    OBVIOUS
  <2>7. conn.tls = LastAsked(args, asked[i])
    <3>1. Row(conns[i]) /\ asked[i] = conns[i].tls /\ conns[i].tls \in TlsTexts
      BY <2>3 DEF TypeOK, Row
    <3>2. conn.tls = Display(Kept(TlsOption(args), TlsFromStr(conns[i].tls)))
      BY <2>4, <3>1 DEF Edited, Row
    <3>3. OptionsParse(args)
      BY <2>2 DEF EditOk
    <3>4. QED
      BY <3>1, <3>2, <3>3, AskedIsStored
  <2>5. Changes(i, conn)
    <3>1. conns' = [conns EXCEPT ![i] = conn] /\ asked' = [asked EXCEPT ![i] = conn.tls]
      BY <2>1, <2>4, <2>7
    <3>2. QED
      BY <2>2, <2>3, <3>1, Changed
  <2>6. QED
    BY <2>1, <2>2, <2>3, <2>4, <2>5 DEF Found, Typed
<1>3. QED
  BY <1>1, <1>2

\* rename gives the row it found a name that no other row has.
LEMMA RenameEffect ==
  ASSUME TypeOK, NEW args, Rename(args)
  PROVE  \E i \in DOMAIN conns :
           /\ Found(i, args) /\ Changes(i, [conns[i] EXCEPT !.name = Trim(Text(args[2]))])
           /\ Named(Trim(Text(args[2]))) \subseteq {i}
<1>1. PICK name : name = Trim(Text(args[2]))
  OBVIOUS
<1>2. PICK i \in FindConnection(Trim(Text(args[1]))) :
        /\ ~Blank(name) /\ Named(name) \subseteq {i} /\ UNCHANGED <<lastId, asked, reached>>
        /\ conns' = [conns EXCEPT ![i].name = name]
  BY <1>1 DEF Rename
<1>3. i \in DOMAIN conns
  BY <1>2, FoundIsThere
<1>4. PICK conn : conn = [conns[i] EXCEPT !.name = name]
  OBVIOUS
<1>5. conns' = [conns EXCEPT ![i] = conn]
  BY <1>2, <1>4
<1>8. asked' = [asked EXCEPT ![i] = conn.tls]
  <2>1. Row(conns[i]) /\ asked = [j \in DOMAIN conns |-> asked[j]] /\ asked[i] = conns[i].tls
    BY <1>3 DEF TypeOK
  <2>2. conn.tls = conns[i].tls
    BY <1>4, <2>1 DEF Row
  <2>3. QED
    BY <1>2, <1>3, <2>1, <2>2
<1>6. Changes(i, conn)
  BY <1>2, <1>3, <1>5, <1>8, Changed
<1>7. QED
  BY <1>1, <1>2, <1>3, <1>4, <1>6 DEF Found, Typed

\* delete removes the row it found.
LEMMA DeleteEffect ==
  ASSUME TypeOK, NEW args, NEW answer, Delete(args, answer)
  PROVE  \E i \in DOMAIN conns : Found(i, args) /\ Removes(i)
<1>1. PICK i \in FindConnection(Trim(Text(args[1]))) :
        /\ UNCHANGED <<lastId, reached>> /\ conns' = [j \in DOMAIN conns \ {i} |-> conns[j]]
        /\ asked' = [j \in DOMAIN conns \ {i} |-> asked[j]]
  BY DEF Delete
<1>2. i \in DOMAIN conns
  BY <1>1, FoundIsThere
<1>4. asked' = [j \in DOMAIN conns' |-> conns'[j].tls]
  <2>1. \A j \in DOMAIN conns : asked[j] = conns[j].tls
    BY DEF TypeOK
  <2>2. DOMAIN conns' = DOMAIN conns \ {i} /\ \A j \in DOMAIN conns \ {i} : conns'[j] = conns[j]
    BY <1>1
  <2>3. \A j \in DOMAIN conns' : asked[j] = conns'[j].tls
    BY <2>1, <2>2
  <2>4. QED
    BY <1>1, <2>2, <2>3
<1>3. QED
  BY <1>1, <1>2, <1>4 DEF Found, Typed, Removes

\* The values that a connection may be given.
LEMMA AddedRowType ==
  ASSUME NEW args, IsArgs(args), AddOk(args)
  PROVE  Row(AddedRow(args))
<1>1. Or(PortOption(args), Or(UrlOption(args)[1].port, <<DefaultPort>>))[1] \in 0 .. 2^16 - 1
  <2>1. PortOption(args) = <<>> \/ PortOption(args)[1] \in 0 .. 2^16 - 1
    BY PortRead DEF PortOption
  <2>2. UrlOption(args)[1].port = <<>> \/ UrlOption(args)[1].port[1] \in 0 .. 2^16 - 1
    BY UrlPortRead DEF AddOk
  <2>3. <<DefaultPort>>[1] \in 0 .. 2^16 - 1
    BY CliAssumption, PortBits
  <2>4. QED
    BY <2>1, <2>2, <2>3, Zenon DEF Or
<1>2. Display(Or(TlsOption(args), <<"Disable">>)[1]) \in TlsTexts
  BY AskedIsStored DEF AddOk
<1>3. QED
  BY <1>1, <1>2 DEF Row, AddedRow

\* An edited row is a row, under the name it had.
LEMMA EditedType ==
  ASSUME NEW conn, Row(conn), NEW args, IsArgs(args), OptionsParse(args)
  PROVE  Row(Edited(conn, args)) /\ Edited(conn, args).name = conn.name
<1>1. PICK port, tls, environment, fields :
        /\ port = Kept(PortOption(args), conn.port)
        /\ tls = Display(Kept(TlsOption(args), TlsFromStr(conn.tls)))
        /\ environment = Kept(EnvironmentOption(args), conn.environment)
        /\ fields = OfEach(LAMBDA f : Kept(OptionalOption(args, Flag[f]), conn.fields[f]))
  OBVIOUS
<1>2. port \in 0 .. 2^16 - 1
  <2>1. PortOption(args) = <<>> \/ PortOption(args)[1] \in 0 .. 2^16 - 1
    BY PortRead DEF PortOption
  <2>2. conn.port \in 0 .. 2^16 - 1
    BY DEF Row
  <2>3. QED
    BY <1>1, <2>1, <2>2, Zenon DEF Kept
<1>3. tls \in TlsTexts
  <2>1. conn.tls \in TlsTexts
    BY DEF Row
  <2>2. QED
    BY <1>1, <2>1, AskedIsStored
<1>4. fields = [host |-> fields.host, username |-> fields.username, password |-> fields.password, database |-> fields.database]
  BY <1>1 DEF OfEach
<1>5. Edited(conn, args) = [conn EXCEPT !.fields = fields, !.port = port, !.tls = tls, !.environment = environment]
  BY <1>1 DEF Edited
<1>6. Edited(conn, args) = [name |-> conn.name, fields |-> fields, port |-> port, tls |-> tls, environment |-> environment]
  BY <1>5 DEF Row
<1>7. QED
  BY <1>2, <1>3, <1>4, <1>6 DEF Row

\* Without connections there is nothing to break.
LEMMA Initially ==
  ASSUME Init
  PROVE  IInv
<1>1. /\ DOMAIN conns = {} /\ conns = [i \in {} |-> conns[i]] /\ lastId = 0 /\ DOMAIN reached = {}
      /\ asked = [i \in {} |-> conns[i].tls]
  BY DEF Init
<1>2. TypeOK
  BY <1>1 DEF TypeOK
<1>3. QED
  BY <1>1, <1>2 DEF IInv, NamesDiffer, ReachedAsAsked

\* No command leaves a row that cannot be read or two with one name.
LEMMA AddKeeps ==
  ASSUME IInv, NEW args, IsArgs(args), Adds(args)
  PROVE  IInv'
<1>1. PICK k : k = lastId + 1
  OBVIOUS
<1>2. PICK row : row = AddedRow(args)
  OBVIOUS
<1>3. Row(row) /\ row.name = Trim(Text(args[1]))
  BY <1>2, AddedRowType DEF Adds, AddedRow
<1>4. /\ lastId' = k /\ DOMAIN conns' = DOMAIN conns \union {k} /\ conns'[k] = row /\ k \notin DOMAIN conns
      /\ conns' = [i \in DOMAIN conns' |-> conns'[i]]
      /\ asked' = [i \in DOMAIN conns' |-> conns'[i].tls]
      /\ \A i \in DOMAIN conns : conns'[i] = conns[i] /\ conns[i].name # row.name
  BY <1>1, <1>2, <1>3 DEF Adds, IInv, TypeOK
<1>5. \A i \in DOMAIN conns' : Row(conns'[i])
  BY <1>3, <1>4 DEF IInv, TypeOK
<1>6. TypeOK'
  BY <1>1, <1>4, <1>5 DEF IInv, TypeOK
<1>7. NamesDiffer'
  BY <1>4 DEF IInv, NamesDiffer
<1>8. ReachedAsAsked'
  BY DEF Adds, IInv, ReachedAsAsked
<1>9. QED
  BY <1>6, <1>7, <1>8 DEF IInv

\* Changing a row to a name that no other row has keeps the invariant.
LEMMA ChangeKeeps ==
  ASSUME IInv, NEW i \in DOMAIN conns, NEW conn, Row(conn), Changes(i, conn), Named(conn.name) \subseteq {i}
  PROVE  IInv'
<1>1. /\ lastId' = lastId /\ DOMAIN conns' = DOMAIN conns /\ conns'[i] = conn
      /\ conns' = [j \in DOMAIN conns' |-> conns'[j]]
      /\ \A j \in DOMAIN conns \ {i} : conns'[j] = conns[j]
      /\ asked' = [j \in DOMAIN conns' |-> conns'[j].tls]
  BY DEF Changes
<1>2. \A j \in DOMAIN conns' : Row(conns'[j])
  BY <1>1 DEF IInv, TypeOK
<1>3. TypeOK'
  BY <1>1, <1>2 DEF IInv, TypeOK
<1>4. \A j \in DOMAIN conns \ {i} : conns[j].name # conn.name
  BY DEF Named
<1>5. NamesDiffer'
  BY <1>1, <1>4 DEF IInv, NamesDiffer
<1>6. ReachedAsAsked'
  BY DEF Changes, IInv, ReachedAsAsked
<1>7. QED
  BY <1>3, <1>5, <1>6 DEF IInv

\* So does removing one.
LEMMA RemoveKeeps ==
  ASSUME IInv, NEW i \in DOMAIN conns, Removes(i)
  PROVE  IInv'
<1>1. /\ lastId' = lastId /\ DOMAIN conns' = DOMAIN conns \ {i}
      /\ conns' = [j \in DOMAIN conns' |-> conns'[j]]
      /\ \A j \in DOMAIN conns \ {i} : conns'[j] = conns[j]
      /\ asked' = [j \in DOMAIN conns' |-> conns'[j].tls]
  BY DEF Removes
<1>2. TypeOK'
  BY <1>1 DEF IInv, TypeOK
<1>3. NamesDiffer'
  BY <1>1 DEF IInv, NamesDiffer
<1>4. ReachedAsAsked'
  BY DEF Removes, IInv, ReachedAsAsked
<1>5. QED
  BY <1>2, <1>3, <1>4 DEF IInv

\* A name is kept by the connection that has it.
LEMMA OwnName ==
  ASSUME NamesDiffer, NEW i \in DOMAIN conns
  PROVE  Named(conns[i].name) \subseteq {i}
BY DEF NamesDiffer, Named

\* A connection is opened with the mode that was asked for.
LEMMA OpenKeeps ==
  ASSUME IInv, NEW args, NEW server \in Servers, Open(args, server)
  PROVE  IInv'
<1>1. PICK i \in FindConnection(Text(args[1])) :
        reached' = IF Session(TlsFromStr(conns[i].tls), server) = <<>> THEN <<>>
                   ELSE << [wants |-> asked[i], server |-> server,
                            encrypted |-> Session(TlsFromStr(conns[i].tls), server)[1].encrypted] >>
  BY DEF Open
<1>2. UNCHANGED <<conns, lastId, asked>>
  BY DEF Open
<1>3. PICK text : text = conns[i].tls
  OBVIOUS
<1>4. text \in TlsTexts /\ asked[i] = text
  <2>1. i \in DOMAIN conns
    BY FoundIsThere
  <2>2. QED
    BY <1>3, <2>1 DEF IInv, TypeOK, Row
<1>5. ASSUME NEW k \in DOMAIN reached'
      PROVE  /\ ~(TlsFromStr(text) = "VerifyFull" /\ server = "untrusted")
             /\ reached'[k].wants = text /\ reached'[k].server = server
             /\ reached'[k].encrypted = (TlsFromStr(text) # "Disable" /\ server # "plain")
  <2>1. PICK session : session = Session(TlsFromStr(text), server)
    OBVIOUS
  <2>2. reached' = IF session = <<>> THEN <<>>
                   ELSE << [wants |-> text, server |-> server, encrypted |-> session[1].encrypted] >>
    BY <1>1, <1>3, <1>4, <2>1
  <2>3. session # <<>> /\ k = 1
    BY <1>5, <2>2
  <2>4. /\ ~(TlsFromStr(text) = "VerifyFull" /\ server = "untrusted")
        /\ session[1].encrypted = (TlsFromStr(text) # "Disable" /\ server # "plain")
    BY <2>1, <2>3 DEF Session
  <2>5. reached'[k] = [wants |-> text, server |-> server, encrypted |-> session[1].encrypted]
    BY <2>2, <2>3
  <2>6. QED
    BY <2>4, <2>5
<1>6. /\ TlsFromStr(text) # "Disable" <=> text # <<"disable">>
      /\ text = <<"verify-full">> => TlsFromStr(text) = "VerifyFull"
  <2>1. <<"disable">> # <<"require">> /\ <<"disable">> # <<"verify-full">> /\ <<"require">> # <<"verify-full">>
    OBVIOUS
  <2>2. QED
    BY <1>4, <2>1 DEF TlsTexts, TlsFromStr
<1>7. ReachedAsAsked'
  BY <1>5, <1>6 DEF ReachedAsAsked, Servers
<1>8. TypeOK' /\ NamesDiffer'
  BY <1>2 DEF IInv, TypeOK, NamesDiffer
<1>9. QED
  BY <1>7, <1>8 DEF IInv

\* Every command keeps the invariant.
LEMMA Inductive ==
  ASSUME IInv, [Next]_vars
  PROVE  IInv'
<1>0. ASSUME UNCHANGED vars PROVE IInv'
  BY <1>0 DEF vars, IInv, TypeOK, NamesDiffer, ReachedAsAsked
<1>1. ASSUME NEW args \in Args["add"], Add(args) PROVE IInv'
  BY <1>0, <1>1, AddEffect, AddKeeps, ArgsGiven DEF IInv
<1>2. ASSUME NEW args \in Args["edit"], Edit(args) PROVE IInv'
  <2>1. CASE Refuse
    BY <1>0, <2>1 DEF Refuse
  <2>2. ASSUME NEW i \in DOMAIN conns, EditOk(args), Changes(i, Edited(conns[i], args)) PROVE IInv'
    <3>1. Row(Edited(conns[i], args)) /\ Edited(conns[i], args).name = conns[i].name
      BY <2>2, EditedType, ArgsGiven DEF IInv, TypeOK, EditOk
    <3>2. Named(conns[i].name) \subseteq {i}
      BY OwnName DEF IInv
    <3>3. QED
      BY <2>2, <3>1, <3>2, ChangeKeeps
  <2>3. QED
    BY <1>2, <2>1, <2>2, EditEffect, ArgsGiven DEF IInv
<1>3. ASSUME NEW args \in Args["rename"], Rename(args) PROVE IInv'
  <2>1. PICK name : name = Trim(Text(args[2]))
    OBVIOUS
  <2>2. PICK i \in DOMAIN conns : Changes(i, [conns[i] EXCEPT !.name = name]) /\ Named(name) \subseteq {i}
    BY <1>3, <2>1, RenameEffect DEF IInv
  <2>3. PICK conn : conn = [conns[i] EXCEPT !.name = name]
    OBVIOUS
  <2>4. Row(conns[i])
    BY DEF IInv, TypeOK
  <2>5. Row(conn) /\ conn.name = name
    BY <2>3, <2>4 DEF Row
  <2>6. QED
    BY <2>2, <2>3, <2>5, ChangeKeeps
<1>4. ASSUME NEW args \in Args["delete"], NEW answer \in Answers, Delete(args, answer) PROVE IInv'
  BY <1>4, DeleteEffect, RemoveKeeps DEF IInv
<1>5. ASSUME NEW args \in Args["open"], Connect(args) PROVE IInv'
  BY <1>5 DEF Connect, IInv, TypeOK, NamesDiffer, ReachedAsAsked
<1>6. ASSUME NEW args \in Args["open"], NEW server \in Servers, Open(args, server) PROVE IInv'
  BY <1>6, OpenKeeps
<1>7. QED
  BY <1>0, <1>1, <1>2, <1>3, <1>4, <1>5, <1>6 DEF Next

\* In every state that the commands of pgrs can reach, ids were given once and in
\* order, no two connections have one name, and what is stored can be read back.
THEOREM InductiveInvariant == Spec => []IInv
<1>1. Init => IInv
  BY Initially
<1>2. IInv /\ [Next]_vars => IInv'
  BY Inductive
<1>3. QED
  BY <1>1, <1>2, PTL DEF Spec

\* On a server that has TLS a session is encrypted exactly when its user last asked
\* for that, and under verify-full its certificate is trusted: the mode survives the
\* store, whatever was typed, edited and renamed before.
THEOREM Reached == Spec => []ReachedAsAsked
<1>1. IInv => ReachedAsAsked
  BY DEF IInv
<1>2. QED
  BY <1>1, InductiveInvariant, PTL

-----------------------------------------------------------------------------
(* What was told and what was asked for                                     *)

\* The connection that is found is the one that was typed: of two, the one whose
\* name comes first.
LEMMA FoundIsOne ==
  ASSUME NEW i \in DOMAIN conns, NEW args, Found(i, args)
  PROVE  OneOf(i, args)
<1>1. \A j \in DOMAIN conns : Meant(j, args) <=> j \in Matches(Typed(args))
  BY DEF Meant, Matches, Named
<1>2. QED
  BY <1>1 DEF OneOf, Found, FindConnection

\* An option that was given with a text is its first value.
LEMMA FirstText ==
  ASSUME NEW args, IsArgs(args), NEW key
  PROVE  \/ OptionalOption(args, key) = <<>> /\ NotGiven(args, key)
         \/ \E v : OptionalOption(args, key) = <<v>> /\ IsText(v) /\ FirstIs(args, key, v)
<1>1. PICK o : o = OptionalOption(args, key)
  OBVIOUS
<1>2. ASSUME NEW k \in DOMAIN args, GivenAt(args, key, o, k)
      PROVE  \E v : o = <<v>> /\ IsText(v) /\ FirstIs(args, key, v)
  <2>1. PICK v : v = o[1]
    OBVIOUS
  <2>2. o = <<v>> /\ IsText(v) /\ FirstIs(args, key, v)
    BY <1>2, <2>1 DEF GivenAt, FirstIs
  <2>3. QED
    BY <2>2
<1>3. QED
  BY <1>1, <1>2, OptionFirst

\* An edit changes what its options give, and nothing else.
LEMMA EditTells ==
  ASSUME NEW args \in Args["edit"], EditOk(args),
         NEW i \in DOMAIN conns, Row(conns[i]), Changes(i, Edited(conns[i], args))
  PROVE  GivenBy(args, i)
<1>1. PICK old, new : old = conns[i] /\ new = Edited(old, args)
  OBVIOUS
<1>2. IsArgs(args) /\ OptionsParse(args)
  BY ArgsGiven DEF EditOk
<1>3. Row(old) /\ i \in DOMAIN conns' /\ conns'[i] = new
  BY <1>1 DEF Changes
<1>4. new.name = old.name
  BY <1>1, <1>2, <1>3, EditedType
<1>5. /\ new.fields = OfEach(LAMBDA f : Kept(OptionalOption(args, Flag[f]), old.fields[f]))
      /\ new.tls = Display(Kept(TlsOption(args), TlsFromStr(old.tls)))
      /\ new.port = Kept(PortOption(args), old.port)
      /\ new.environment = Kept(EnvironmentOption(args), old.environment)
  BY <1>1, <1>3 DEF Edited, Row
<1>6. ASSUME NEW f \in Fields PROVE FirstGiven(args, Flag[f], new.fields[f], old.fields[f])
  <2>1. new.fields[f] = Kept(OptionalOption(args, Flag[f]), old.fields[f])
    BY <1>5 DEF OfEach, Fields
  <2>2. QED
    BY <1>2, <2>1, KeptIsFirst
<1>7. FirstGiven(args, "--tls", new.tls, old.tls)
  <2>1. new.tls = Kept(OptionalOption(args, "--tls"), old.tls)
    <3>1. old.tls \in TlsTexts
      BY <1>3 DEF Row
    <3>2. QED
      BY <1>2, <1>5, <3>1, AskedIsStored DEF LastAsked
  <2>2. QED
    BY <1>2, <2>1, KeptIsFirst
<1>8. PortGiven(args, i)
  <2>1. CASE OptionalOption(args, "--port") = <<>> /\ NotGiven(args, "--port")
    <3>1. new.port = old.port
      BY <1>5, <2>1 DEF PortOption, Kept
    <3>2. QED
      BY <1>1, <1>3, <2>1, <3>1 DEF PortGiven
  <2>2. ASSUME NEW v, OptionalOption(args, "--port") = <<v>>, IsText(v), FirstIs(args, "--port", v)
        PROVE  PortGiven(args, i)
    <3>1. ParsePort(v) # <<>>
      BY <2>2 DEF OptionsParse, Parses, EditOk
    <3>2. Len(v) = 1 /\ v[1] \in DOMAIN NumberOf /\ ParsePort(v) = <<NumberOf[v[1]]>>
      BY <3>1 DEF ParsePort
    <3>3. v = <<v[1]>>
      BY <2>2, <3>2 DEF IsText
    <3>4. PICK c \in DOMAIN NumberOf : v = <<c>> /\ ParsePort(v) = <<NumberOf[c]>>
      BY <3>2, <3>3
    <3>5. new.port = NumberOf[c]
      BY <1>5, <2>2, <3>4 DEF PortOption, Kept
    <3>6. QED
      BY <1>3, <2>2, <3>4, <3>5 DEF PortGiven
  <2>3. QED
    BY <1>2, <2>1, <2>2, FirstText
<1>9. EnvironmentGiven(args, i)
  <2>1. CASE OptionalOption(args, "--env") = <<>> /\ NotGiven(args, "--env")
    <3>1. new.environment = old.environment
      BY <1>5, <2>1 DEF EnvironmentOption, Kept
    <3>2. QED
      BY <1>1, <1>3, <2>1, <3>1 DEF EnvironmentGiven
  <2>2. ASSUME NEW v, OptionalOption(args, "--env") = <<v>>, FirstIs(args, "--env", v)
        PROVE  EnvironmentGiven(args, i)
    <3>1. new.environment = Given(v)
      <4>1. PICK e : e = Given(v)
        OBVIOUS
      <4>2. EnvironmentOption(args) = <<e>>
        BY <2>2, <4>1 DEF EnvironmentOption
      <4>3. QED
        BY <1>5, <4>1, <4>2 DEF Kept
    <3>2. CASE v = <<>>
      BY <1>3, <2>2, <3>1, <3>2 DEF EnvironmentGiven, Given
    <3>3. CASE v # <<>>
      <4>1. new.environment = <<v>> /\ new.environment # <<>> /\ new.environment[1] = v
        BY <3>1, <3>3 DEF Given
      <4>2. new.environment # << <<>> >>
        BY <3>3, <4>1
      <4>3. QED
        BY <1>3, <2>2, <4>1, <4>2 DEF EnvironmentGiven
    <3>4. QED
      BY <3>2, <3>3
  <2>3. QED
    BY <1>2, <2>1, <2>2, FirstText
<1>10. QED
  BY <1>1, <1>3, <1>4, <1>6, <1>7, <1>8, <1>9 DEF GivenBy

\* Every command does what it was told to, to the connection that was typed.
LEMMA TellsChanges ==
  ASSUME IInv
  PROVE  /\ \A args \in Args["add"] : Add(args) => UNCHANGED vars \/ \A i \in DOMAIN conns : LeftAlone(i)
         /\ \A args \in Args["delete"], a \in Answers : Delete(args, a) => DeletedAsTold(args)
         /\ \A args \in Args["rename"] : Rename(args) => RenamedAsTold(args)
         /\ \A args \in Args["edit"] : Edit(args) => UNCHANGED vars \/ EditedAsTold(args)
<1>1. ASSUME NEW args \in Args["add"], Add(args) PROVE UNCHANGED vars \/ \A i \in DOMAIN conns : LeftAlone(i)
  <2>1. ASSUME Adds(args) PROVE \A i \in DOMAIN conns : LeftAlone(i)
    BY <2>1 DEF Adds, LeftAlone
  <2>2. QED
    BY <1>1, <2>1, AddEffect, ArgsGiven DEF IInv
<1>2. ASSUME NEW args \in Args["edit"], Edit(args) PROVE UNCHANGED vars \/ EditedAsTold(args)
  <2>1. CASE Refuse
    BY <2>1 DEF Refuse
  <2>2. ASSUME NEW i \in DOMAIN conns, EditOk(args), Found(i, args), Changes(i, Edited(conns[i], args))
        PROVE  EditedAsTold(args)
    <3>1. Row(conns[i])
      BY DEF IInv, TypeOK
    <3>2. GivenBy(args, i)
      BY <2>2, <3>1, EditTells
    <3>3. OneOf(i, args)
      BY <2>2, FoundIsOne
    <3>4. OthersAlone(i)
      BY <2>2 DEF Changes, OthersAlone, LeftAlone
    <3>5. QED
      BY <3>2, <3>3, <3>4 DEF EditedAsTold
  <2>3. QED
    BY <1>2, <2>1, <2>2, EditEffect, ArgsGiven DEF IInv
<1>3. ASSUME NEW args \in Args["rename"], Rename(args) PROVE RenamedAsTold(args)
  <2>1. PICK i \in DOMAIN conns : Found(i, args) /\ Changes(i, [conns[i] EXCEPT !.name = Trim(Text(args[2]))])
    BY <1>3, RenameEffect DEF IInv
  <2>2. PICK conn : conn = [conns[i] EXCEPT !.name = Trim(Text(args[2]))]
    OBVIOUS
  <2>3. Changes(i, conn)
    BY <2>1, <2>2
  <2>4. i \in DOMAIN conns' /\ conns'[i] = conn /\ OthersAlone(i)
    BY <2>3 DEF Changes, OthersAlone, LeftAlone
  <2>5. OneOf(i, args)
    BY <2>1, FoundIsOne
  <2>6. QED
    BY <2>2, <2>4, <2>5 DEF RenamedAsTold
<1>4. ASSUME NEW args \in Args["delete"], NEW answer \in Answers, Delete(args, answer) PROVE DeletedAsTold(args)
  <2>1. PICK i \in DOMAIN conns : Found(i, args) /\ Removes(i)
    BY <1>4, DeleteEffect DEF IInv
  <2>2. i \notin DOMAIN conns' /\ OthersAlone(i)
    BY <2>1 DEF Removes, OthersAlone, LeftAlone
  <2>3. OneOf(i, args)
    BY <2>1, FoundIsOne
  <2>4. QED
    BY <2>2, <2>3 DEF DeletedAsTold
<1>5. QED
  BY <1>1, <1>2, <1>3, <1>4

\* Only pgrs add gives an id, and it changes no connection that was there.
LEMMA AddLeaves ==
  ASSUME IInv, [Next]_vars, lastId' # lastId
  PROVE  \A i \in DOMAIN conns : LeftAlone(i)
<1>1. ASSUME NEW args \in Args["add"], Add(args) PROVE \A i \in DOMAIN conns : LeftAlone(i)
  <2>1. UNCHANGED vars \/ \A i \in DOMAIN conns : LeftAlone(i)
    BY <1>1, TellsChanges
  <2>2. QED
    BY <2>1 DEF vars
<1>2. ASSUME NEW args \in Args["edit"], Edit(args) PROVE FALSE
  BY <1>2 DEF Edit, Refuse, vars
<1>3. ASSUME NEW args \in Args["rename"], Rename(args) PROVE FALSE
  BY <1>3 DEF Rename
<1>4. ASSUME NEW args \in Args["delete"], NEW answer \in Answers, Delete(args, answer) PROVE FALSE
  BY <1>4 DEF Delete
<1>5. ASSUME NEW args \in Args["open"], Connect(args) PROVE FALSE
  BY <1>5 DEF Connect
<1>6. ASSUME NEW args \in Args["open"], NEW server \in Servers, Open(args, server) PROVE FALSE
  BY <1>6 DEF Open
<1>7. CASE UNCHANGED vars
  BY <1>7 DEF vars
<1>8. QED
  BY <1>1, <1>2, <1>3, <1>4, <1>5, <1>6, <1>7 DEF Next

\* A command that is not refused does what it was told to, to the one connection
\* that was typed, and leaves the others alone.
THEOREM ChangedAsTold == Spec => ChangesAsTold
<1> DEFINE Told ==
      conns' # conns =>
        /\ lastId' # lastId => \A i \in DOMAIN conns : LeftAlone(i)
        /\ \A args \in Args["delete"], a \in Answers : Delete(args, a) => DeletedAsTold(args)
        /\ \A args \in Args["rename"] : Rename(args) => RenamedAsTold(args)
        /\ \A args \in Args["edit"] : Edit(args) => EditedAsTold(args)
<1>1. ASSUME IInv, [Next]_vars PROVE [Told]_vars
  BY <1>1, TellsChanges, AddLeaves
<1>2. Spec => [][Told]_vars
  BY <1>1, InductiveInvariant, PTL DEF Spec
<1>3. QED
  BY <1>2 DEF ChangesAsTold

\* The connections that a user writes are made of texts, as a URL needs.
LEMMA PartsArePart ==
  ASSUME NEW p \in Parts
  PROVE  IsPart(p)
<1>1. /\ \A part \in {p.host, p.username, p.password, p.database} :
            IsText(part) /\ ToSet(part) \intersect DOMAIN Escapes = {}
      /\ ToSet(p.host) \intersect {"@", "/", "[", "]"} = {}
      /\ p.port # <<>> => p.port = <<p.port[1]>> /\ p.port[1] < 2^16
  BY PartsAssumption DEF PartsToWrite
<1>2. IsHost(p.host)
  BY <1>1 DEF IsHost
<1>3. QED
  BY <1>1, <1>2 DEF IsPart

\* A row added from the URL of a connection holds that connection.
LEMMA AddsAsAsked ==
  ASSUME IInv, NEW args \in Args["add"], Add(args), lastId' # lastId,
         OptionalOption(args, "--url") # <<>>,
         NEW p \in Parts, OptionalOption(args, "--url")[1] \in UrlsFor(p)
  PROVE  AsAsked(args, p)
<1>1. Adds(args)
  BY AddEffect, ArgsGiven DEF IInv, vars
<1>2. PICK row : row = AddedRow(args) /\ conns'[lastId'] = row
  BY <1>1 DEF Adds
<1>3. IsArgs(args)
  BY ArgsGiven
<1>4. PICK parts :
        /\ parts = [host |-> Given(p.host), port |-> p.port, username |-> <<p.username>>,
                    password |-> <<p.password>>, database |-> Given(p.database)]
        /\ UrlOption(args) = <<parts>>
  BY UrlRead, PartsArePart DEF UrlOption
<1>5. ASSUME NEW f \in Fields PROVE parts[f] # <<>> => parts[f][1] = p[f]
  BY <1>4 DEF Fields, Given
<1>6. ASSUME NEW f \in Fields PROVE Asked(args, f) = Or(OptionalOption(args, Flag[f]), parts[f])
  BY <1>4 DEF Asked
<1>7. ASSUME NEW f \in Fields PROVE FirstGiven(args, Flag[f], row.fields[f], p[f])
  <2>1. PICK o : o = OptionalOption(args, Flag[f])
    OBVIOUS
  <2>2. row.fields[f] = Asked(args, f)[1] /\ Asked(args, f) # <<>>
    BY <1>1, <1>2 DEF AddedRow, Adds, AddOk, Fields
  <2>3. row.fields[f] = Kept(o, p[f])
    BY <1>5, <1>6, <2>1, <2>2 DEF Or, Kept
  <2>4. QED
    BY <1>3, <2>1, <2>3, KeptIsFirst
<1>8. PortOption(args) = <<>> => row.port = Or(p.port, <<DefaultPort>>)[1]
  BY <1>2, <1>4 DEF AddedRow, Or
<1>9. QED
  BY <1>2, <1>7, <1>8 DEF AsAsked

\* A connection added by a URL has the parts the URL was written for, however it
\* was escaped, but for those that an option gives.
THEOREM AddedAsWritten == Spec => AddedAsAsked
<1>1. ASSUME IInv, lastId' # lastId,
             NEW args \in {a \in Args["add"] : Add(a) /\ OptionalOption(a, "--url") # <<>>},
             NEW p \in {q \in Parts : OptionalOption(args, "--url")[1] \in Urls[q]}
      PROVE  AsAsked(args, p)
  BY <1>1, AddsAsAsked DEF Urls
<1>2. IInv /\ [Next]_vars => [lastId' # lastId =>
        \A args \in {a \in Args["add"] : Add(a) /\ OptionalOption(a, "--url") # <<>>} :
          \A p \in {q \in Parts : OptionalOption(args, "--url")[1] \in Urls[q]} : AsAsked(args, p)]_vars
  BY <1>1
<1>3. QED
  BY <1>2, InductiveInvariant, PTL DEF Spec, AddedAsAsked

=============================================================================
