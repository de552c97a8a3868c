--------------------------- MODULE PowerLog_proofs ---------------------------
(* That the ring, its replay and its plot show the latest samples, for any  *)
(* number of cells, samples, columns and windows.                           *)
EXTENDS PowerLog, SequenceTheorems, SetInduction, TLAPS

USE DEF appVars, pollVars, cardVars, histVars

Latest(s) == History!Latest(s)

Values == Samples \cup {Zero, Garbled}
Cells  == 0 .. RingN - 1
Rings  == [cells : [Cells -> Values], head : Cells, count : 0 .. RingN]

Rows  == {Row(s) : s \in Samples}
Parts == {Header, Cut} \cup Rows
Lines == [parts : Seq(Parts) \ {<<>>}, ended : BOOLEAN]

\* A log file begins with its header, which is nowhere else; a line without an
\* end is a damaged row.
Files ==
  {f \in Seq(Lines) :
     f = <<>> \/ /\ f[1] = Ended(<<Header>>)
                 /\ \A i \in 2 .. Len(f) : f[i].parts[1] # Header
                 /\ \A i \in 2 .. Len(f) : ~f[i].ended => ~Intact(f[i])}

LoggedOf(f) == [i \in 1 .. Len(f) - 1 |-> Scanned(f[i + 1])]

\* TypeOK with the types of everything else, and the few facts about a power
\* cut and the open file those types rest on.
Typed ==
  /\ ring \in Rings /\ win \in DOMAIN Windows /\ file \in Files
  /\ logf \in {"none", "open", "dead"}
  /\ logf = "open" => card /\ mounted
  /\ logf # "none" => file # <<>>
  /\ fresh => power \in Samples
  /\ ~up => ring = EmptyRing /\ ~chart /\ logf = "none"

\* With the card in its slot, the ring is what the file says, and while power
\* is off the file still says what the ring was.
Restorable ==
  steady =>
    /\ card /\ logf # "dead" /\ \A i \in 1 .. Len(file) : file[i].ended
    /\ up => Held(ring) = Latest(LoggedOf(file))
    /\ ~up => before = Latest(LoggedOf(file))

-----------------------------------------------------------------------------
(* The latest of a sequence.                                               *)

\* Latest(s) is the end of s, of at most RingN elements.
LEMMA LatestIs ==
  ASSUME NEW S, NEW s \in Seq(S)
  PROVE  /\ Latest(s) \in Seq(S)
         /\ Len(Latest(s)) = IF Len(s) <= RingN THEN Len(s) ELSE RingN
         /\ \A i \in 1 .. Len(Latest(s)) : Latest(s)[i] = s[Len(s) - Len(Latest(s)) + i]
<1>1. CASE Len(s) <= RingN
  BY <1>1 DEF Latest, History!Latest
<1>2. CASE ~(Len(s) <= RingN)
  <2>1. Latest(s) = SubSeq(s, Len(s) - RingN + 1, Len(s))
    BY <1>2 DEF Latest, History!Latest
  <2> DEFINE m == Len(s) - RingN + 1
  <2>2. Len(s) \in Nat /\ RingN \in Nat \ {0}
    BY SizesAssumption
  <2>3. m \in Int /\ m \in 1 .. Len(s) /\ \A i \in m .. Len(s) : s[i] \in S
    BY <1>2, <2>2
  <2>4. /\ SubSeq(s, m, Len(s)) \in Seq(S)
        /\ Len(SubSeq(s, m, Len(s))) = IF m <= Len(s) THEN Len(s) - m + 1 ELSE 0
        /\ \A i \in 1 .. Len(s) - m + 1 : SubSeq(s, m, Len(s))[i] = s[m + i - 1]
    <3> HIDE DEF m
    <3> QED
      BY <2>2, <2>3, SubSeqProperties
  <2>5. Len(Latest(s)) = RingN
    BY <2>1, <2>2, <2>3, <2>4
  <2>6. ASSUME NEW i \in 1 .. RingN PROVE Latest(s)[i] = s[Len(s) - RingN + i]
    BY <2>1, <2>2, <2>4
  <2> QED
    BY <1>2, <2>1, <2>2, <2>4, <2>5, <2>6
<1> QED
  BY <1>1, <1>2

LEMMA LatestOfAppend ==
  ASSUME NEW S, NEW s \in Seq(S), NEW e \in S
  PROVE  Latest(Append(Latest(s), e)) = Latest(Append(s, e))
<1> DEFINE a == Append(Latest(s), e)
           b == Append(s, e)
<1>1. Len(s) \in Nat /\ RingN \in Nat \ {0}
  BY SizesAssumption
<1>2. /\ Latest(s) \in Seq(S) /\ a \in Seq(S) /\ b \in Seq(S)
      /\ Len(a) = Len(Latest(s)) + 1 /\ Len(b) = Len(s) + 1
      /\ \A i \in 1 .. Len(Latest(s)) : a[i] = Latest(s)[i]
      /\ \A i \in 1 .. Len(s) : b[i] = s[i]
      /\ a[Len(a)] = e /\ b[Len(b)] = e
  BY LatestIs, AppendProperties
<1>3. /\ Len(Latest(s)) = IF Len(s) <= RingN THEN Len(s) ELSE RingN
      /\ \A i \in 1 .. Len(Latest(s)) : Latest(s)[i] = s[Len(s) - Len(Latest(s)) + i]
  BY LatestIs
<1>4. /\ Latest(a) \in Seq(S) /\ Latest(b) \in Seq(S)
      /\ Len(Latest(a)) = IF Len(a) <= RingN THEN Len(a) ELSE RingN
      /\ Len(Latest(b)) = IF Len(b) <= RingN THEN Len(b) ELSE RingN
      /\ \A i \in 1 .. Len(Latest(a)) : Latest(a)[i] = a[Len(a) - Len(Latest(a)) + i]
      /\ \A i \in 1 .. Len(Latest(b)) : Latest(b)[i] = b[Len(b) - Len(Latest(b)) + i]
  <2> HIDE DEF a, b
  <2> QED
    BY <1>2, LatestIs
<1> HIDE DEF a, b
<1> DEFINE n == Len(s)
           k == Len(Latest(s))
           m == Len(Latest(a))
<1>5. n \in Nat /\ k = (IF n <= RingN THEN n ELSE RingN) /\ Len(a) = k + 1 /\ Len(b) = n + 1
  BY <1>1, <1>2, <1>3
<1>6. m = (IF k + 1 <= RingN THEN k + 1 ELSE RingN) /\ Len(Latest(b)) = m
  BY <1>1, <1>4, <1>5
<1>7. /\ \A i \in 1 .. m : Latest(a)[i] = a[k + 1 - m + i]
      /\ \A i \in 1 .. m : Latest(b)[i] = b[n + 1 - m + i]
  BY <1>4, <1>5, <1>6
<1> HIDE DEF n, k, m
<1>8. ASSUME NEW i \in 1 .. m PROVE Latest(a)[i] = Latest(b)[i]
  <2> DEFINE j == k + 1 - m + i
  <2>1. j \in 1 .. k + 1 /\ n + 1 - m + i = n - k + j
    BY <1>1, <1>5, <1>6
  <2>2. Latest(a)[i] = a[j]
    BY <1>7
  <2>3. Latest(b)[i] = b[n - k + j]
    BY <1>7, <2>1
  <2> HIDE DEF j
  <2>4. CASE j = k + 1
    <3>1. n - k + j = n + 1
      BY <1>1, <1>5, <2>4
    <3>2. a[j] = e /\ b[n - k + j] = e
      BY <1>2, <1>5, <2>4, <3>1
    <3> QED
      BY <2>2, <2>3, <3>2
  <2>5. CASE j # k + 1
    <3>1. j \in 1 .. k /\ n - k + j \in 1 .. n
      BY <1>1, <1>5, <2>1, <2>5
    <3>2. a[j] = s[n - k + j]
      BY <1>2, <1>3, <3>1 DEF n, k
    <3>3. b[n - k + j] = s[n - k + j]
      BY <1>2, <3>1 DEF n
    <3> QED
      BY <2>2, <2>3, <3>2, <3>3
  <2> QED
    BY <2>4, <2>5
<1>9. Latest(a) = Latest(b)
  BY <1>4, <1>6, <1>8, SeqEqual DEF m
<1> QED
  BY <1>9 DEF a, b

-----------------------------------------------------------------------------
(* The ring.                                                               *)

Index(r, i) == IF r.head - r.count + i < 0 THEN r.head - r.count + i + RingN
               ELSE r.head - r.count + i

\* The cell powerlog_at() reads.
LEMMA AtIs ==
  ASSUME NEW r \in Rings, NEW i \in 0 .. r.count - 1
  PROVE  At(r, i) = r.cells[Index(r, i)] /\ Index(r, i) \in Cells
<1>1. RingN \in Nat \ {0} /\ r.head \in 0 .. RingN - 1 /\ r.count \in 0 .. RingN
  BY SizesAssumption DEF Rings, Cells
<1> DEFINE a == r.head - r.count + i
<1>2. a \in Int /\ a >= -RingN /\ a < RingN /\ Index(r, i) = IF a < 0 THEN a + RingN ELSE a
  BY <1>1 DEF Index
<1> HIDE DEF a
<1>3. CASE a >= 0
  <2>1. Rem(a, RingN) = a
    BY <1>1, <1>2, <1>3 DEF Rem
  <2> QED
    BY <1>1, <1>2, <1>3, <2>1 DEF At, Cells, a
<1>4. CASE a < 0 /\ a > -RingN
  <2>1. (-a) % RingN = -a
    BY <1>1, <1>2, <1>4
  <2>2. Rem(a, RingN) = a
    BY <1>1, <1>2, <1>4, <2>1 DEF Rem
  <2> QED
    BY <1>1, <1>2, <1>4, <2>2 DEF At, Cells, a
<1>5. CASE a = -RingN
  <2>1. RingN % RingN = 0
    BY <1>1
  <2>2. Rem(a, RingN) = 0
    BY <1>1, <1>5, <2>1 DEF Rem
  <2> QED
    BY <1>1, <1>2, <1>5, <2>2 DEF At, Cells, a
<1> QED
  BY <1>1, <1>2, <1>3, <1>4, <1>5

LEMMA HeldIs ==
  ASSUME NEW r \in Rings
  PROVE  /\ Held(r) \in Seq(Values) /\ Len(Held(r)) = r.count
         /\ \A i \in 1 .. r.count : Held(r)[i] = r.cells[Index(r, i - 1)]
<1>1. r.count \in Nat
  BY SizesAssumption DEF Rings
<1>2. ASSUME NEW i \in 1 .. r.count
      PROVE  At(r, i - 1) = r.cells[Index(r, i - 1)] /\ At(r, i - 1) \in Values
  <2>1. i - 1 \in 0 .. r.count - 1
    BY <1>1
  <2>2. r.cells \in [Cells -> Values]
    BY DEF Rings
  <2> QED
    BY <2>1, <2>2, AtIs
<1> QED
  BY <1>1, <1>2 DEF Held

\* pushRing() keeps the ring well formed; the sample is its newest.
LEMMA PushedIs ==
  ASSUME NEW r \in Rings, NEW s \in Values
  PROVE  /\ Pushed(r, s) \in Rings
         /\ Pushed(r, s).cells = [r.cells EXCEPT ![r.head] = s]
         /\ Pushed(r, s).head = IF r.head = RingN - 1 THEN 0 ELSE r.head + 1
         /\ Pushed(r, s).count = IF r.count < RingN THEN r.count + 1 ELSE r.count
<1>1. RingN \in Nat \ {0} /\ r.head \in Cells /\ r.count \in 0 .. RingN
  BY SizesAssumption DEF Rings
<1>2. (r.head + 1) % RingN = IF r.head = RingN - 1 THEN 0 ELSE r.head + 1
  <2>1. \A c \in 0 .. RingN : c % RingN = IF c < RingN THEN c ELSE 0
    BY <1>1
  <2>2. r.head + 1 \in 0 .. RingN
    BY <1>1 DEF Cells
  <2> QED
    BY <1>1, <2>1, <2>2 DEF Cells
<1>3. [r.cells EXCEPT ![r.head] = s] \in [Cells -> Values]
  BY DEF Rings
<1>4. /\ (IF r.head = RingN - 1 THEN 0 ELSE r.head + 1) \in Cells
      /\ (IF r.count < RingN THEN r.count + 1 ELSE r.count) \in 0 .. RingN
  BY <1>1 DEF Cells
<1> QED
  BY <1>2, <1>3, <1>4 DEF Pushed, Rings

LEMMA HeldOfPushed ==
  ASSUME NEW r \in Rings, NEW s \in Values
  PROVE  Held(Pushed(r, s)) = Latest(Append(Held(r), s))
<1> DEFINE p == Pushed(r, s)
           a == Append(Held(r), s)
<1>1. /\ RingN \in Nat \ {0} /\ r.head \in 0 .. RingN - 1 /\ r.count \in 0 .. RingN
      /\ r.cells \in [0 .. RingN - 1 -> Values]
  BY SizesAssumption DEF Rings, Cells
<1>2. /\ p \in Rings /\ p.cells = [r.cells EXCEPT ![r.head] = s]
      /\ p.head = IF r.head = RingN - 1 THEN 0 ELSE r.head + 1
      /\ p.count = IF r.count < RingN THEN r.count + 1 ELSE r.count
  BY PushedIs
<1> HIDE DEF p
<1>3. /\ Held(p) \in Seq(Values) /\ Len(Held(p)) = p.count
      /\ \A i \in 1 .. p.count : Held(p)[i] = p.cells[Index(p, i - 1)]
  BY <1>2, HeldIs
<1>4. /\ Held(r) \in Seq(Values) /\ Len(Held(r)) = r.count
      /\ \A i \in 1 .. r.count : Held(r)[i] = r.cells[Index(r, i - 1)]
  BY HeldIs
<1>5. /\ a \in Seq(Values) /\ Len(a) = r.count + 1 /\ a[r.count + 1] = s
      /\ \A i \in 1 .. r.count : a[i] = Held(r)[i]
  BY <1>4, AppendProperties
<1> HIDE DEF a
<1>6. /\ Latest(a) \in Seq(Values) /\ Len(Latest(a)) = p.count
      /\ \A i \in 1 .. p.count : Latest(a)[i] = a[r.count + 1 - p.count + i]
  BY <1>1, <1>2, <1>5, LatestIs
<1> DEFINE h == r.head
           c == r.count
           d == p.count
<1>7. /\ h \in 0 .. RingN - 1 /\ c \in 0 .. RingN /\ d = IF c < RingN THEN c + 1 ELSE c
      /\ p.head = IF h = RingN - 1 THEN 0 ELSE h + 1
      /\ \A i : Index(p, i) = IF p.head - d + i < 0 THEN p.head - d + i + RingN
                              ELSE p.head - d + i
      /\ \A i : Index(r, i) = IF h - c + i < 0 THEN h - c + i + RingN ELSE h - c + i
  BY <1>1, <1>2 DEF Index
<1>8. ASSUME NEW i \in 1 .. d PROVE Held(p)[i] = a[c + 1 - d + i]
  <2>1. Held(p)[i] = p.cells[Index(p, i - 1)]
    BY <1>3
  <2>2. CASE i = d
    <3>1. Index(p, i - 1) = h
      <4> HIDE DEF h, c, d
      <4> QED
        BY <1>1, <1>7, <2>2
    <3>2. p.cells[h] = s
      BY <1>1, <1>2
    <3>3. c + 1 - d + i = c + 1
      <4> HIDE DEF h, c, d
      <4> QED
        BY <1>7, <2>2
    <3> QED
      BY <1>5, <2>1, <3>1, <3>2, <3>3
  <2>3. CASE i # d
    <3> DEFINE j == c + 1 - d + i
    <3>1. j \in 1 .. c /\ Index(p, i - 1) = Index(r, j - 1) /\ Index(p, i - 1) # h
      <4> HIDE DEF h, c, d
      <4>1. j \in 1 .. c
        BY <1>1, <1>7, <2>3
      <4>2. CASE h = RingN - 1
        BY <1>1, <1>7, <2>3, <4>2
      <4>3. CASE h # RingN - 1
        BY <1>1, <1>7, <2>3, <4>3
      <4> QED
        BY <4>1, <4>2, <4>3
    <3> HIDE DEF j
    <3>2. j - 1 \in 0 .. c - 1
      BY <1>7, <3>1
    <3>3. Index(r, j - 1) \in 0 .. RingN - 1
      BY <3>2, AtIs DEF Cells
    <3>4. p.cells[Index(p, i - 1)] = r.cells[Index(r, j - 1)]
      BY <1>1, <1>2, <3>1, <3>3
    <3>5. Held(r)[j] = r.cells[Index(r, j - 1)] /\ a[j] = Held(r)[j]
      BY <1>4, <1>5, <3>1
    <3> QED
      BY <2>1, <3>4, <3>5 DEF j
  <2> QED
    BY <2>2, <2>3
<1>9. Held(p) = Latest(a)
  BY <1>3, <1>6, <1>8, SeqEqual
<1> QED
  BY <1>9 DEF p, a

LEMMA EmptyRingIs == EmptyRing \in Rings /\ Held(EmptyRing) = <<>>
<1>1. 0 \in Cells /\ 0 \in 0 .. RingN
  BY SizesAssumption DEF Cells
<1>2. EmptyRing.cells \in [Cells -> Values] /\ EmptyRing.head = 0 /\ EmptyRing.count = 0
  BY DEF EmptyRing, Values, Cells
<1>3. EmptyRing \in Rings
  BY <1>1, <1>2 DEF EmptyRing, Rings, Values, Cells
<1>4. Held(EmptyRing) = [i \in 1 .. 0 |-> At(EmptyRing, i - 1)]
  BY <1>2 DEF Held
<1>5. Held(EmptyRing) = <<>>
  BY <1>4
<1> QED
  BY <1>3, <1>5

-----------------------------------------------------------------------------
(* The file.                                                               *)

\* What the parts of a line are.
LEMMA PartsAre ==
  /\ Header.kind = "header" /\ Cut.kind = "cut" /\ Cut # Header
  /\ \A p \in Rows : p.kind = "row" /\ p.sample \in Samples /\ p # Header /\ p # Cut
  /\ \A s \in Samples : Row(s) \in Rows /\ Row(s).sample = s
BY DEF Header, Cut, Row, Rows

\* What replaySdFile() makes of a line: nothing is intact but one whole row.
LEMMA ScannedIs ==
  ASSUME NEW line \in Lines
  PROVE  /\ Scanned(line) \in Samples \cup {Garbled}
         /\ Len(line.parts) # 1 => ~Intact(line)
         /\ line.parts = <<Cut>> => ~Intact(line)
         /\ \A p \in Rows : line.parts = <<p>> => Scanned(line) = p.sample
<1>1. line.parts \in Seq(Parts) /\ line.parts # <<>> /\ line.parts[1] \in Parts
  BY ElementOfSeq, EmptySeq DEF Lines
<1>2. Intact(line) => line.parts[1] \in Rows
  BY <1>1, PartsAre DEF Intact, Parts
<1>3. Scanned(line) \in Samples \cup {Garbled}
  BY <1>2, PartsAre DEF Scanned
<1>4. Len(line.parts) # 1 => ~Intact(line)
  BY <1>1 DEF Intact
<1>5. line.parts = <<Cut>> => ~Intact(line)
  BY PartsAre DEF Intact
<1>6. ASSUME NEW p \in Rows, line.parts = <<p>> PROVE Scanned(line) = p.sample
  <2>1. line.parts[1] = p
    BY <1>6
  <2> QED
    BY <1>6, <2>1, PartsAre DEF Scanned, Intact
<1> QED
  BY <1>3, <1>4, <1>5, <1>6

LEMMA LoggedIs ==
  ASSUME NEW f \in Files
  PROVE  /\ LoggedOf(f) \in Seq(Samples \cup {Garbled})
         /\ Len(LoggedOf(f)) = IF f = <<>> THEN 0 ELSE Len(f) - 1
         /\ \A i \in 1 .. Len(f) - 1 : LoggedOf(f)[i] = Scanned(f[i + 1])
<1>1. f \in Seq(Lines) /\ Len(f) \in Nat /\ (f = <<>> <=> Len(f) = 0)
  BY EmptySeq DEF Files
<1>2. ASSUME NEW i \in 1 .. Len(f) - 1 PROVE Scanned(f[i + 1]) \in Samples \cup {Garbled}
  <2>1. i + 1 \in 1 .. Len(f)
    BY <1>1
  <2> QED
    BY <1>1, <2>1, ElementOfSeq, ScannedIs
<1>3. CASE f = <<>>
  <2>1. 1 .. Len(f) - 1 = 1 .. 0
    BY <1>1, <1>3
  <2>2. LoggedOf(f) = [i \in 1 .. 0 |-> Scanned(f[i + 1])]
    BY <2>1, Zenon DEF LoggedOf
  <2>3. LoggedOf(f) = <<>>
    BY <2>2
  <2> QED
    <3>1. Len(LoggedOf(f)) = 0 /\ LoggedOf(f) \in Seq(Samples \cup {Garbled})
      BY <2>3, EmptySeq
    <3>2. 1 .. Len(f) - 1 = {}
      BY <2>1
    <3> QED
      BY <1>3, <3>1, <3>2
<1>4. CASE f # <<>>
  <2>1. Len(f) - 1 \in Nat
    BY <1>1, <1>4
  <2> QED
    BY <1>2, <1>4, <2>1 DEF LoggedOf
<1> QED
  BY <1>3, <1>4

\* Text joins the last line if that has no end yet, else it begins a line.
LEMMA ExtendedIs ==
  ASSUME NEW f \in Seq(Lines), f # <<>>, NEW part \in Parts, NEW nl \in BOOLEAN
  PROVE  LET n == Len(f)
             open == ~f[n].ended
             m == IF open THEN n ELSE n + 1
             g == Extended(f, part, nl)
         IN  /\ n \in Nat \ {0} /\ g \in Seq(Lines) /\ Len(g) = m
             /\ \A i \in 1 .. m - 1 : g[i] = f[i]
             /\ g[m].ended = nl
             /\ g[m].parts = IF open THEN Append(f[n].parts, part) ELSE <<part>>
<1> DEFINE n == Len(f)
           open == ~f[n].ended
           parts == IF open THEN Append(f[n].parts, part) ELSE <<part>>
           line == [parts |-> parts, ended |-> nl]
           kept == IF open THEN SubSeq(f, 1, n - 1) ELSE f
<1>1. n \in Nat \ {0} /\ f[n] \in Lines
  <2>1. n \in Nat \ {0}
    BY EmptySeq
  <2> QED
    BY <2>1, ElementOfSeq
<1>2. f[n].parts \in Seq(Parts) /\ f[n].parts # <<>>
  BY <1>1 DEF Lines
<1>3. line \in Lines
  <2>1. parts \in Seq(Parts) /\ parts # <<>>
    BY <1>2, AppendProperties
  <2> QED
    BY <2>1 DEF Lines
<1>4. Extended(f, part, nl) = Append(kept, line)
  <2>1. (n > 0 /\ ~f[n].ended) = open
    BY <1>1
  <2>2. line = IF nl THEN [parts |-> parts, ended |-> TRUE] ELSE [parts |-> parts, ended |-> FALSE]
    <3>1. CASE nl
      BY <3>1, Zenon
    <3>2. CASE ~nl
      BY <3>2, Zenon
    <3> QED
      BY <3>1, <3>2
  <2> QED
    BY <2>1, <2>2, Zenon DEF Extended, Ended, Unended
<1>5. /\ kept \in Seq(Lines) /\ Len(kept) = IF open THEN n - 1 ELSE n
      /\ \A i \in 1 .. Len(kept) : kept[i] = f[i]
  <2>1. \A i \in 1 .. n - 1 : f[i] \in Lines
    BY <1>1, ElementOfSeq
  <2> DEFINE q == n - 1
             sub == SubSeq(f, 1, q)
  <2>2. q \in Nat /\ q = n - 1
    BY <1>1
  <2> HIDE DEF q
  <2>5. /\ sub \in Seq(Lines) /\ Len(sub) = (IF 1 <= q THEN q - 1 + 1 ELSE 0)
        /\ \A i \in 1 .. q - 1 + 1 : sub[i] = f[1 + i - 1]
    BY <2>1, <2>2, SubSeqProperties
  <2> HIDE DEF sub
  <2>6. Len(sub) = q /\ \A i \in 1 .. q : sub[i] = f[i]
    BY <2>2, <2>5
  <2>3. CASE open
    <3>1. kept = sub
      BY <2>3 DEF sub, q
    <3> HIDE DEF kept
    <3> QED
      BY <2>2, <2>5, <2>6, <2>3, <3>1
  <2>4. CASE ~open
    BY <2>4
  <2> QED
    BY <2>3, <2>4
<1> HIDE DEF line, kept
<1>6. /\ Append(kept, line) \in Seq(Lines) /\ Len(Append(kept, line)) = Len(kept) + 1
      /\ \A i \in 1 .. Len(kept) : Append(kept, line)[i] = kept[i]
      /\ Append(kept, line)[Len(kept) + 1] = line
  BY <1>3, <1>5, AppendProperties
<1>7. line.ended = nl /\ line.parts = parts
  BY DEF line
<1> QED
  BY <1>1, <1>4, <1>5, <1>6, <1>7

\* A row or the beginning of one that power cut short is appended.
LEMMA LoggedOfExtended ==
  ASSUME NEW f \in Files, f # <<>>, NEW part \in {Cut} \cup Rows, NEW nl \in BOOLEAN,
         nl <=> part \in Rows
  PROVE  LET g == Extended(f, part, nl)
         IN  /\ g \in Files \ {<<>>}
             /\ f[Len(f)].ended => LoggedOf(g) = Append(LoggedOf(f), IF nl THEN part.sample ELSE Garbled)
             /\ ~f[Len(f)].ended => LoggedOf(g) = LoggedOf(f)
             /\ nl /\ (\A i \in 1 .. Len(f) : f[i].ended) => \A i \in 1 .. Len(g) : g[i].ended
<1> DEFINE n == Len(f)
           open == ~f[n].ended
           m == IF open THEN n ELSE n + 1
           g == Extended(f, part, nl)
<1>1. f \in Seq(Lines) /\ part \in Parts
  BY DEF Files, Parts
<1>2. /\ n \in Nat \ {0} /\ g \in Seq(Lines) /\ Len(g) = m
      /\ \A i \in 1 .. m - 1 : g[i] = f[i]
      /\ g[m].ended = nl
      /\ g[m].parts = IF open THEN Append(f[n].parts, part) ELSE <<part>>
  BY <1>1, ExtendedIs
<1>3. /\ f[1] = Ended(<<Header>>)
      /\ \A i \in 2 .. n : f[i].parts[1] # Header /\ (~f[i].ended => ~Intact(f[i]))
  BY DEF Files
<1>4. n = 1 => ~open
  BY <1>3 DEF Ended
<1>5. m \in 2 .. n + 1 /\ m - 1 \in 1 .. n
  BY <1>2, <1>4
<1> HIDE DEF g, m
<1>6. g[m] \in Lines /\ (open => f[n] \in Lines)
  BY <1>1, <1>2, <1>5, ElementOfSeq
<1>7. open => Len(g[m].parts) # 1 /\ g[m].parts[1] = f[n].parts[1]
  <2> SUFFICES ASSUME open PROVE Len(g[m].parts) # 1 /\ g[m].parts[1] = f[n].parts[1]
    OBVIOUS
  <2>1. f[n].parts \in Seq(Parts) /\ Len(f[n].parts) \in Nat \ {0}
    BY <1>6, EmptySeq DEF Lines
  <2> QED
    BY <1>1, <1>2, <2>1, AppendProperties
<1>8. ~open => g[m].parts = <<part>> /\ g[m].parts[1] = part
  BY <1>2
<1>9. g[m].parts[1] # Header
  BY <1>2, <1>3, <1>4, <1>5, <1>7, <1>8, PartsAre DEF m
<1>10. ~g[m].ended => ~Intact(g[m])
  BY <1>2, <1>6, <1>7, <1>8, ScannedIs
<1>11. g[1] = f[1] /\ \A i \in 2 .. m - 1 : g[i] = f[i]
  BY <1>2, <1>5
<1>12. g \in Files \ {<<>>}
  <2>1. \A i \in 2 .. m : g[i].parts[1] # Header /\ (~g[i].ended => ~Intact(g[i]))
    BY <1>3, <1>5, <1>9, <1>10, <1>11
  <2>2. g # <<>>
    BY <1>2, <1>5, EmptySeq
  <2> QED
    BY <1>2, <1>3, <1>11, <2>1, <2>2 DEF Files
<1>13. /\ LoggedOf(f) \in Seq(Samples \cup {Garbled}) /\ Len(LoggedOf(f)) = n - 1
       /\ \A i \in 1 .. n - 1 : LoggedOf(f)[i] = Scanned(f[i + 1])
  BY LoggedIs
<1>14. /\ LoggedOf(g) \in Seq(Samples \cup {Garbled}) /\ Len(LoggedOf(g)) = m - 1
       /\ \A i \in 1 .. m - 1 : LoggedOf(g)[i] = Scanned(g[i + 1])
  BY <1>2, <1>12, LoggedIs
<1>15. ASSUME f[n].ended
       PROVE  LoggedOf(g) = Append(LoggedOf(f), IF nl THEN part.sample ELSE Garbled)
  <2> DEFINE e == IF nl THEN part.sample ELSE Garbled
             a == Append(LoggedOf(f), e)
  <2>1. m = n + 1 /\ ~open
    BY <1>15 DEF m
  <2>2. Scanned(g[m]) = e /\ e \in Samples \cup {Garbled}
    BY <1>6, <1>8, <2>1, ScannedIs, PartsAre DEF Scanned
  <2>3. /\ a \in Seq(Samples \cup {Garbled}) /\ Len(a) = n
        /\ \A i \in 1 .. n - 1 : a[i] = LoggedOf(f)[i]
        /\ a[n] = e
    <3> HIDE DEF e
    <3> QED
      BY <1>2, <1>13, <2>2, AppendProperties
  <2> HIDE DEF a, e
  <2>4. ASSUME NEW i \in 1 .. n PROVE LoggedOf(g)[i] = a[i]
    <3>1. LoggedOf(g)[i] = Scanned(g[i + 1])
      BY <1>14, <2>1, <1>2
    <3>2. CASE i = n
      BY <2>1, <2>2, <2>3, <3>1, <3>2
    <3>3. CASE i # n
      <4>1. i \in 1 .. n - 1 /\ i + 1 \in 2 .. m - 1
        BY <1>2, <2>1, <3>3
      <4> QED
        BY <1>11, <1>13, <2>3, <3>1, <4>1
    <3> QED
      BY <3>2, <3>3
  <2>5. LoggedOf(g) = a
    BY <1>2, <1>14, <2>1, <2>3, <2>4, SeqEqual
  <2> QED
    BY <2>5 DEF a, e
<1>16. ASSUME ~f[n].ended PROVE LoggedOf(g) = LoggedOf(f)
  <2>1. m = n /\ open
    BY <1>16 DEF m
  <2>2. Scanned(g[m]) = Garbled /\ Scanned(f[n]) = Garbled
    BY <1>3, <1>4, <1>6, <1>7, <2>1, <1>2, ScannedIs DEF Scanned
  <2>3. ASSUME NEW i \in 1 .. n - 1 PROVE LoggedOf(g)[i] = LoggedOf(f)[i]
    <3>1. CASE i + 1 = m
      BY <1>13, <1>14, <2>1, <2>2, <3>1
    <3>2. CASE i + 1 # m
      BY <1>2, <1>11, <1>13, <1>14, <2>1, <3>2
    <3> QED
      BY <3>1, <3>2
  <2> QED
    BY <1>13, <1>14, <2>1, <2>3, SeqEqual
<1>17. ASSUME nl, \A i \in 1 .. n : f[i].ended PROVE \A i \in 1 .. m : g[i].ended
  <2> SUFFICES ASSUME NEW i \in 1 .. m PROVE g[i].ended
    OBVIOUS
  <2>1. CASE i = m
    BY <1>2, <1>17, <2>1
  <2>2. CASE i # m
    <3>1. g[i] = f[i] /\ i \in 1 .. n
      BY <1>2, <1>5, <2>2
    <3> QED
      BY <1>17, <3>1
  <2> QED
    BY <2>1, <2>2
<1> QED
  BY <1>2, <1>12, <1>15, <1>16, <1>17 DEF g

-----------------------------------------------------------------------------
(* The replay.                                                             *)

\* g[n] is the ring when n lines of f have been replayed.
Replay(f, g) ==
  g = [n \in 0 .. Len(f) |-> IF n = 0 THEN EmptyRing ELSE Replayed(g[n - 1], f[n])]

LEMMA ReplayExists == ASSUME NEW f \in Files PROVE \E g : Replay(f, g)
<1> DEFINE R(m, g) ==
             /\ g[0] = EmptyRing
             /\ \A n \in 1 .. m : g[n] = Replayed(g[n - 1], f[n])
           S == {m \in Nat : \E g : R(m, g)}
<1>1. Len(f) \in Nat
  BY DEF Files
<1>2. 0 \in S
  <2>1. R(0, [n \in {0} |-> EmptyRing])
    OBVIOUS
  <2> QED
    BY <2>1
<1>3. ASSUME NEW m \in Nat, m \in S PROVE m + 1 \in S
  <2>1. PICK g : R(m, g)
    BY <1>3
  <2> DEFINE h == [n \in 0 .. m + 1 |-> IF n = m + 1 THEN Replayed(g[m], f[m + 1]) ELSE g[n]]
  <2>2. h[0] = EmptyRing
    BY <2>1
  <2>3. ASSUME NEW n \in 1 .. m + 1 PROVE h[n] = Replayed(h[n - 1], f[n])
    <3>1. n - 1 \in 0 .. m /\ n - 1 # m + 1
      OBVIOUS
    <3>2. h[n - 1] = g[n - 1]
      BY <3>1
    <3>3. CASE n = m + 1
      BY <3>2, <3>3
    <3>4. CASE n # m + 1
      <4>1. n \in 1 .. m /\ h[n] = g[n]
        BY <3>4
      <4> QED
        BY <2>1, <3>2, <4>1
    <3> QED
      BY <3>3, <3>4
  <2> HIDE DEF h
  <2> QED
    BY <2>2, <2>3
<1>4. Len(f) \in S
  <2> HIDE DEF S
  <2> QED
    BY <1>1, <1>2, <1>3, NatSetInduction
<1>5. PICK g : R(Len(f), g)
  BY <1>4
<1> DEFINE h == [n \in 0 .. Len(f) |-> g[n]]
<1>6. ASSUME NEW n \in 0 .. Len(f)
      PROVE  h[n] = IF n = 0 THEN EmptyRing ELSE Replayed(h[n - 1], f[n])
  <2>1. CASE n = 0
    BY <1>1, <1>5, <2>1
  <2>2. CASE n # 0
    <3>1. n \in 1 .. Len(f) /\ n - 1 \in 0 .. Len(f)
      BY <1>1, <2>2
    <3> QED
      BY <1>5, <2>2, <3>1
  <2> QED
    BY <2>1, <2>2
<1>7. h = [n \in 0 .. Len(f) |-> h[n]]
  OBVIOUS
<1> HIDE DEF h
<1>8. Replay(f, h)
  BY <1>6, <1>7, Zenon DEF Replay
<1> QED
  BY <1>8

LEMMA RingFromIs == ASSUME NEW f \in Files PROVE \E g : Replay(f, g) /\ RingFrom(f) = g[Len(f)]
BY ReplayExists DEF RingFrom, Replay

\* What the first n lines of f say.
Upto(f, n) == [i \in 1 .. n - 1 |-> Scanned(f[i + 1])]

LEMMA UptoMore ==
  ASSUME NEW f \in Files, NEW n \in 1 .. Len(f) - 1
  PROVE  /\ Upto(f, n) \in Seq(Values) /\ Scanned(f[n + 1]) \in Values
         /\ Upto(f, n + 1) = Append(Upto(f, n), Scanned(f[n + 1]))
<1>1. f \in Seq(Lines) /\ Len(f) \in Nat /\ n \in Nat \ {0}
  BY DEF Files
<1>2. \A i \in 1 .. n : Scanned(f[i + 1]) \in Values
  <2> SUFFICES ASSUME NEW i \in 1 .. n PROVE Scanned(f[i + 1]) \in Values
    OBVIOUS
  <2>1. i + 1 \in 1 .. Len(f)
    BY <1>1
  <2> QED
    BY <1>1, <2>1, ElementOfSeq, ScannedIs DEF Values
<1>3. /\ Upto(f, n) \in Seq(Values) /\ Len(Upto(f, n)) = n - 1
      /\ \A i \in 1 .. n - 1 : Upto(f, n)[i] = Scanned(f[i + 1])
  BY <1>1, <1>2 DEF Upto
<1>4. /\ Upto(f, n + 1) \in Seq(Values) /\ Len(Upto(f, n + 1)) = n
      /\ \A i \in 1 .. n : Upto(f, n + 1)[i] = Scanned(f[i + 1])
  <2>1. n + 1 - 1 = n
    BY <1>1
  <2>2. Upto(f, n + 1) = [i \in 1 .. n |-> Scanned(f[i + 1])]
    BY <2>1 DEF Upto
  <2> QED
    BY <1>1, <1>2, <2>2
<1> DEFINE a == Append(Upto(f, n), Scanned(f[n + 1]))
<1>5. Scanned(f[n + 1]) \in Values
  BY <1>1, <1>2
<1>6. /\ a \in Seq(Values) /\ Len(a) = n /\ a[n] = Scanned(f[n + 1])
      /\ \A i \in 1 .. n - 1 : a[i] = Scanned(f[i + 1])
  BY <1>1, <1>3, <1>5, AppendProperties
<1> HIDE DEF a
<1>7. Upto(f, n + 1) = a
  BY <1>1, <1>4, <1>6, SeqEqual
<1> QED
  BY <1>3, <1>5, <1>7 DEF a

\* replaySdFile() leaves the latest rows of the file in the ring.
LEMMA ReplayedIs ==
  ASSUME NEW f \in Files
  PROVE  RingFrom(f) \in Rings /\ Held(RingFrom(f)) = Latest(LoggedOf(f))
<1>1. PICK g : Replay(f, g) /\ RingFrom(f) = g[Len(f)]
  BY RingFromIs
<1>2. /\ f \in Seq(Lines) /\ Len(f) \in Nat
      /\ f # <<>> => /\ f[1] = Ended(<<Header>>)
                     /\ \A i \in 2 .. Len(f) : f[i].parts[1] # Header
  BY DEF Files
<1>3. g[0] = EmptyRing /\ \A n \in 1 .. Len(f) : g[n] = Replayed(g[n - 1], f[n])
  BY <1>1, <1>2 DEF Replay
<1>4. Latest(<<>>) = <<>>
  BY SizesAssumption, EmptySeq DEF Latest, History!Latest
<1>5. Upto(f, 0) = <<>> /\ Upto(f, 1) = <<>>
  <2>1. 1 .. 0 - 1 = 1 .. 0 /\ 1 .. 1 - 1 = 1 .. 0
    OBVIOUS
  <2>2. /\ Upto(f, 0) = [i \in 1 .. 0 |-> Scanned(f[i + 1])]
        /\ Upto(f, 1) = [i \in 1 .. 0 |-> Scanned(f[i + 1])]
    BY <2>1, Zenon DEF Upto
  <2> QED
    BY <2>2
<1> DEFINE S == {n \in Nat : g[n] \in Rings /\ Held(g[n]) = Latest(Upto(f, n))}
<1>6. 0 \in S
  BY <1>3, <1>4, <1>5, EmptyRingIs
<1>7. ASSUME NEW n \in 0 .. Len(f) - 1, n \in S PROVE n + 1 \in S
  <2>1. n + 1 \in 1 .. Len(f) /\ f # <<>> /\ n \in Nat
    BY <1>2, EmptySeq
  <2>2. g[n + 1] = Replayed(g[n], f[n + 1])
    BY <1>3, <2>1
  <2>3. g[n] \in Rings /\ Held(g[n]) = Latest(Upto(f, n))
    BY <1>7
  <2>4. CASE n = 0
    <3>1. f[n + 1].parts[1].kind = "header"
      BY <1>2, <2>1, <2>4, PartsAre DEF Ended
    <3>2. g[n + 1] = g[n]
      BY <2>2, <3>1 DEF Replayed
    <3>3. Upto(f, n + 1) = Upto(f, n)
      BY <1>5, <2>4
    <3> QED
      BY <2>1, <2>3, <3>2, <3>3
  <2>5. CASE n # 0
    <3>1. n \in 1 .. Len(f) - 1 /\ n + 1 \in 2 .. Len(f)
      BY <1>2, <2>5
    <3>2. f[n + 1] \in Lines
      BY <1>2, <2>1, ElementOfSeq
    <3>3. f[n + 1].parts[1] \in Parts \ {Header}
      BY <1>2, <2>1, <3>1, <3>2, ElementOfSeq, EmptySeq DEF Lines
    <3>4. f[n + 1].parts[1].kind # "header"
      BY <3>3, PartsAre DEF Parts
    <3>5. g[n + 1] = Pushed(g[n], Scanned(f[n + 1]))
      BY <2>2, <3>4 DEF Replayed
    <3>6. /\ Upto(f, n) \in Seq(Values) /\ Scanned(f[n + 1]) \in Values
          /\ Upto(f, n + 1) = Append(Upto(f, n), Scanned(f[n + 1]))
      BY <3>1, UptoMore
    <3>7. g[n + 1] \in Rings
      BY <2>3, <3>5, <3>6, PushedIs
    <3>8. Held(g[n + 1]) = Latest(Append(Latest(Upto(f, n)), Scanned(f[n + 1])))
      BY <2>3, <3>5, <3>6, HeldOfPushed
    <3>9. Held(g[n + 1]) = Latest(Upto(f, n + 1))
      BY <3>6, <3>8, LatestOfAppend
    <3> QED
      BY <2>1, <3>7, <3>9
  <2> QED
    BY <2>4, <2>5
<1>8. Len(f) \in S
  <2> HIDE DEF S
  <2>1. 0 .. Len(f) \subseteq S
    BY <1>2, <1>6, <1>7, IntervalSetInduction
  <2> QED
    BY <1>2, <2>1
<1>9. LoggedOf(f) = Upto(f, Len(f))
  BY DEF LoggedOf, Upto
<1> QED
  BY <1>1, <1>8, <1>9

-----------------------------------------------------------------------------
(* The invariants.                                                         *)

LEMMA InitTyped == Init => Typed
<1> SUFFICES ASSUME Init PROVE Typed
  OBVIOUS
<1>1. ring \in Rings /\ win \in DOMAIN Windows
  BY EmptyRingIs, PlotAssumption, EmptySeq DEF Init
<1>2. file \in Files
  BY EmptySeq DEF Init, Files
<1> QED
  BY <1>1, <1>2 DEF Init, Typed

LEMMA TypedOK == Typed => TypeOK
BY DEF Typed, TypeOK, Rings, Cells, Values

\* The file a row is appended to.
LEMMA BaseIs ==
  ASSUME Typed, logf # "dead"
  PROVE  LET f == IF logf = "none" THEN Opened ELSE file
         IN  /\ f \in Files /\ f # <<>> /\ LoggedOf(f) = LoggedOf(file)
             /\ (\A i \in 1 .. Len(file) : file[i].ended) => \A i \in 1 .. Len(f) : f[i].ended
<1> DEFINE h == Ended(<<Header>>)
<1>1. h \in Lines /\ h.ended = TRUE
  BY DEF Ended, Lines, Parts
<1>2. /\ <<h>> \in Seq(Lines) /\ Len(<<h>>) = 1 /\ <<h>> # <<>>
      /\ <<h>>[1] = h
  BY <1>1
<1>3. <<h>> \in Files
  BY <1>2 DEF Files
<1>4. LoggedOf(<<h>>) = <<>> /\ LoggedOf(<<>>) = <<>>
  <2>1. Len(LoggedOf(<<h>>)) = 0 /\ LoggedOf(<<h>>) \in Seq(Samples \cup {Garbled})
    BY <1>2, <1>3, LoggedIs
  <2>2. <<>> \in Files
    BY EmptySeq DEF Files
  <2>3. Len(LoggedOf(<<>>)) = 0 /\ LoggedOf(<<>>) \in Seq(Samples \cup {Garbled})
    BY <2>2, LoggedIs
  <2> QED
    BY <2>1, <2>3, EmptySeq
<1>5. CASE file = <<>>
  <2>1. logf = "none" /\ Opened = <<h>>
    BY <1>5 DEF Typed, Opened
  <2> HIDE DEF h
  <2> QED
    BY <1>1, <1>2, <1>3, <1>4, <1>5, <2>1
<1>6. CASE file # <<>>
  BY <1>6 DEF Typed, Opened
<1> QED
  BY <1>5, <1>6

\* logToSd() adds the row or nothing; with the card in its slot and no row cut
\* short, it adds the row.
LEMMA LogsIs ==
  ASSUME Typed, power \in Samples, Logs(Row(power), TRUE)
  PROVE  /\ file' \in Files /\ (file # <<>> => file' # <<>>)
         /\ \/ UNCHANGED <<file, logf>> /\ ~(card /\ logf # "dead")
            \/ /\ file' # <<>> /\ logf' = "open" /\ card' /\ mounted'
               /\ LoggedOf(file') \in {LoggedOf(file), Append(LoggedOf(file), power)}
               /\ (\A i \in 1 .. Len(file) : file[i].ended) =>
                    /\ LoggedOf(file') = Append(LoggedOf(file), power)
                    /\ \A i \in 1 .. Len(file') : file'[i].ended
<1> DEFINE f == IF logf = "none" THEN Opened ELSE file
<1>1. CASE ~(mounted' /\ card /\ logf \in {"none", "open"})
  BY <1>1 DEF Logs, Typed
<1>2. CASE mounted' /\ card /\ logf \in {"none", "open"}
  <2>1. /\ f \in Files /\ f # <<>> /\ LoggedOf(f) = LoggedOf(file)
        /\ (\A i \in 1 .. Len(file) : file[i].ended) => \A i \in 1 .. Len(f) : f[i].ended
    BY <1>2, BaseIs
  <2>2. file' = Extended(f, Row(power), TRUE) /\ logf' = "open" /\ card' = card
    BY <1>2 DEF Logs
  <2> HIDE DEF f
  <2>3. Row(power) \in Rows /\ Row(power).sample = power
    BY PartsAre
  <2>4. /\ file' \in Files \ {<<>>}
        /\ f[Len(f)].ended => LoggedOf(file') = Append(LoggedOf(f), power)
        /\ ~f[Len(f)].ended => LoggedOf(file') = LoggedOf(f)
        /\ (\A i \in 1 .. Len(f) : f[i].ended) => \A i \in 1 .. Len(file') : file'[i].ended
    BY <2>1, <2>2, <2>3, LoggedOfExtended
  <2>5. Len(f) \in 1 .. Len(f)
    BY <2>1, EmptySeq DEF Files
  <2> QED
    BY <1>2, <2>1, <2>2, <2>4, <2>5
<1> QED
  BY <1>1, <1>2

LEMMA TickTyped == ASSUME Typed, TickSamples PROVE Typed'
<1>1. power \in Samples /\ power \in Values
  BY DEF TickSamples, Samplable, Typed, Values
<1>2. ring' \in Rings
  BY <1>1, PushedIs DEF TickSamples, Typed
<1>3. Logs(Row(power), TRUE)
  BY DEF TickSamples
<1>4. /\ file' \in Files /\ logf' \in {"none", "open", "dead"}
      /\ logf' = "open" => card' /\ mounted'
      /\ logf' # "none" => file' # <<>>
  BY <1>1, <1>3, LogsIs DEF Typed, Logs
<1>5. win' \in DOMAIN Windows /\ fresh' = FALSE /\ up' = up /\ up
  BY DEF TickSamples, Samplable, Typed
<1> QED
  BY <1>2, <1>4, <1>5 DEF Typed

\* A row power cuts short is damaged, or damages the line it continues.
LEMMA CutIs ==
  ASSUME Typed, PowerFailsInRow
  PROVE  file' \in Files /\ LoggedOf(file') \in {LoggedOf(file), Append(LoggedOf(file), Garbled)}
<1> DEFINE f == IF logf = "none" THEN Opened ELSE file
<1>1. f \in Files /\ f # <<>> /\ LoggedOf(f) = LoggedOf(file)
  BY BaseIs DEF PowerFailsInRow
<1>2. file' = Extended(f, Cut, FALSE)
  BY DEF PowerFailsInRow
<1> HIDE DEF f
<1>3. Cut \notin Rows
  BY PartsAre
<1> QED
  BY <1>1, <1>2, <1>3, LoggedOfExtended

LEMMA NextTyped == Typed /\ [Next]_vars => Typed'
<1> SUFFICES ASSUME Typed, [Next]_vars PROVE Typed'
  OBVIOUS
<1>1. CASE TickSamples
  BY <1>1, TickTyped
<1>2. CASE UiRepaintsChart \/ UiOpensChart \/ UiLeavesChart
  BY <1>2 DEF Typed, UiRepaintsChart, UiOpensChart, UiLeavesChart
<1>3. CASE \E w \in DOMAIN Windows : UiPicksWindow(w)
  BY <1>3 DEF Typed, UiPicksWindow
<1>4. CASE PollPublishes \/ TelemetryGoesStale \/ IntervalPasses
  BY <1>4 DEF Typed, PollPublishes, TelemetryGoesStale, IntervalPasses
<1>5. CASE PowerFails
  BY <1>5, EmptyRingIs DEF Typed, PowerFails, Loses
<1>6. CASE PowerFailsInRow
  <2>1. file' \in Files
    BY <1>6, CutIs
  <2> QED
    BY <1>6, <2>1, EmptyRingIs DEF Typed, PowerFailsInRow, Loses
<1>7. CASE Boots
  <2>1. ring' \in Rings
    BY <1>7, EmptyRingIs, ReplayedIs DEF Typed, Boots
  <2> QED
    BY <1>7, <2>1 DEF Typed, Boots
<1>8. CASE CardPulled
  BY <1>8 DEF Typed, CardPulled
<1>9. CASE CardInserted
  BY <1>9 DEF Typed, CardInserted
<1>10. CASE UNCHANGED vars
  BY <1>10 DEF Typed, vars
<1> QED
  BY <1>1, <1>2, <1>3, <1>4, <1>5, <1>6, <1>7, <1>8, <1>9, <1>10 DEF Next, Loop, Env

LEMMA WellTyped == Spec => []Typed
<1>1. Init => Typed
  BY InitTyped
<1>2. Typed /\ [Next]_vars => Typed'
  BY NextTyped
<1> QED
  BY <1>1, <1>2, PTL DEF Spec

\* The ring's indices stay in the ring and its cells hold samples; a log that is
\* open is on a card that is in.
THEOREM TypeCorrect == Spec => []TypeOK
<1>1. Typed => TypeOK
  BY TypedOK
<1> QED
  BY <1>1, WellTyped, PTL

-----------------------------------------------------------------------------
(* The ring and its file implement SampleHistory.                          *)

LEMMA InitRefines == Init => History!Init
<1> SUFFICES ASSUME Init PROVE Held(ring) = <<>> /\ Logged = <<>>
  BY DEF History!Init
<1>1. file \in Files /\ file = <<>>
  BY EmptySeq DEF Init, Files
<1>2. Len(LoggedOf(file)) = 0 /\ LoggedOf(file) \in Seq(Samples \cup {Garbled})
  BY <1>1, LoggedIs
<1> QED
  BY <1>2, EmptyRingIs, EmptySeq DEF Init, Logged, LoggedOf

LEMMA NextRefines ==
  ASSUME Typed, [Next]_vars PROVE [History!Next]_<<Held(ring), Logged>>
<1> USE DEF Logged
<1>1. CASE TickSamples
  <2>1. power \in Samples /\ power \in Values /\ ring \in Rings /\ ring' = Pushed(ring, power)
    BY <1>1 DEF TickSamples, Samplable, Typed, Values
  <2>2. Held(ring') = Latest(Append(Held(ring), power))
    BY <2>1, HeldOfPushed
  <2>3. LoggedOf(file') \in {LoggedOf(file), Append(LoggedOf(file), power)}
    BY <1>1, <2>1, LogsIs DEF TickSamples
  <2>4. History!Capture
    BY <2>1, <2>2, <2>3 DEF History!Capture, Latest, LoggedOf
  <2> QED
    BY <2>4 DEF History!Next
<1>2. CASE PowerFails \/ PowerFailsInRow
  <2>1. Held(ring') = <<>>
    BY <1>2, EmptyRingIs DEF PowerFails, PowerFailsInRow, Loses
  <2>2. LoggedOf(file') \in {LoggedOf(file), Append(LoggedOf(file), Garbled)}
    BY <1>2, CutIs DEF PowerFails
  <2>3. History!PowerLost
    BY <2>1, <2>2 DEF History!PowerLost, LoggedOf
  <2> QED
    BY <2>3 DEF History!Next
<1>3. CASE Boots
  <2>1. Held(ring) = <<>> /\ file' = file
    BY <1>3, EmptyRingIs DEF Boots, Typed
  <2>2. Held(ring') \in {<<>>, Latest(LoggedOf(file))}
    BY <1>3, EmptyRingIs, ReplayedIs DEF Boots, Typed
  <2>3. History!Restart
    BY <2>1, <2>2 DEF History!Restart, Latest, LoggedOf
  <2> QED
    BY <2>3 DEF History!Next
<1>4. CASE ring' = ring /\ file' = file
  BY <1>4
<1> QED
  BY <1>1, <1>2, <1>3, <1>4
  DEF Next, Loop, Env, vars, UiRepaintsChart, UiOpensChart, UiLeavesChart, UiPicksWindow,
      PollPublishes, TelemetryGoesStale, IntervalPasses, CardPulled, CardInserted

\* pushRing(), powerlog_at(), logToSd() and replaySdFile() together do what the
\* chart relies on, whatever the number of cells and however often power fails
\* or the card is pulled.
THEOREM ImplementsHistory == Spec => RingIsHistory
<1>1. Init => History!Init
  BY InitRefines
<1>2. Typed /\ [Next]_vars => [History!Next]_<<Held(ring), Logged>>
  BY NextRefines
<1> QED
  BY <1>1, <1>2, WellTyped, PTL DEF Spec, RingIsHistory, History!Spec

-----------------------------------------------------------------------------
(* With the card in its slot, a power cut loses nothing.                   *)

LEMMA InitRestorable == Init => Restorable
<1> SUFFICES ASSUME Init PROVE Restorable
  OBVIOUS
<1>1. Held(ring) = <<>> /\ LoggedOf(file) = <<>>
  BY InitRefines DEF History!Init, Logged, LoggedOf
<1>2. Latest(<<>>) = <<>>
  BY SizesAssumption, EmptySeq DEF Latest, History!Latest
<1> QED
  BY <1>1, <1>2, EmptySeq DEF Init, Restorable

LEMMA NextRestorable == Typed /\ Restorable /\ [Next]_vars => Restorable'
<1> SUFFICES ASSUME Typed, Restorable, [Next]_vars PROVE Restorable'
  OBVIOUS
<1>1. CASE TickSamples
  <2>1. /\ power \in Samples /\ power \in Values /\ ring \in Rings
        /\ ring' = Pushed(ring, power) /\ up /\ up' = up /\ steady' = steady
    BY <1>1 DEF TickSamples, Samplable, Typed, Values
  <2>2. Logs(Row(power), TRUE)
    BY <1>1 DEF TickSamples
  <2> SUFFICES ASSUME steady PROVE Restorable'
    BY <2>1 DEF Restorable
  <2>3. /\ card /\ logf # "dead" /\ \A i \in 1 .. Len(file) : file[i].ended
        /\ Held(ring) = Latest(LoggedOf(file))
    BY <2>1 DEF Restorable
  <2>4. /\ logf' = "open" /\ card' /\ LoggedOf(file') = Append(LoggedOf(file), power)
        /\ \A i \in 1 .. Len(file') : file'[i].ended
    BY <2>1, <2>2, <2>3, LogsIs
  <2>5. LoggedOf(file) \in Seq(Values)
    <3>1. LoggedOf(file) \in Seq(Samples \cup {Garbled})
      BY LoggedIs DEF Typed
    <3> QED
      BY <3>1 DEF Values
  <2>6. Held(ring') = Latest(Append(LoggedOf(file), power))
    BY <2>1, <2>3, <2>5, HeldOfPushed, LatestOfAppend
  <2> QED
    BY <2>1, <2>4, <2>6 DEF Restorable
<1>2. CASE PowerFails
  BY <1>2 DEF PowerFails, Loses, Restorable
<1>3. CASE PowerFailsInRow \/ CardPulled
  BY <1>3 DEF PowerFailsInRow, CardPulled, Restorable
<1>4. CASE Boots
  <2>1. card => Held(ring') = Latest(LoggedOf(file))
    BY <1>4, ReplayedIs DEF Boots, Typed
  <2> QED
    BY <1>4, <2>1 DEF Boots, Restorable
<1>5. CASE CardInserted
  BY <1>5 DEF CardInserted, Restorable
<1>6. CASE UNCHANGED <<up, ring, steady, card, logf, file, before>>
  BY <1>6 DEF Restorable
<1> QED
  BY <1>1, <1>2, <1>3, <1>4, <1>5, <1>6
  DEF Next, Loop, Env, vars, UiRepaintsChart, UiOpensChart, UiLeavesChart, UiPicksWindow,
      PollPublishes, TelemetryGoesStale, IntervalPasses

\* After a power cut between two rows the chart shows what it showed before.
THEOREM RestartRestores == Spec => SurvivesReboot
<1>1. Init => Restorable
  BY InitRestorable
<1>2. Typed /\ Restorable /\ [Next]_vars => Restorable'
  BY NextRestorable
<1>3. ASSUME Typed, Restorable, [Next]_vars
      PROVE  [~up /\ up' /\ steady => Held(ring') = before]_vars
  <2> SUFFICES ASSUME ~up, up', steady, Next PROVE Held(ring') = before
    BY <1>3 DEF vars
  <2>1. Boots
    BY DEF Next, Loop, Env, TickSamples, Samplable, UiRepaintsChart, UiOpensChart,
       UiLeavesChart, UiPicksWindow, PollPublishes, TelemetryGoesStale, IntervalPasses,
       PowerFails, PowerFailsInRow, CardPulled, CardInserted
  <2>2. card /\ before = Latest(LoggedOf(file))
    BY <1>3 DEF Restorable
  <2> QED
    BY <1>3, <2>1, <2>2, ReplayedIs DEF Boots, Typed
<1> QED
  BY <1>1, <1>2, <1>3, WellTyped, PTL DEF Spec, SurvivesReboot

-----------------------------------------------------------------------------
(* The chart.                                                              *)

LEMMA NextChart == Typed /\ ChartFollows /\ [Next]_vars => ChartFollows'
<1> SUFFICES ASSUME Typed, ChartFollows, [Next]_vars PROVE ChartFollows'
  OBVIOUS
<1> USE DEF ChartFollows, TotalChanged
<1>1. CASE TickSamples
  BY <1>1 DEF TickSamples
<1>2. CASE UiRepaintsChart \/ UiOpensChart \/ UiLeavesChart
  BY <1>2 DEF UiRepaintsChart, UiOpensChart, UiLeavesChart
<1>3. CASE \E w \in DOMAIN Windows : UiPicksWindow(w)
  BY <1>3 DEF UiPicksWindow
<1>4. CASE PowerFails \/ PowerFailsInRow
  BY <1>4 DEF PowerFails, PowerFailsInRow, Loses
<1>5. CASE Boots
  BY <1>5 DEF Boots, Typed
<1>6. CASE UNCHANGED <<ring, unseen, chart, win, painted>>
  BY <1>6 DEF Plotted
<1> QED
  BY <1>1, <1>2, <1>3, <1>4, <1>5, <1>6
  DEF Next, Loop, Env, vars, PollPublishes, TelemetryGoesStale, IntervalPasses, CardPulled,
      CardInserted

\* powerlog_total() misses no sample: a chart the watch finds nothing new for
\* shows the ring as it is, however often the ring has wrapped.
THEOREM ChartWatches == Spec => []ChartFollows
<1>1. Init => ChartFollows
  BY DEF Init, ChartFollows
<1>2. Typed /\ ChartFollows /\ [Next]_vars => ChartFollows'
  BY NextChart
<1> QED
  BY <1>1, <1>2, WellTyped, PTL DEF Spec

LEMMA Times ==
  ASSUME NEW d \in Nat, NEW x \in Int, NEW y \in Int, x <= y
  PROVE  d * x <= d * y /\ d * x \in Int /\ d * y \in Int
OBVIOUS

\* The quotient, by its two inequalities.
LEMMA DivIs ==
  ASSUME NEW a \in Nat, NEW d \in Nat \ {0}
  PROVE  /\ a \div d \in Nat
         /\ d * (a \div d) <= a /\ a < d * (a \div d) + d
OBVIOUS

LEMMA DivUnique ==
  ASSUME NEW a \in Nat, NEW d \in Nat \ {0}, NEW q \in Nat, d * q <= a, a < d * q + d
  PROVE  a \div d = q
<1> DEFINE r == a \div d
<1>1. r \in Nat /\ d * r <= a /\ a < d * r + d
  BY DivIs
<1> HIDE DEF r
<1>2. d * (r + 1) = d * r + d /\ d * (q + 1) = d * q + d
  BY <1>1
<1>3. CASE r < q
  <2>1. d * (r + 1) <= d * q
    BY <1>1, <1>3, Times
  <2> QED
    BY <1>1, <1>2, <2>1
<1>4. CASE q < r
  <2>1. d * (q + 1) <= d * r
    BY <1>1, <1>4, Times
  <2> QED
    BY <1>1, <1>2, <2>1
<1> QED
  BY <1>1, <1>3, <1>4 DEF r

LEMMA DivMonotone ==
  ASSUME NEW a \in Nat, NEW b \in Nat, NEW d \in Nat \ {0}, a <= b
  PROVE  a \div d <= b \div d
<1> DEFINE q == a \div d
           r == b \div d
<1>1. q \in Nat /\ r \in Nat /\ d * q <= a /\ b < d * r + d
  BY DivIs
<1> HIDE DEF q, r
<1>2. CASE r < q
  <2>1. d * (r + 1) <= d * q
    BY <1>1, <1>2, Times
  <2>2. d * (r + 1) = d * r + d
    BY <1>1
  <2> QED
    BY <1>1, <2>1, <2>2
<1> QED
  BY <1>1, <1>2 DEF q, r

\* The columns: the first shows the oldest of n samples and the last the newest,
\* in order, and every sample has one if there are columns enough.
LEMMA ColumnIs ==
  ASSUME NEW n \in Nat, n >= 2
  PROVE  /\ Column(0, n) = 0 /\ Column(PlotW - 1, n) = n - 1
         /\ \A x \in 0 .. PlotW - 1 : Column(x, n) \in 0 .. n - 1
         /\ \A x, y \in 0 .. PlotW - 1 : x <= y => Column(x, n) <= Column(y, n)
         /\ n <= PlotW => \A i \in 0 .. n - 1 : \E x \in 0 .. PlotW - 1 : Column(x, n) = i
<1> DEFINE d == PlotW - 1
           m == n - 1
<1>1. d \in Nat \ {0} /\ m \in Nat \ {0} /\ d = PlotW - 1 /\ m = n - 1 /\ PlotW \in Nat
  BY PlotAssumption
<1>2. \A x : Column(x, n) = (x * m) \div d
  BY DEF Column
<1> HIDE DEF d, m
<1>3. ASSUME NEW x \in Nat, NEW y \in Nat, x <= y
      PROVE  (x * m) \div d <= (y * m) \div d /\ (x * m) \div d \in Nat
  <2>1. x * m \in Nat /\ y * m \in Nat /\ x * m <= y * m
    <3>1. m * x <= m * y
      BY <1>1, <1>3, Times
    <3> QED
      BY <1>1, <3>1
  <2> QED
    BY <1>1, <2>1, DivMonotone, DivIs
<1>4. (0 * m) \div d = 0 /\ (d * m) \div d = m
  <2>1. d * m \in Nat /\ d * m <= d * m /\ d * m < d * m + d
    BY <1>1
  <2>2. 0 * m = 0 /\ d * 0 = 0
    BY <1>1
  <2> QED
    BY <1>1, <2>1, <2>2, DivUnique
<1>5. ASSUME NEW x \in 0 .. d PROVE (x * m) \div d \in 0 .. m
  BY <1>1, <1>3, <1>4
<1>6. ASSUME m <= d, NEW i \in 0 .. m PROVE \E x \in 0 .. d : (x * m) \div d = i
  <2> DEFINE a == d * i + m - 1
             x == a \div m
  <2>1. d * i \in Nat /\ a \in Nat /\ a = d * i + m - 1 /\ d * i <= d * m
    BY <1>1, Times
  <2>2. x \in Nat /\ m * x <= a /\ a < m * x + m
    BY <1>1, <2>1, DivIs
  <2> HIDE DEF a, x
  <2>3. x * m = m * x /\ x * m \in Nat
    BY <1>1, <2>2
  <2>4. d * i <= x * m /\ x * m < d * i + d
    BY <1>1, <1>6, <2>1, <2>2, <2>3
  <2>5. (x * m) \div d = i
    BY <1>1, <2>3, <2>4, DivUnique
  <2>6. x <= d
    <3>1. CASE d + 1 <= x
      <4>1. m * (d + 1) <= m * x
        BY <1>1, <2>2, <3>1, Times
      <4>2. m * (d + 1) = d * m + m
        BY <1>1
      <4> QED
        BY <1>1, <2>1, <2>2, <4>1, <4>2
    <3> QED
      BY <1>1, <2>2, <3>1
  <2> QED
    BY <1>1, <2>2, <2>5, <2>6
<1>7. \A x, y \in 0 .. d : x <= y => (x * m) \div d <= (y * m) \div d
  BY <1>1, <1>3
<1> QED
  <2>1. Column(0, n) = 0 /\ Column(d, n) = m
    BY <1>2, <1>4
  <2>2. \A x \in 0 .. d : Column(x, n) \in 0 .. m
    BY <1>2, <1>5
  <2>3. \A x, y \in 0 .. d : x <= y => Column(x, n) <= Column(y, n)
    BY <1>2, <1>7
  <2>4. m <= d => \A i \in 0 .. m : \E x \in 0 .. d : Column(x, n) = i
    BY <1>2, <1>6
  <2>5. n <= PlotW => m <= d
    BY <1>1
  <2> QED
    BY <2>1, <2>2, <2>3, <2>4, <2>5 DEF d, m

LEMMA PlottedSpans == Typed /\ ChartFollows => ChartSpansWindow
<1> SUFFICES ASSUME Typed, ChartFollows, chart, ~TotalChanged, ring.count >= 2
             PROVE  ChartSpansWindow
  BY DEF ChartSpansWindow
<1> DEFINE k == ring.count
           n == IF k < Windows[win] THEN k ELSE Windows[win]
           recent == SubSeq(Held(ring), k - n + 1, k)
           shown == [c \in 1 .. PlotW |-> Column(c - 1, n) + 1]
<1>1. PlotW \in Nat /\ PlotW >= 2 /\ Windows[win] \in Nat /\ Windows[win] >= 2
  BY PlotAssumption, ElementOfSeq DEF Typed
<1>2. /\ ring \in Rings /\ k \in Nat /\ k >= 2 /\ n \in Nat /\ n >= 2 /\ n <= k
  BY <1>1, SizesAssumption DEF Typed, Rings
<1>3. painted = [c \in 1 .. PlotW |-> At(ring, k - n + Column(c - 1, n))]
  BY <1>2 DEF ChartFollows, Plotted
<1>4. \A i \in 1 .. n : recent[i] = Held(ring)[k - n + i]
  <2>1. Held(ring) \in Seq(Values) /\ Len(Held(ring)) = k
    BY <1>2, HeldIs
  <2>2. k - n + 1 \in Int /\ k \in Int /\ \A i \in k - n + 1 .. k : Held(ring)[i] \in Values
    BY <1>2, <2>1, ElementOfSeq
  <2>3. \A i \in 1 .. k - (k - n + 1) + 1 : recent[i] = Held(ring)[(k - n + 1) + i - 1]
    <3> HIDE DEF n
    <3> QED
      BY <2>2, SubSeqProperties
  <2> HIDE DEF n, k, recent
  <2> QED
    BY <1>2, <2>3
<1>5. \A i \in 1 .. k : Held(ring)[i] = At(ring, i - 1)
  BY DEF Held
<1> HIDE DEF recent, n
<1>6. /\ Column(0, n) = 0 /\ Column(PlotW - 1, n) = n - 1
      /\ \A x \in 0 .. PlotW - 1 : Column(x, n) \in 0 .. n - 1
      /\ \A x, y \in 0 .. PlotW - 1 : x <= y => Column(x, n) <= Column(y, n)
      /\ n <= PlotW => \A i \in 0 .. n - 1 : \E x \in 0 .. PlotW - 1 : Column(x, n) = i
  BY <1>2, ColumnIs
<1>7. shown \in [1 .. PlotW -> 1 .. n]
  <2> SUFFICES ASSUME NEW c \in 1 .. PlotW PROVE Column(c - 1, n) + 1 \in 1 .. n
    OBVIOUS
  <2>1. c - 1 \in 0 .. PlotW - 1
    BY <1>1
  <2> QED
    BY <1>2, <1>6, <2>1
<1>8. ASSUME NEW c \in 1 .. PlotW PROVE painted[c] = recent[shown[c]]
  <2> DEFINE j == Column(c - 1, n)
  <2>1. c - 1 \in 0 .. PlotW - 1
    BY <1>1
  <2>2. j \in 0 .. n - 1 /\ shown[c] = j + 1
    BY <1>6, <2>1
  <2>3. painted[c] = At(ring, k - n + j)
    BY <1>3
  <2> HIDE DEF j, shown, k
  <2>4. recent[j + 1] = Held(ring)[k - n + j + 1]
    <3>1. j + 1 \in 1 .. n /\ k - n + (j + 1) = k - n + j + 1
      BY <1>2, <2>2
    <3> QED
      BY <1>4, <3>1
  <2> DEFINE q == k - n + j + 1
  <2>5. q \in 1 .. k /\ q - 1 = k - n + j /\ recent[j + 1] = Held(ring)[q]
    BY <1>2, <2>2, <2>4
  <2> HIDE DEF q
  <2>6. Held(ring)[q] = At(ring, q - 1)
    BY <1>5, <2>5
  <2> QED
    BY <2>2, <2>3, <2>5, <2>6
<1>9. shown[1] = 1 /\ shown[PlotW] = n
  <2>1. 1 - 1 = 0 /\ n - 1 + 1 = n /\ 1 \in 1 .. PlotW /\ PlotW \in 1 .. PlotW
    BY <1>1, <1>2
  <2> QED
    BY <1>6, <2>1
<1>10. ASSUME NEW c \in 2 .. PlotW PROVE shown[c - 1] <= shown[c]
  <2>1. /\ c - 1 \in 1 .. PlotW /\ c \in 1 .. PlotW /\ c - 1 - 1 \in 0 .. PlotW - 1
        /\ c - 1 \in 0 .. PlotW - 1 /\ c - 1 - 1 <= c - 1
    BY <1>1
  <2>2. /\ Column(c - 1 - 1, n) <= Column(c - 1, n)
        /\ Column(c - 1 - 1, n) \in Int /\ Column(c - 1, n) \in Int
    BY <1>2, <1>6, <2>1
  <2>3. shown[c - 1] = Column(c - 1 - 1, n) + 1 /\ shown[c] = Column(c - 1, n) + 1
    BY <2>1
  <2> HIDE DEF shown
  <2> QED
    BY <2>2, <2>3
<1>11. ASSUME n <= PlotW, NEW i \in 1 .. n PROVE \E c \in 1 .. PlotW : shown[c] = i
  <2>1. i - 1 \in 0 .. n - 1
    BY <1>2
  <2>2. PICK x \in 0 .. PlotW - 1 : Column(x, n) = i - 1
    BY <1>6, <1>11, <2>1
  <2>3. x + 1 \in 1 .. PlotW /\ x + 1 - 1 = x
    BY <1>1
  <2>4. shown[x + 1] = i
    BY <1>2, <2>2, <2>3
  <2> QED
    BY <2>3, <2>4
<1> HIDE DEF shown
<1>12. \E f \in [1 .. PlotW -> 1 .. n] :
          /\ \A c \in 1 .. PlotW : painted[c] = recent[f[c]]
          /\ f[1] = 1 /\ f[PlotW] = n
          /\ \A c \in 2 .. PlotW : f[c - 1] <= f[c]
          /\ n <= PlotW => \A i \in 1 .. n : \E c \in 1 .. PlotW : f[c] = i
  BY <1>7, <1>8, <1>9, <1>10, <1>11
<1> QED
  BY <1>12, Zenon DEF ChartSpansWindow, recent, n

\* For every plot, window and position of the ring, the chart begins with the
\* oldest sample of the window, ends with the newest and leaves none out for
\* which there is a column.
THEOREM ChartIsWhole == Spec => []ChartSpansWindow
<1>1. Typed /\ ChartFollows => ChartSpansWindow
  BY PlottedSpans
<1> QED
  BY <1>1, WellTyped, ChartWatches, PTL

=============================================================================
