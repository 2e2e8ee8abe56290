--------------------------- MODULE WebPageProofs ----------------------------
(***************************************************************************)
(* The page for every set of lines, names, texts and sizes that can be     *)
(* typed: what is read off a line, the invariants of WebPage, and that     *)
(* saving stores the text that is shown.                                   *)
(***************************************************************************)
EXTENDS WebPage, WebVolumeProofs, WellFoundedInduction

-----------------------------------------------------------------------------
(* Counting up.  What starts at 0 and goes on from k - 1 to k reaches n.   *)

LEMMA LeastNatural ==
  ASSUME NEW T, T \subseteq Nat, T # {}
  PROVE  \E x \in T : \A y \in T : x <= y
<1> DEFINE R == {ss \in Nat \X Nat : ss[1] < ss[2]}
<1>1. IsWellFoundedOn(R, Nat)
  BY NatLessThanWellFounded DEF OpToRel
<1>2. PICK x \in T : \A y \in T : ~ (<<y, x>> \in R)
  <2> HIDE DEF R
  <2> QED
    BY <1>1, WFMin
<1>3. ASSUME NEW y \in T, y < x
      PROVE  FALSE
  <2>1. <<y, x>> \in Nat \X Nat /\ <<y, x>>[1] < <<y, x>>[2]
    BY <1>3
  <2>2. <<y, x>> \in R
    BY <2>1
  <2> QED
    BY <1>2, <2>2
<1>4. x \in Nat /\ \A y \in T : y \in Nat
  OBVIOUS
<1> HIDE DEF R
<1> QED
  BY <1>3, <1>4

LEMMA CountUp ==
  ASSUME NEW n \in Nat, NEW S, 0 \in S, \A k \in 1 .. n : k - 1 \in S => k \in S
  PROVE  0 .. n \subseteq S
<1> DEFINE T == {k \in 0 .. n : k \notin S}
<1>1. SUFFICES ASSUME T # {} PROVE FALSE
  OBVIOUS
<1>2. T \subseteq Nat
  OBVIOUS
<1>3. PICK x \in T : \A y \in T : x <= y
  <2> HIDE DEF T
  <2> QED
    BY <1>1, <1>2, LeastNatural
<1>4. x \in 1 .. n /\ x \notin S
  OBVIOUS
<1>5. x - 1 \in S
  BY <1>3, <1>4
<1> QED
  BY <1>4, <1>5

\* Every set of numbers up to n that is not empty has a least and a largest one.
LEMMA Extremes ==
  ASSUME NEW n \in Nat, NEW S, S \subseteq 1 .. n, S # {}
  PROVE  /\ Min(S) \in S /\ \A k \in S : Min(S) <= k
         /\ Max(S) \in S /\ \A k \in S : k <= Max(S)
<1>1. \E x \in S : \A y \in S : x <= y
  <2>1. S \subseteq Nat
    OBVIOUS
  <2> QED
    BY <2>1, LeastNatural
<1>2. \E x \in S : \A y \in S : x >= y
  <2> DEFINE T == {k \in Nat : n - k \in S}
  <2>1. T \subseteq Nat
    OBVIOUS
  <2>2. ASSUME NEW y \in S PROVE n - y \in T /\ y \in Int
    <3>1. n - y \in Nat /\ n - (n - y) = y /\ y \in Int
      OBVIOUS
    <3> QED
      BY <3>1
  <2>3. T # {}
    BY <2>2
  <2>4. PICK t \in T : \A u \in T : t <= u
    <3> HIDE DEF T
    <3> QED
      BY <2>1, <2>3, LeastNatural
  <2>5. t \in Nat /\ n - t \in S
    OBVIOUS
  <2>6. ASSUME NEW y \in S PROVE n - t >= y
    <3>1. t <= n - y
      BY <2>2, <2>4
    <3> QED
      BY <2>2, <2>5, <3>1
  <2> QED
    BY <2>5, <2>6
<1>3. Min(S) \in S /\ \A k \in S : Min(S) <= k
  BY <1>1 DEF Min
<1>4. Max(S) \in S /\ \A k \in S : Max(S) >= k
  BY <1>2 DEF Max
<1> QED
  BY <1>3, <1>4

-----------------------------------------------------------------------------
(* Trim.                                                                   *)

Inside(line) == {k \in DOMAIN line : line[k] \notin Gap}

\* Trim takes a part of the line that starts and ends with no blank.
LEMMA TrimPart ==
  ASSUME NEW C, NEW line \in Seq(C)
  PROVE  \/ Inside(line) = {} /\ Trim(line) = <<>>
         \/ \E i, j \in DOMAIN line :
              /\ i <= j /\ line[i] \notin Gap /\ line[j] \notin Gap
              /\ \A k \in Inside(line) : i <= k /\ k <= j
              /\ Trim(line) = SubSeq(line, i, j)
<1>1. CASE Inside(line) = {}
  BY <1>1 DEF Trim, Inside
<1>2. CASE Inside(line) # {}
  <2> DEFINE i == Min(Inside(line))
             j == Max(Inside(line))
  <2>1. Len(line) \in Nat /\ Inside(line) \subseteq 1 .. Len(line)
    BY DEF Inside
  <2>2. i \in Inside(line) /\ j \in Inside(line) /\ \A k \in Inside(line) : i <= k /\ k <= j
    BY <1>2, <2>1, Extremes
  <2>3. Trim(line) = SubSeq(line, i, j)
    BY <1>2 DEF Trim, Inside
  <2> HIDE DEF i, j
  <2>4. i \in DOMAIN line /\ j \in DOMAIN line /\ line[i] \notin Gap /\ line[j] \notin Gap /\ i <= j
    BY <2>2 DEF Inside
  <2> QED
    BY <2>2, <2>3, <2>4
<1> QED
  BY <1>1, <1>2

LEMMA TrimType ==
  ASSUME NEW C, NEW line \in Seq(C)
  PROVE  Trim(line) \in Seq(C)
<1>1. CASE Trim(line) = <<>>
  BY <1>1
<1>2. ASSUME NEW i \in DOMAIN line, NEW j \in DOMAIN line, Trim(line) = SubSeq(line, i, j)
      PROVE  Trim(line) \in Seq(C)
  BY <1>2
<1> QED
  BY <1>1, <1>2, TrimPart

\* A line without blanks at its ends stays as it is.
LEMMA TrimKeeps ==
  ASSUME NEW C, NEW line \in Seq(C), line # <<>>,
         line[1] \notin Gap, line[Len(line)] \notin Gap
  PROVE  Trim(line) = line
<1>1. Len(line) \in Nat /\ 1 \in Inside(line) /\ Len(line) \in Inside(line)
  BY DEF Inside
<1>2. PICK i, j \in DOMAIN line :
        i <= 1 /\ Len(line) <= j /\ Trim(line) = SubSeq(line, i, j)
  BY <1>1, TrimPart
<1>3. i = 1 /\ j = Len(line)
  BY <1>1, <1>2
<1> QED
  BY <1>2, <1>3

\* The name of a command, with a blank or nothing behind it.
Leads(line, cmd) ==
  line # <<>> /\ line[1] = cmd /\ (Len(line) >= 2 => line[2] \in Gap)

LEMMA TrimLeads ==
  ASSUME NEW C, NEW line \in Seq(C), NEW cmd, cmd \notin Gap, Leads(line, cmd)
  PROVE  Leads(Trim(line), cmd)
<1>1. Len(line) \in Nat /\ 1 \in Inside(line)
  BY DEF Inside, Leads
<1>2. PICK i, j \in DOMAIN line : i <= 1 /\ i <= j /\ Trim(line) = SubSeq(line, i, j)
  BY <1>1, TrimPart
<1>3. i = 1 /\ j \in 1 .. Len(line)
  BY <1>1, <1>2
<1>4. Len(Trim(line)) = j /\ \A k \in 1 .. j : Trim(line)[k] = line[k]
  BY <1>1, <1>2, <1>3
<1>5. Trim(line) \in Seq(C)
  BY TrimType
<1> QED
  BY <1>3, <1>4, <1>5 DEF Leads

-----------------------------------------------------------------------------
(* Scanning a line.                                                        *)

\* The tokens are scanned one after the other.
LEMMA ScannedMeans ==
  ASSUME NEW C, NEW line \in Seq(C)
  PROVE  /\ Scanned(line)[0] = Fresh
         /\ \A k \in 1 .. Len(line) : Scanned(line)[k] = Scan(Scanned(line)[k - 1], line[k])
<1> DEFINE n          == Len(line)
           Next1(g, k) == IF k = 0 THEN Fresh ELSE Scan(g[k - 1], line[k])
           Known      == {m \in 0 .. n : \E g : g = [k \in 0 .. m |-> Next1(g, k)]}
<1>1. n \in Nat
  OBVIOUS
<1>2. 0 \in Known
  <2> DEFINE g == [k \in 0 .. 0 |-> Fresh]
  <2>1. g = [k \in 0 .. 0 |-> Next1(g, k)]
    OBVIOUS
  <2>2. \E f : f = [k \in 0 .. 0 |-> Next1(f, k)]
    BY <2>1
  <2> QED
    BY <1>1, <2>2
<1>3. ASSUME NEW m \in 1 .. n, m - 1 \in Known
      PROVE  m \in Known
  <2>1. PICK g : g = [k \in 0 .. m - 1 |-> Next1(g, k)]
    BY <1>3
  <2> DEFINE h == [k \in 0 .. m |-> IF k = m THEN Scan(g[m - 1], line[m]) ELSE g[k]]
  <2>2. \A k \in 0 .. m - 1 : g[k] = Next1(g, k)
    BY <2>1
  <2>3. ASSUME NEW k \in 0 .. m PROVE h[k] = Next1(h, k)
    <3>1. CASE k = m
      <4>1. h[m - 1] = g[m - 1] /\ h[k] = Scan(g[m - 1], line[m])
        BY <3>1
      <4> QED
        BY <3>1, <4>1
    <3>2. CASE k # m /\ k # 0
      <4>1. k \in 0 .. m - 1 /\ k - 1 \in 0 .. m /\ k - 1 # m
        BY <3>2
      <4>2. h[k] = g[k] /\ h[k - 1] = g[k - 1]
        BY <3>2, <4>1
      <4> QED
        BY <2>2, <3>2, <4>1, <4>2
    <3>3. CASE k = 0
      BY <2>2, <3>3
    <3> QED
      BY <3>1, <3>2, <3>3
  <2>4. h = [k \in 0 .. m |-> Next1(h, k)]
    BY <2>3
  <2> HIDE DEF h
  <2> QED
    BY <2>4
<1>4. n \in Known
  <2> HIDE DEF Known, n
  <2>1. 0 .. n \subseteq Known
    BY <1>1, <1>2, <1>3, CountUp
  <2> QED
    BY <1>1, <2>1
<1>5. Scanned(line) = CHOOSE g : g = [k \in 0 .. n |-> Next1(g, k)]
  BY DEF Scanned
<1>6. Scanned(line) = [k \in 0 .. n |-> Next1(Scanned(line), k)]
  BY <1>4, <1>5
<1>7. ASSUME NEW k \in 0 .. n PROVE Scanned(line)[k] = Next1(Scanned(line), k)
  BY <1>6
<1> QED
  BY <1>1, <1>7

\* What is read of a line: words of the line's tokens, none of them empty.
Word1(C) == Seq(C) \ {<<>>}

Readable(C) == [words: Seq(Word1(C)), cur: Seq(C), mark: Mark \cup {NoMark}]

LEMMA ReadableParts ==
  ASSUME NEW C, NEW st, st \in Readable(C)
  PROVE  \E w, u, m :
           /\ st = [words |-> w, cur |-> u, mark |-> m]
           /\ w \in Seq(Word1(C)) /\ u \in Seq(C) /\ m \in Mark \cup {NoMark}
<1>1. st.words \in Seq(Word1(C)) /\ st.cur \in Seq(C) /\ st.mark \in Mark \cup {NoMark}
      /\ st = [words |-> st.words, cur |-> st.cur, mark |-> st.mark]
  BY DEF Readable
<1> QED
  BY <1>1

LEMMA FlushType ==
  ASSUME NEW C, NEW st, st \in Readable(C)
  PROVE  Flush(st) \in Readable(C)
<1>1. PICK w, u, m :
        /\ st = [words |-> w, cur |-> u, mark |-> m]
        /\ w \in Seq(Word1(C)) /\ u \in Seq(C) /\ m \in Mark \cup {NoMark}
  BY ReadableParts
<1>2. CASE u = <<>>
  BY <1>1, <1>2 DEF Flush
<1>3. CASE u # <<>>
  <2>1. Flush(st) = [words |-> Append(w, u), cur |-> <<>>, mark |-> m]
    BY <1>1, <1>3 DEF Flush
  <2>2. u \in Word1(C)
    BY <1>1, <1>3 DEF Word1
  <2>3. Append(w, u) \in Seq(Word1(C))
    BY <1>1, <2>2
  <2>4. <<>> \in Seq(C)
    OBVIOUS
  <2> QED
    <3>1. m \in Mark \cup {NoMark}
      BY <1>1
    <3> QED
      BY <2>1, <2>3, <2>4, <3>1 DEF Readable
<1> QED
  BY <1>2, <1>3

LEMMA ScanType ==
  ASSUME NEW C, NEW st, st \in Readable(C), NEW c \in C, NoMark \notin C
  PROVE  Scan(st, c) \in Readable(C)
<1>1. PICK w, u, m :
        /\ st = [words |-> w, cur |-> u, mark |-> m]
        /\ w \in Seq(Word1(C)) /\ u \in Seq(C) /\ m \in Mark \cup {NoMark}
  BY ReadableParts
<1>2. CASE c = m
  <2>1. Scan(st, c) = [words |-> w, cur |-> u, mark |-> NoMark]
    <3>1. Scan(st, c) = [st EXCEPT !.mark = NoMark]
      BY <1>1, <1>2, PageAssumption DEF Scan, PageAssumption
    <3>2. [[words |-> w, cur |-> u, mark |-> m] EXCEPT !.mark = NoMark]
            = [words |-> w, cur |-> u, mark |-> NoMark]
      OBVIOUS
    <3> QED
      BY <1>1, <3>1, <3>2
  <2> QED
    BY <1>1, <2>1 DEF Readable
<1>3. CASE c # m /\ m = NoMark /\ c \in Mark
  <2>1. Scan(st, c) = [words |-> w, cur |-> u, mark |-> c]
    <3>1. Scan(st, c) = [st EXCEPT !.mark = c]
      BY <1>1, <1>3, PageAssumption DEF Scan, PageAssumption
    <3>2. [[words |-> w, cur |-> u, mark |-> m] EXCEPT !.mark = c]
            = [words |-> w, cur |-> u, mark |-> c]
      OBVIOUS
    <3> QED
      BY <1>1, <3>1, <3>2
  <2> QED
    BY <1>1, <1>3, <2>1 DEF Readable
<1>4. CASE c # m /\ m = NoMark /\ c \notin Mark /\ c \in Gap
  <2>1. Scan(st, c) = Flush(st)
    BY <1>1, <1>4 DEF Scan
  <2> QED
    BY <2>1, FlushType
<1>5. CASE c # m /\ ~(m = NoMark /\ (c \in Mark \/ c \in Gap))
  <2>1. Scan(st, c) = [words |-> w, cur |-> Append(u, c), mark |-> m]
    BY <1>1, <1>5 DEF Scan
  <2>2. Append(u, c) \in Seq(C)
    BY <1>1
  <2> QED
    BY <1>1, <2>1, <2>2 DEF Readable
<1> QED
  BY <1>2, <1>3, <1>4, <1>5

LEMMA ScannedType ==
  ASSUME NEW C, NEW line \in Seq(C), NoMark \notin C
  PROVE  \A k \in 0 .. Len(line) : Scanned(line)[k] \in Readable(C)
<1> DEFINE Good == {k \in 0 .. Len(line) : Scanned(line)[k] \in Readable(C)}
<1>1. Len(line) \in Nat
  OBVIOUS
<1>2. 0 \in Good
  <2>1. Fresh \in Readable(C)
    BY DEF Fresh, Readable
  <2> QED
    BY <1>1, <2>1, ScannedMeans
<1>3. ASSUME NEW k \in 1 .. Len(line), k - 1 \in Good
      PROVE  k \in Good
  <2>1. line[k] \in C /\ Scanned(line)[k] = Scan(Scanned(line)[k - 1], line[k])
    BY ScannedMeans
  <2>2. Scanned(line)[k] \in Readable(C)
    BY <1>3, <2>1, ScanType
  <2> QED
    BY <2>2
<1>4. 0 .. Len(line) \subseteq Good
  <2> HIDE DEF Good
  <2> QED
    BY <1>1, <1>2, <1>3, CountUp
<1> QED
  BY <1>4

\* Whatever the line, its words are made of its tokens and none is empty.
THEOREM SplitType ==
  ASSUME NEW C, NEW line \in Seq(C), NoMark \notin C
  PROVE  Split(line) \in Seq(Seq(C) \ {<<>>})
<1>1. Len(line) \in 0 .. Len(line)
  OBVIOUS
<1>2. Flush(Scanned(line)[Len(line)]) \in Readable(C)
  BY <1>1, ScannedType, FlushType
<1> QED
  BY <1>2 DEF Split, Readable, Word1

\* A command's name followed by a blank is the first word.
LEMMA FirstWord ==
  ASSUME NEW C, NEW line, line \in Seq(C), NoMark \notin C,
         NEW cmd, cmd \notin Gap \cup Mark, Leads(line, cmd)
  PROVE  Split(line) # <<>> /\ Split(line)[1] = <<cmd>>
<1> DEFINE S(k) == Scanned(line)[k]
           Has(st) == st.words # <<>> /\ st.words[1] = <<cmd>>
           Good == {k \in 0 .. Len(line) : \/ k = 0
                                           \/ k = 1 /\ S(k) = [Fresh EXCEPT !.cur = <<cmd>>]
                                           \/ k >= 2 /\ Has(S(k))}
<1>1. Len(line) \in Nat /\ line[1] = cmd /\ Len(line) >= 1 /\ cmd # NoMark
  BY DEF Leads
<1>2. ASSUME NEW st \in Readable(C), Has(st)
      PROVE  Has(Flush(st))
  <2>1. CASE st.cur = <<>>
    BY <1>2, <2>1 DEF Flush
  <2>2. CASE st.cur # <<>>
    <3>1. Flush(st).words = Append(st.words, st.cur)
      BY <2>2 DEF Flush, Readable
    <3>2. st.words \in Seq(Word1(C))
      BY DEF Readable
    <3> QED
      BY <1>2, <3>1, <3>2
  <2> QED
    BY <2>1, <2>2
<1>3. ASSUME NEW st \in Readable(C), NEW c, Has(st)
      PROVE  Has(Scan(st, c))
  <2>1. CASE Scan(st, c) = Flush(st)
    BY <1>2, <1>3, <2>1
  <2>2. CASE Scan(st, c).words = st.words
    BY <1>3, <2>2
  <2> QED
    BY <2>1, <2>2 DEF Scan, Readable
<1>4. ASSUME NEW k \in 1 .. Len(line), k - 1 \in Good
      PROVE  k \in Good
  <2>1. S(k) = Scan(S(k - 1), line[k]) /\ S(k - 1) \in Readable(C)
    BY ScannedMeans, ScannedType
  <2>2. CASE k = 1
    <3>1. S(0) = Fresh
      BY ScannedMeans
    <3>2. Scan(Fresh, cmd) = [Fresh EXCEPT !.cur = <<cmd>>]
      <4>1. cmd # Fresh.mark /\ cmd \notin Mark /\ cmd \notin Gap
        BY <1>1 DEF Fresh
      <4>2. Scan(Fresh, cmd) = [Fresh EXCEPT !.cur = Append(@, cmd)]
        BY <4>1 DEF Scan
      <4>3. Append(<<>>, cmd) = <<cmd>>
        OBVIOUS
      <4> QED
        BY <4>2, <4>3 DEF Fresh
    <3> QED
      BY <1>1, <2>1, <2>2, <3>1, <3>2
  <2>3. CASE k = 2
    <3>1. S(1) = [Fresh EXCEPT !.cur = <<cmd>>] /\ line[2] \in Gap
      BY <1>1, <1>4, <2>3 DEF Leads
    <3>2. Scan(S(1), line[2]) = Flush(S(1))
      BY <3>1, PageAssumption DEF PageAssumption, Scan, Fresh
    <3>3. Flush(S(1)).words = Append(<<>>, <<cmd>>)
      BY <3>1 DEF Flush, Fresh
    <3> QED
      BY <2>1, <2>3, <3>2, <3>3
  <2>4. CASE k > 2
    <3>1. Has(S(k - 1))
      BY <1>4, <2>4
    <3>2. Has(S(k))
      BY <1>3, <2>1, <3>1
    <3> QED
      BY <2>4, <3>2
  <2> QED
    BY <2>2, <2>3, <2>4
<1>5. PICK n \in Nat : n = Len(line)
  BY <1>1
<1>6. n = 1 \/ n >= 2
  BY <1>1, <1>5
<1>7. n \in Good
  <2>1. 0 \in Good
    BY <1>1
  <2> HIDE DEF Good
  <2>2. 0 .. Len(line) \subseteq Good
    BY <1>1, <1>4, <2>1, CountUp
  <2> QED
    BY <1>5, <2>2
<1>8. CASE n = 1
  <2>1. S(n) = [Fresh EXCEPT !.cur = <<cmd>>]
    BY <1>7, <1>8
  <2>2. Flush(S(n)).words = Append(<<>>, <<cmd>>)
    BY <2>1 DEF Flush, Fresh
  <2> QED
    BY <1>5, <2>2 DEF Split
<1>9. CASE n >= 2
  <2>1. S(n) \in Readable(C)
    BY <1>5, ScannedType
  <2>2. n # 0 /\ n # 1
    BY <1>9
  <2>3. Has(S(n))
    BY <1>7, <2>2
  <2>4. Has(Flush(S(n)))
    BY <1>2, <2>1, <2>3
  <2> QED
    BY <1>5, <2>4 DEF Split
<1> QED
  BY <1>6, <1>8, <1>9

-----------------------------------------------------------------------------
(* The line of the editor.                                                 *)

LEMMA PrefixGrows ==
  ASSUME NEW C, NEW part \in Seq(C)
  PROVE  /\ SubSeq(part, 1, 0) = <<>>
         /\ SubSeq(part, 1, Len(part)) = part
         /\ \A j \in 1 .. Len(part) :
              Append(SubSeq(part, 1, j - 1), part[j]) = SubSeq(part, 1, j)
<1>1. ASSUME NEW j \in 1 .. Len(part)
      PROVE  Append(SubSeq(part, 1, j - 1), part[j]) = SubSeq(part, 1, j)
  <2>1. Len(SubSeq(part, 1, j - 1)) = j - 1 /\ Len(SubSeq(part, 1, j)) = j
    OBVIOUS
  <2>2. \A i \in 1 .. j - 1 : SubSeq(part, 1, j - 1)[i] = part[i]
    OBVIOUS
  <2>3. \A i \in 1 .. j : SubSeq(part, 1, j)[i] = part[i]
    OBVIOUS
  <2>4. SubSeq(part, 1, j) \in Seq(C) /\ Append(SubSeq(part, 1, j - 1), part[j]) \in Seq(C)
    OBVIOUS
  <2> QED
    BY <2>1, <2>2, <2>3, <2>4
<1> QED
  BY <1>1

\* One token that stands for itself.
LEMMA ScanPlain ==
  ASSUME NEW w, NEW u, NEW m, NEW c, c # m, m = NoMark => c \notin Gap \cup Mark
  PROVE  Scan([words |-> w, cur |-> u, mark |-> m], c)
           = [words |-> w, cur |-> Append(u, c), mark |-> m]
<1> DEFINE st == [words |-> w, cur |-> u, mark |-> m]
<1>1. c # st.mark /\ ~(st.mark = NoMark /\ (c \in Mark \/ c \in Gap)) /\ st.cur = u
  OBVIOUS
<1>2. [st EXCEPT !.cur = Append(u, c)] = [words |-> w, cur |-> Append(u, c), mark |-> m]
  OBVIOUS
<1> HIDE DEF st
<1>3. Scan(st, c) = [st EXCEPT !.cur = Append(st.cur, c)]
  BY <1>1 DEF Scan
<1>4. Scan(st, c) = [words |-> w, cur |-> Append(u, c), mark |-> m]
  BY <1>1, <1>2, <1>3
<1> QED
  BY <1>4 DEF st

\* The part of the line behind a place, and a part that stands for itself.
Behind(line, at, part) == \A j \in 1 .. Len(part) : line[at + j] = part[j]
Itself(part, m) ==
  \A j \in 1 .. Len(part) : part[j] # m /\ (m = NoMark => part[j] \notin Gap \cup Mark)

\* Tokens that neither end a word nor open or close a quotation are kept.
LEMMA PartKept ==
  ASSUME NEW C, NEW line, line \in Seq(C), NEW at, at \in Nat, NEW part, part \in Seq(C),
         at + Len(part) <= Len(line), Behind(line, at, part),
         NEW w, NEW m, Scanned(line)[at] = [words |-> w, cur |-> <<>>, mark |-> m],
         Itself(part, m)
  PROVE  Scanned(line)[at + Len(part)] = [words |-> w, cur |-> part, mark |-> m]
<1> DEFINE At(j) == [words |-> w, cur |-> SubSeq(part, 1, j), mark |-> m]
           Good  == {j \in 0 .. Len(part) : Scanned(line)[at + j] = At(j)}
<1>1. Len(part) \in Nat /\ Len(line) \in Nat
  OBVIOUS
<1>2. 0 \in Good
  <2>1. at + 0 = at
    OBVIOUS
  <2> QED
    BY <1>1, <2>1, PrefixGrows
<1>3. ASSUME NEW j \in 1 .. Len(part), j - 1 \in Good
      PROVE  j \in Good
  <2>1. at + j \in 1 .. Len(line) /\ at + j - 1 = at + (j - 1)
    BY <1>1
  <2>2. Scanned(line)[at + j] = Scan(Scanned(line)[at + (j - 1)], line[at + j])
    BY <2>1, ScannedMeans
  <2>3. Scanned(line)[at + j] = Scan(At(j - 1), part[j])
    BY <1>3, <2>2 DEF Behind
  <2>4. Scan(At(j - 1), part[j])
          = [words |-> w, cur |-> Append(SubSeq(part, 1, j - 1), part[j]), mark |-> m]
    <3>1. part[j] # m /\ (m = NoMark => part[j] \notin Gap \cup Mark)
      BY DEF Itself
    <3> QED
      BY ONLY <3>1, ScanPlain
  <2>5. Append(SubSeq(part, 1, j - 1), part[j]) = SubSeq(part, 1, j)
    BY PrefixGrows
  <2>6. Scanned(line)[at + j] = At(j)
    BY ONLY <2>3, <2>4, <2>5
  <2> QED
    BY <2>6
<1>4. Len(part) \in Good
  <2> HIDE DEF Good
  <2>1. 0 .. Len(part) \subseteq Good
    BY <1>1, <1>2, <1>3, CountUp
  <2> QED
    BY <1>1, <2>1
<1> QED
  BY <1>4, PrefixGrows

\* One token at a time.
LEMMA ScanQuote ==
  ASSUME NEW w, NEW u
  PROVE  /\ Scan([words |-> w, cur |-> u, mark |-> NoMark], Quotes)
              = [words |-> w, cur |-> u, mark |-> Quotes]
         /\ Scan([words |-> w, cur |-> u, mark |-> Quotes], Quotes)
              = [words |-> w, cur |-> u, mark |-> NoMark]
<1>1. Quotes \in Mark /\ Quotes # NoMark /\ Quotes \notin Gap
  BY PageAssumption DEF PageAssumption
<1>2. Scan([words |-> w, cur |-> u, mark |-> NoMark], Quotes)
        = [[words |-> w, cur |-> u, mark |-> NoMark] EXCEPT !.mark = Quotes]
  BY <1>1 DEF Scan
<1>3. Scan([words |-> w, cur |-> u, mark |-> Quotes], Quotes)
        = [[words |-> w, cur |-> u, mark |-> Quotes] EXCEPT !.mark = NoMark]
  BY <1>1 DEF Scan
<1> QED
  BY <1>2, <1>3

LEMMA ScanSpace ==
  ASSUME NEW w, NEW u, u # <<>>, Space # NoMark
  PROVE  Scan([words |-> w, cur |-> u, mark |-> NoMark], Space)
           = [words |-> Append(w, u), cur |-> <<>>, mark |-> NoMark]
<1> DEFINE st == [words |-> w, cur |-> u, mark |-> NoMark]
<1>1. Space \in Gap /\ Space \notin Mark
  BY PageAssumption DEF PageAssumption
<1>2. Scan(st, Space) = Flush(st)
  BY <1>1 DEF Scan
<1>3. Flush(st) = [words |-> Append(w, u), cur |-> <<>>, mark |-> NoMark]
  BY DEF Flush
<1> QED
  BY <1>2, <1>3

LEMMA SameSequence ==
  ASSUME NEW C, NEW s, s \in Seq(C), NEW u, u \in Seq(C), Len(s) = Len(u),
         \A k \in 1 .. Len(s) : s[k] = u[k]
  PROVE  s = u
OBVIOUS

LEMMA Tuples ==
  ASSUME NEW x, NEW y, NEW z
  PROVE  /\ Append(<<>>, x) = <<x>>
         /\ Append(<<x>>, y) = <<x, y>>
         /\ Append(<<x, y>>, z) = <<x, y, z>>
<1> DEFINE C == {x, y, z}
<1>1. Append(<<>>, x) = <<x>>
  OBVIOUS
<1>2. Append(<<x>>, y) = <<x, y>>
  <2>1. <<x>> \in Seq(C) /\ <<x, y>> \in Seq(C) /\ Len(<<x>>) = 1 /\ Len(<<x, y>>) = 2
        /\ <<x>>[1] = x /\ <<x, y>>[1] = x /\ <<x, y>>[2] = y
    OBVIOUS
  <2>2. y \in C
    OBVIOUS
  <2> HIDE DEF C
  <2>3. /\ Append(<<x>>, y) \in Seq(C) /\ Len(Append(<<x>>, y)) = 2
        /\ Append(<<x>>, y)[1] = x /\ Append(<<x>>, y)[2] = y
    BY <2>1, <2>2
  <2>4. \A k \in 1 .. 2 : Append(<<x>>, y)[k] = <<x, y>>[k]
    BY <2>1, <2>3
  <2> QED
    BY <2>1, <2>3, <2>4, SameSequence
<1>3. Append(<<x, y>>, z) = <<x, y, z>>
  <2>1. <<x, y>> \in Seq(C) /\ <<x, y, z>> \in Seq(C) /\ Len(<<x, y>>) = 2
        /\ Len(<<x, y, z>>) = 3 /\ <<x, y>>[1] = x /\ <<x, y>>[2] = y
        /\ <<x, y, z>>[1] = x /\ <<x, y, z>>[2] = y /\ <<x, y, z>>[3] = z
    OBVIOUS
  <2>2. z \in C
    OBVIOUS
  <2> HIDE DEF C
  <2>3. /\ Append(<<x, y>>, z) \in Seq(C) /\ Len(Append(<<x, y>>, z)) = 3
        /\ Append(<<x, y>>, z)[1] = x /\ Append(<<x, y>>, z)[2] = y
        /\ Append(<<x, y>>, z)[3] = z
    BY <2>1, <2>2
  <2>4. \A k \in 1 .. 3 : Append(<<x, y>>, z)[k] = <<x, y, z>>[k]
    BY <2>1, <2>3
  <2> QED
    BY <2>1, <2>3, <2>4, SameSequence
<1> QED
  BY <1>1, <1>2, <1>3

\* R holds what is known after each of the first n tokens.
Follows(R, line, n) == \A k \in 1 .. n : R[k] = Scan(R[k - 1], line[k])

LEMMA InTurn ==
  ASSUME NEW R, NEW line, NEW n, Follows(R, line, n),
         NEW k, k \in 1 .. n, NEW p, p = k - 1, NEW c, line[k] = c
  PROVE  R[k] = Scan(R[p], c)
BY DEF Follows

LEMMA JoinedParts ==
  ASSUME NEW C, NEW s, s \in Seq(C), NEW t, t \in Seq(C),
         NEW m, m = Len(s), NEW n, n = Len(t)
  PROVE  /\ m \in Nat /\ n \in Nat
         /\ s \o t \in Seq(C) /\ Len(s \o t) = m + n
         /\ \A k \in 1 .. m : (s \o t)[k] = s[k]
         /\ \A k \in 1 .. n : (s \o t)[m + k] = t[k]
OBVIOUS

\* Where the parts of the editor's line are.
Written(cmd, name, text) ==
  Words(cmd, name) \o <<Space, Quotes>> \o text \o <<Quotes>>

Laid(line, cmd, name, text, a, b) ==
  /\ line \in Seq(Char) /\ Len(line) = a + b + 5 /\ a \in Nat /\ b \in Nat
  /\ line[1] = cmd /\ line[2] = Space
  /\ Behind(line, 2, name)
  /\ line[a + 3] = Space /\ line[a + 4] = Quotes
  /\ Behind(line, a + 4, text)
  /\ line[a + b + 5] = Quotes

LEMMA WrittenParts ==
  ASSUME NEW cmd, cmd \in Char, NEW name, name \in Seq(Char), NEW text, text \in Seq(Char)
  PROVE  Laid(Written(cmd, name, text), cmd, name, text, Len(name), Len(text))
<1>0. PICK a, b, line : a = Len(name) /\ b = Len(text) /\ line = Written(cmd, name, text)
  OBVIOUS
<1> DEFINE front == Words(cmd, name)
           half  == front \o <<Space, Quotes>>
           most  == half \o text
<1>1. Space \in Char /\ Quotes \in Char
  BY LineAssumption DEF LineAssumption
<1>2. a \in Nat /\ b \in Nat /\ a = Len(name) /\ b = Len(text)
  BY <1>0
<1>3. /\ front \in Seq(Char) /\ Len(front) = a + 2
      /\ front[1] = cmd /\ front[2] = Space /\ \A j \in 1 .. a : front[2 + j] = name[j]
  <2>1. <<cmd, Space>> \in Seq(Char) /\ Len(<<cmd, Space>>) = 2
    BY <1>1
  <2> QED
    BY <1>2, <2>1 DEF Words
<1> HIDE DEF front
<1>4. /\ half \in Seq(Char) /\ Len(half) = a + 4
      /\ \A k \in 1 .. a + 2 : half[k] = front[k]
      /\ half[a + 3] = Space /\ half[a + 4] = Quotes
  <2>1. <<Space, Quotes>> \in Seq(Char) /\ Len(<<Space, Quotes>>) = 2
    BY <1>1
  <2> QED
    BY <1>2, <1>3, <2>1
<1> HIDE DEF half
<1>5. /\ most \in Seq(Char) /\ Len(most) = a + b + 4
      /\ \A k \in 1 .. a + 4 : most[k] = half[k]
      /\ \A j \in 1 .. b : most[a + 4 + j] = text[j]
  <2>1. /\ half \o text \in Seq(Char) /\ Len(half \o text) = a + 4 + b
        /\ \A k \in 1 .. a + 4 : (half \o text)[k] = half[k]
        /\ \A j \in 1 .. b : (half \o text)[a + 4 + j] = text[j]
    <3>1. /\ half \in Seq(Char) /\ a + 4 = Len(half)
          /\ text \in Seq(Char) /\ b = Len(text)
      BY <1>2, <1>4
    <3> QED
      BY ONLY <3>1, JoinedParts
  <2>2. a + 4 + b = a + b + 4
    BY <1>2
  <2> QED
    BY <2>1, <2>2
<1> HIDE DEF most
<1>6. line = most \o <<Quotes>>
  BY <1>0 DEF Written, most, half, front
<1>7. /\ line \in Seq(Char) /\ Len(line) = a + b + 5
      /\ \A k \in 1 .. a + b + 4 : line[k] = most[k]
      /\ line[a + b + 5] = Quotes
  <2>1. <<Quotes>> \in Seq(Char) /\ Len(<<Quotes>>) = 1 /\ <<Quotes>>[1] = Quotes
    BY <1>1
  <2>2. /\ most \o <<Quotes>> \in Seq(Char) /\ Len(most \o <<Quotes>>) = a + b + 4 + 1
        /\ \A k \in 1 .. a + b + 4 : (most \o <<Quotes>>)[k] = most[k]
        /\ \A k \in 1 .. 1 : (most \o <<Quotes>>)[a + b + 4 + k] = <<Quotes>>[k]
    BY <1>5, <2>1, JoinedParts
  <2>3. a + b + 4 + 1 = a + b + 5
    BY <1>2
  <2>4. (most \o <<Quotes>>)[a + b + 5] = Quotes
    BY <2>1, <2>2, <2>3
  <2> QED
    BY <1>6, <2>2, <2>3, <2>4
<1>8. \A k \in 1 .. a + 2 : line[k] = front[k]
  BY <1>2, <1>4, <1>5, <1>7
<1>9. \A k \in 1 .. a + 4 : line[k] = half[k]
  BY <1>2, <1>5, <1>7
<1>10. \A j \in 1 .. a : line[2 + j] = name[j]
  <2>1. ASSUME NEW j \in 1 .. a PROVE line[2 + j] = name[j]
    <3>1. 2 + j \in 1 .. a + 2
      BY <1>2
    <3> QED
      BY <1>3, <1>8, <3>1
  <2> QED
    BY <2>1
<1>11. \A j \in 1 .. b : line[a + 4 + j] = text[j]
  <2>1. ASSUME NEW j \in 1 .. b PROVE line[a + 4 + j] = text[j]
    <3>1. a + 4 + j \in 1 .. a + b + 4
      BY <1>2
    <3> QED
      BY <1>5, <1>7, <3>1
  <2> QED
    BY <2>1
<1>12. line[1] = cmd /\ line[2] = Space
  BY <1>2, <1>3, <1>8
<1>13. line[a + 3] = Space /\ line[a + 4] = Quotes
  BY <1>2, <1>4, <1>9
<1> QED
  <2>1. Behind(line, 2, name) /\ Behind(line, a + 4, text)
    BY <1>2, <1>10, <1>11 DEF Behind
  <2>2. Laid(line, cmd, name, text, a, b)
    BY <1>2, <1>7, <1>12, <1>13, <2>1 DEF Laid
  <2> QED
    BY <1>0, <2>2

\* The line of the editor is read as the command, the name and the text: the
\* quotes keep the blanks of the text, and other quotes in it.
THEOREM WrittenWords ==
  ASSUME NEW cmd, cmd \in CmdWord,
         NEW name, name \in Seq(Char), name # <<>>, PlainName(name),
         NEW text, text \in Seq(Char), PlainText(text)
  PROVE  Split(Trim(Written(cmd, name, text))) = <<<<cmd>>, name, text>>
<1> DEFINE line == Written(cmd, name, text)
           a    == Len(name)
           b    == Len(text)
           R    == Scanned(line)
<1>1. cmd \in Char /\ cmd \notin Gap \cup Mark /\ cmd # NoMark
  BY LineAssumption, PageAssumption DEF LineAssumption, PageAssumption
<1>2. Space \in Gap /\ Space # NoMark /\ NoMark \notin Char /\ Quotes \in Mark /\ Quotes # NoMark
      /\ Quotes \notin Gap
  BY LineAssumption, PageAssumption DEF LineAssumption, PageAssumption
<1>3. a \in Nat /\ b \in Nat
  OBVIOUS
<1>4. /\ line \in Seq(Char) /\ Len(line) = a + b + 5 /\ a \in Nat /\ b \in Nat
      /\ line[1] = cmd /\ line[2] = Space
      /\ Behind(line, 2, name)
      /\ line[a + 3] = Space /\ line[a + 4] = Quotes
      /\ Behind(line, a + 4, text)
      /\ line[a + b + 5] = Quotes
  <2>1. Laid(line, cmd, name, text, a, b)
    BY <1>1, WrittenParts
  <2> HIDE DEF line, a, b
  <2> QED
    BY <2>1 DEF Laid
<1> HIDE DEF line, a, b
<1>14. Trim(line) = line
  <2>1. line # <<>> /\ line[1] \notin Gap /\ line[Len(line)] \notin Gap
    BY <1>1, <1>2, <1>3, <1>4
  <2> QED
    BY <1>4, <2>1, TrimKeeps
<1>5. R[0] = Fresh /\ Follows(R, line, a + b + 5)
  BY <1>4, ScannedMeans DEF Follows
<1> HIDE DEF R
<1>6. R[1] = [words |-> <<>>, cur |-> <<cmd>>, mark |-> NoMark]
  <2>1. R[0] = [words |-> <<>>, cur |-> <<>>, mark |-> NoMark]
    BY <1>5 DEF Fresh
  <2>2. R[1] = Scan(R[0], cmd)
    <3>1. PICK k, p : k = 1 /\ p = 0
      OBVIOUS
    <3>2. Follows(R, line, a + b + 5) /\ k \in 1 .. a + b + 5 /\ p = k - 1 /\ line[k] = cmd
      BY <1>3, <1>4, <1>5, <3>1
    <3>3. R[k] = Scan(R[p], cmd)
      BY ONLY <3>2, InTurn
    <3> QED
      BY <3>1, <3>3
  <2>3. Scan([words |-> <<>>, cur |-> <<>>, mark |-> NoMark], cmd)
          = [words |-> <<>>, cur |-> Append(<<>>, cmd), mark |-> NoMark]
    BY <1>1, ScanPlain
  <2>4. Append(<<>>, cmd) = <<cmd>>
    OBVIOUS
  <2> QED
    BY <2>1, <2>2, <2>3, <2>4
<1>7. R[2] = [words |-> <<<<cmd>>>>, cur |-> <<>>, mark |-> NoMark]
  <2>1. R[2] = Scan(R[1], Space)
    <3>1. 2 \in 1 .. a + b + 5 /\ 2 - 1 = 1
      BY <1>3
    <3> QED
      BY <1>4, <1>5, <3>1, InTurn
  <2>2. Append(<<>>, <<cmd>>) = <<<<cmd>>>> /\ <<cmd>> # <<>>
    OBVIOUS
  <2> QED
    BY <1>2, <1>6, <2>1, <2>2, ScanSpace
<1>8. R[2 + a] = [words |-> <<<<cmd>>>>, cur |-> name, mark |-> NoMark]
  <2>1. \A j \in 1 .. a : name[j] \in Char /\ name[j] \notin Gap \cup Mark
    BY DEF PlainName, a
  <2>2. Itself(name, NoMark)
    BY <1>2, <2>1 DEF Itself, a
  <2>3. 2 + a <= Len(line)
    BY <1>3, <1>4
  <2>4. R[2 + Len(name)] = [words |-> <<<<cmd>>>>, cur |-> name, mark |-> NoMark]
    <3>1. PICK at : at = 2
      OBVIOUS
    <3>2. /\ line \in Seq(Char) /\ at \in Nat /\ name \in Seq(Char)
          /\ at + Len(name) <= Len(line)
          /\ Behind(line, at, name) /\ Itself(name, NoMark)
          /\ Scanned(line)[at] = [words |-> <<<<cmd>>>>, cur |-> <<>>, mark |-> NoMark]
      BY <1>4, <1>7, <2>2, <2>3, <3>1 DEF a, R
    <3>3. R[at + Len(name)] = [words |-> <<<<cmd>>>>, cur |-> name, mark |-> NoMark]
      BY ONLY <3>2, PartKept DEF R
    <3> QED
      BY <3>1, <3>3
  <2> QED
    BY <2>4 DEF a
<1>9. R[a + 3] = [words |-> <<<<cmd>>, name>>, cur |-> <<>>, mark |-> NoMark]
  <2>1. R[a + 3] = Scan(R[2 + a], Space)
    <3>1. a + 3 \in 1 .. a + b + 5 /\ a + 3 - 1 = 2 + a
      BY <1>3
    <3> QED
      BY <1>4, <1>5, <3>1, InTurn
  <2>2. Append(<<<<cmd>>>>, name) = <<<<cmd>>, name>>
    BY Tuples
  <2> QED
    BY <1>2, <1>8, <2>1, <2>2, ScanSpace
<1>10. R[a + 4] = [words |-> <<<<cmd>>, name>>, cur |-> <<>>, mark |-> Quotes]
  <2>1. R[a + 4] = Scan(R[a + 3], Quotes)
    <3>1. PICK k, p : k = a + 4 /\ p = a + 3
      OBVIOUS
    <3>2. Follows(R, line, a + b + 5) /\ k \in 1 .. a + b + 5 /\ p = k - 1 /\ line[k] = Quotes
      BY <1>3, <1>4, <1>5, <3>1
    <3>3. R[k] = Scan(R[p], Quotes)
      BY ONLY <3>2, InTurn
    <3> QED
      BY <3>1, <3>3
  <2> QED
    BY <1>9, <2>1, ScanQuote
<1>11. R[a + 4 + b] = [words |-> <<<<cmd>>, name>>, cur |-> text, mark |-> Quotes]
  <2>1. \A j \in 1 .. b : text[j] # Quotes
    BY DEF PlainText, b
  <2>2. Itself(text, Quotes)
    BY <1>2, <2>1 DEF Itself, b
  <2>3. a + 4 \in Nat /\ a + 4 + b <= Len(line)
    BY <1>3, <1>4
  <2>4. R[a + 4 + Len(text)] = [words |-> <<<<cmd>>, name>>, cur |-> text, mark |-> Quotes]
    <3>1. /\ line \in Seq(Char) /\ a + 4 \in Nat /\ text \in Seq(Char)
          /\ a + 4 + Len(text) <= Len(line)
          /\ Behind(line, a + 4, text) /\ Itself(text, Quotes)
          /\ Scanned(line)[a + 4] = [words |-> <<<<cmd>>, name>>, cur |-> <<>>, mark |-> Quotes]
      BY <1>4, <1>10, <2>2, <2>3 DEF b, R
    <3> QED
      BY ONLY <3>1, PartKept DEF R
  <2> QED
    BY <2>4 DEF b
<1>12. R[a + b + 5] = [words |-> <<<<cmd>>, name>>, cur |-> text, mark |-> NoMark]
  <2>1. R[a + b + 5] = Scan(R[a + 4 + b], Quotes)
    <3>1. PICK k, p : k = a + b + 5 /\ p = a + 4 + b
      OBVIOUS
    <3>2. Follows(R, line, a + b + 5) /\ k \in 1 .. a + b + 5 /\ p = k - 1 /\ line[k] = Quotes
      BY <1>3, <1>4, <1>5, <3>1
    <3>3. R[k] = Scan(R[p], Quotes)
      BY ONLY <3>2, InTurn
    <3> QED
      BY <3>1, <3>3
  <2> QED
    BY <1>11, <2>1, ScanQuote
<1>13. Split(line) = Append(<<<<cmd>>, name>>, text)
  <2>1. Split(line) = Flush(R[a + b + 5]).words
    BY <1>4 DEF Split, R
  <2>2. Flush([words |-> <<<<cmd>>, name>>, cur |-> text, mark |-> NoMark]).words
          = Append(<<<<cmd>>, name>>, text)
    BY DEF Flush, PlainText
  <2> QED
    BY <1>12, <2>1, <2>2
<1> QED
  <2>1. Append(<<<<cmd>>, name>>, text) = <<<<cmd>>, name, text>>
    BY Tuples
  <2> QED
    BY <1>13, <1>14, <2>1 DEF line


-----------------------------------------------------------------------------
(* The text of write and append.                                           *)

\* One more word behind what is joined.
Joined(text, word, gap) == IF text = <<>> THEN word ELSE text \o <<gap>> \o word

JoinRule(g, words, gap, s) ==
  IF s = {} THEN <<>> ELSE Joined(g[s \ {Max(s)}], words[Max(s)], gap)

\* g holds the words of every set of positions joined.
JoinedBy(g, words, gap, n) == \A s \in SUBSET (1 .. n) : g[s] = JoinRule(g, words, gap, s)

LEMMA JoinDefined ==
  ASSUME NEW words, NEW gap
  PROVE  Join(words, gap) =
           (CHOOSE g : g = [s \in SUBSET DOMAIN words |-> JoinRule(g, words, gap, s)])
             [DOMAIN words]
BY DEF Join, FoldLeft, MapThenFoldSet, JoinRule, Joined

\* Words are joined from the last one back to the first.
LEMMA JoinMeans ==
  ASSUME NEW n, n \in Nat, NEW words, DOMAIN words = 1 .. n, NEW gap
  PROVE  \E g : Join(words, gap) = g[1 .. n] /\ JoinedBy(g, words, gap, n)
<1> DEFINE Rule(g, s) == JoinRule(g, words, gap, s)
           Known      == {m \in 0 .. n : \E g : g = [s \in SUBSET (1 .. m) |-> Rule(g, s)]}
<1>1. 0 \in Known
  <2> DEFINE g == [s \in SUBSET (1 .. 0) |-> <<>>]
  <2>1. \A s \in SUBSET (1 .. 0) : s = {}
    OBVIOUS
  <2>2. \A s \in SUBSET (1 .. 0) : Rule(g, s) = <<>>
    BY <2>1 DEF JoinRule
  <2>3. g = [s \in SUBSET (1 .. 0) |-> Rule(g, s)]
    BY <2>2
  <2> HIDE DEF g, Rule
  <2> QED
    BY <2>3
<1>2. ASSUME NEW m, m \in 1 .. n, m - 1 \in Known
      PROVE  m \in Known
  <2>1. PICK g : g = [s \in SUBSET (1 .. m - 1) |-> Rule(g, s)]
    BY <1>2
  <2> DEFINE h == [s \in SUBSET (1 .. m) |->
                     IF m \in s THEN Joined(g[s \ {m}], words[m], gap) ELSE g[s]]
  <2>2. \A s \in SUBSET (1 .. m - 1) : g[s] = Rule(g, s)
    <3> HIDE DEF Rule
    <3> QED
      BY <2>1
  <2>3. ASSUME NEW s, s \in SUBSET (1 .. m) PROVE h[s] = Rule(h, s)
    <3>1. CASE m \in s
      <4>1. m \in Nat /\ s \subseteq 1 .. m /\ s # {}
        BY <1>2, <2>3, <3>1
      <4>2. Max(s) \in s /\ \A k \in s : k <= Max(s)
        BY <4>1, Extremes
      <4>3. Max(s) = m
        <5>1. PICK x : x = Max(s)
          OBVIOUS
        <5>2. x \in 1 .. m /\ m <= x
          BY <3>1, <4>1, <4>2, <5>1
        <5> QED
          BY <4>1, <5>1, <5>2
      <4>4. s \ {m} \in SUBSET (1 .. m) /\ m \notin s \ {m}
        BY <2>3
      <4>5. h[s \ {m}] = g[s \ {m}] /\ h[s] = Joined(g[s \ {m}], words[m], gap)
        BY <2>3, <3>1, <4>4
      <4> HIDE DEF h
      <4> QED
        BY <4>1, <4>3, <4>5 DEF JoinRule
    <3>2. CASE m \notin s
      <4>1. s \in SUBSET (1 .. m - 1)
        BY <1>2, <2>3, <3>2
      <4>2. h[s] = g[s] /\ g[s] = Rule(g, s)
        BY <2>2, <2>3, <3>2, <4>1
      <4>3. s \ {Max(s)} \in SUBSET (1 .. m) /\ m \notin s \ {Max(s)}
        BY <2>3, <3>2
      <4>4. h[s \ {Max(s)}] = g[s \ {Max(s)}]
        BY <4>3
      <4> HIDE DEF h
      <4> QED
        BY <4>2, <4>4 DEF JoinRule
    <3> QED
      BY <3>1, <3>2
  <2>4. h = [s \in SUBSET (1 .. m) |-> Rule(h, s)]
    <3>1. \A s \in SUBSET (1 .. m) : h[s] = Rule(h, s)
      BY <2>3
    <3>2. h = [s \in SUBSET (1 .. m) |-> h[s]]
      OBVIOUS
    <3> HIDE DEF h, Rule
    <3> QED
      BY <3>1, <3>2
  <2> HIDE DEF h, Rule
  <2>5. m \in 0 .. n
    BY <1>2
  <2> QED
    BY <2>4, <2>5
<1>3. n \in Known
  <2> HIDE DEF Known
  <2>1. 0 .. n \subseteq Known
    BY <1>1, <1>2, CountUp
  <2> QED
    BY <2>1
<1> DEFINE j == CHOOSE g : g = [s \in SUBSET (1 .. n) |-> Rule(g, s)]
<1>4. j = [s \in SUBSET (1 .. n) |-> Rule(j, s)]
  <2> HIDE DEF Rule
  <2> QED
    BY <1>3
<1>5. Join(words, gap) = j[1 .. n]
  BY JoinDefined
<1> HIDE DEF j
<1>6. \A s \in SUBSET (1 .. n) : j[s] = JoinRule(j, words, gap, s)
  <2>1. \A s \in SUBSET (1 .. n) : j[s] = Rule(j, s)
    <3> HIDE DEF Rule
    <3> QED
      BY <1>4
  <2> QED
    BY <2>1
<1> QED
  BY <1>5, <1>6 DEF JoinedBy

LEMMA LastOfAll ==
  ASSUME NEW m, m \in Nat, m # 0
  PROVE  (1 .. m) # {} /\ Max(1 .. m) = m /\ (1 .. m) \ {m} = 1 .. m - 1
<1>1. (1 .. m) \subseteq 1 .. m /\ m \in 1 .. m
  OBVIOUS
<1>2. Max(1 .. m) \in 1 .. m /\ \A k \in 1 .. m : k <= Max(1 .. m)
  BY <1>1, Extremes
<1> QED
  BY <1>1, <1>2

LEMMA JoinType ==
  ASSUME NEW words, words \in Seq(Seq(Char))
  PROVE  Join(words, Space) \in Seq(Char)
<1>1. PICK n : n = Len(words)
  OBVIOUS
<1>2. n \in Nat /\ DOMAIN words = 1 .. n /\ \A k \in 1 .. n : words[k] \in Seq(Char)
  BY <1>1
<1>3. PICK g : Join(words, Space) = g[1 .. n] /\ JoinedBy(g, words, Space, n)
  BY <1>2, JoinMeans
<1> DEFINE Good == {m \in 0 .. n : g[1 .. m] \in Seq(Char)}
<1>4. 0 \in Good
  <2>1. (1 .. 0) \in SUBSET (1 .. n) /\ (1 .. 0) = {} /\ <<>> \in Seq(Char)
    OBVIOUS
  <2>2. g[1 .. 0] = <<>>
    BY <1>3, <2>1 DEF JoinRule, JoinedBy
  <2>3. 0 \in 0 .. n /\ g[1 .. 0] \in Seq(Char)
    BY <1>2, <2>1, <2>2
  <2> QED
    BY <2>3
<1>5. ASSUME NEW m, m \in 1 .. n, m - 1 \in Good
      PROVE  m \in Good
  <2>1. (1 .. m) \in SUBSET (1 .. n) /\ m \in Nat /\ m # 0
    BY <1>2, <1>5
  <2>2. (1 .. m) # {} /\ Max(1 .. m) = m /\ (1 .. m) \ {m} = 1 .. m - 1
    BY <2>1, LastOfAll
  <2>3. g[1 .. m] = Joined(g[1 .. m - 1], words[m], Space)
    BY <1>3, <2>1, <2>2 DEF JoinRule, JoinedBy
  <2>4. g[1 .. m - 1] \in Seq(Char) /\ words[m] \in Seq(Char) /\ Space \in Char
    BY <1>2, <1>5, LineAssumption DEF LineAssumption
  <2>5. \A s, t \in Seq(Char) : Joined(s, t, Space) \in Seq(Char)
    BY <2>4 DEF Joined
  <2> QED
    BY <1>5, <2>3, <2>4, <2>5
<1>6. n \in Good
  <2> HIDE DEF Good
  <2>1. 0 .. n \subseteq Good
    BY <1>2, <1>4, <1>5, CountUp
  <2> QED
    BY <1>2, <2>1
<1> QED
  BY <1>3, <1>6

LEMMA JoinOne ==
  ASSUME NEW word
  PROVE  Join(<<word>>, Space) = word
<1>1. PICK w, n : w = <<word>> /\ n = 1
  OBVIOUS
<1>2. DOMAIN w = 1 .. n /\ w[n] = word /\ n \in Nat /\ n # 0 /\ (1 .. n - 1) = {}
  BY <1>1
<1>3. PICK g : Join(w, Space) = g[1 .. n] /\ JoinedBy(g, w, Space, n)
  BY <1>2, JoinMeans
<1>4. (1 .. n) # {} /\ Max(1 .. n) = n /\ (1 .. n) \ {n} = 1 .. n - 1
  BY ONLY <1>2, LastOfAll
<1>5. {} \in SUBSET (1 .. n) /\ (1 .. n) \in SUBSET (1 .. n)
  OBVIOUS
<1>6. g[{}] = <<>> /\ g[1 .. n] = Joined(g[{}], w[n], Space)
  BY <1>2, <1>3, <1>4, <1>5 DEF JoinRule, JoinedBy
<1>7. Joined(<<>>, w[n], Space) = w[n]
  BY DEF Joined
<1> QED
  BY <1>1, <1>2, <1>3, <1>6, <1>7

LEMMA StrippedType ==
  ASSUME NEW text, text \in Seq(Char)
  PROVE  Stripped(text) \in Seq(Char)
<1>1. \A s \in Seq(Char) : s # <<>> => Tail(s) \in Seq(Char) /\ Front(s) \in Seq(Char)
  BY DEF Front
<1> QED
  BY <1>1 DEF Stripped

\* Marks at its ends are all that is lost of a text.
LEMMA StrippedPlain ==
  ASSUME NEW text, text \in Seq(Char), PlainText(text)
  PROVE  Stripped(text) = text
<1>1. text # <<>> /\ text[1] \notin Mark /\ text[Len(text)] \notin Mark
  BY DEF PlainText
<1>2. Head(text) = text[1] /\ Last(text) = text[Len(text)]
  BY <1>1 DEF Last
<1> QED
  BY <1>1, <1>2 DEF Stripped

LEMMA TextType ==
  ASSUME NEW args, args \in Seq(Seq(Char)), Len(args) >= 1
  PROVE  TextOf(args) \in Seq(Char)
<1>1. Tail(args) \in Seq(Seq(Char))
  OBVIOUS
<1> QED
  BY <1>1, JoinType, StrippedType DEF TextOf

LEMMA TextPlain ==
  ASSUME NEW name, NEW text, text \in Seq(Char), PlainText(text)
  PROVE  TextOf(<<name, text>>) = text
<1>1. Tail(<<name, text>>) = <<text>>
  OBVIOUS
<1> QED
  BY <1>1, JoinOne, StrippedPlain DEF TextOf


-----------------------------------------------------------------------------
(* Commands and the volume.                                                *)

\* The volume is sound, and a page without one has no files.
VolumeSound == VolumeInv /\ (formatted \/ DOMAIN files = {})

\* No command takes the volume away, and none but a format that works brings
\* one.
Stepped ==
  /\ VolumeSound'
  /\ formatted' \in BOOLEAN
  /\ reply'.ok \in BOOLEAN
  /\ formatted => formatted'
  /\ formatted' /\ ~formatted => reply'.ok /\ reply'.cmd = "format"
  /\ reply'.ok /\ reply'.cmd = "format" => formatted'

\* What a command other than format does.
Local ==
  /\ formatted' = formatted
  /\ formatted \/ files' = files
  /\ reply'.ok \in BOOLEAN
  /\ reply'.cmd # "format"

LEMMA RefuseLocal ==
  ASSUME NEW cmd, cmd # "format", Refuse(cmd)
  PROVE  Local
BY DEF Refuse, Error, FS, Local

LEMMA OkLocal ==
  ASSUME NEW cmd, cmd # "format", NEW out, Ok(cmd, out), UNCHANGED FS
  PROVE  Local
BY DEF Ok, FS, Local

LEMMA AskLocal ==
  ASSUME NEW cmd, cmd # "format", NEW n, NEW answer, Ask(cmd, n, answer)
  PROVE  Local
<1>1. CASE Refuse(cmd)
  BY <1>1, RefuseLocal
<1>2. ASSUME NEW i, Ok(cmd, answer[i]), UNCHANGED FS
      PROVE  Local
  BY <1>2, OkLocal
<1> QED
  BY <1>1, <1>2 DEF Ask

LEMMA AskVolumeLocal ==
  ASSUME NEW cmd, cmd # "format", NEW answer, AskVolume(cmd, answer)
  PROVE  Local
BY RefuseLocal, OkLocal DEF AskVolume

LEMMA ReplaceLocal ==
  ASSUME NEW cmd, cmd # "format", NEW n, NEW fit, NEW text, Replace(cmd, n, fit, text)
  PROVE  Local
<1>1. CASE Refuse(cmd)
  BY <1>1, RefuseLocal
<1>2. ASSUME formatted, Ok(cmd, <<>>), UNCHANGED formatted
      PROVE  Local
  BY <1>2 DEF Ok, Local
<1> QED
  BY <1>1, <1>2 DEF Replace

LEMMA NameLocal ==
  ASSUME NEW n, NEW m, NEW perm,
         Create(n) \/ Delete(n) \/ Rename(n, m) \/ Chmod(n, perm) \/ Copy(n, m)
  PROVE  Local
<1>1. CASE \E cmd \in {"create", "rm", "rename", "chmod", "cp"} : Refuse(cmd)
  BY <1>1, RefuseLocal
<1>2. ASSUME NEW cmd \in {"create", "rm", "rename", "chmod", "cp"},
             formatted, Ok(cmd, <<>>) \/ Error(cmd), UNCHANGED formatted
      PROVE  Local
  <2>1. cmd # "format"
    BY <1>2
  <2>2. reply'.ok \in BOOLEAN /\ reply'.cmd = cmd
    <3>1. CASE Ok(cmd, <<>>)
      BY ONLY <3>1 DEF Ok
    <3>2. CASE Error(cmd)
      BY ONLY <3>2 DEF Error
    <3> QED
      BY <1>2, <3>1, <3>2
  <2>3. formatted' = formatted /\ formatted
    BY <1>2
  <2> QED
    BY <2>1, <2>2, <2>3 DEF Local
<1>3. CASE Create(n)
  BY <1>1, <1>2, <1>3 DEF Create, MayNotCreate
<1>4. CASE Delete(n)
  BY <1>1, <1>2, <1>4 DEF Delete
<1>5. CASE Rename(n, m)
  BY <1>1, <1>2, <1>5 DEF Rename
<1>6. CASE Chmod(n, perm)
  BY <1>1, <1>2, <1>6 DEF Chmod
<1>7. CASE Copy(n, m)
  BY <1>1, <1>2, <1>7 DEF Copy
<1> QED
  BY <1>3, <1>4, <1>5, <1>6, <1>7

LEMMA LocalSound ==
  ASSUME VolumeSound, Local, VolumeInv'
  PROVE  Stepped
BY DEF VolumeSound, Local, Stepped, VolumeInv, VolumeType

LEMMA FormatSound ==
  ASSUME VolumeSound, NEW size \in Int \cup {NaN}, NEW block \in Int \cup {NaN},
         Format(size, block)
  PROVE  Stepped
<1>1. VolumeInv'
  BY FormatInv DEF VolumeSound
<1>2. CASE Refuse("format")
  BY <1>1, <1>2 DEF Refuse, Error, FS, Stepped, VolumeSound, VolumeInv, VolumeType
<1>3. CASE formatted' = TRUE /\ Ok("format", <<>>)
  BY <1>1, <1>3 DEF Ok, Stepped, VolumeSound
<1> QED
  BY <1>2, <1>3 DEF Format

LEMMA LookSound ==
  ASSUME VolumeSound, NEW n, Read(n) \/ Stat(n) \/ Ls \/ Statfs \/ Fsck
  PROVE  Stepped
<1>1. VolumeInv'
  BY LookInv DEF VolumeSound
<1>2. Local
  <2>1. CASE Read(n)
    BY <2>1, AskLocal DEF Read
  <2>2. CASE Stat(n)
    BY <2>2, AskLocal DEF Stat
  <2>3. CASE Ls
    BY <2>3, AskVolumeLocal DEF Ls
  <2>4. CASE Statfs
    BY <2>4, AskVolumeLocal DEF Statfs
  <2>5. CASE Fsck
    BY <2>5, RefuseLocal, OkLocal DEF Fsck
  <2> QED
    BY <2>1, <2>2, <2>3, <2>4, <2>5
<1> QED
  BY <1>1, <1>2, LocalSound

LEMMA RefuseSound ==
  ASSUME VolumeSound, NEW cmd, cmd # "format", Refuse(cmd) \/ (Ok(cmd, <<>>) /\ UNCHANGED FS)
  PROVE  Stepped
<1>1. VolumeInv'
  BY SameInv DEF VolumeSound, Refuse
<1>2. Local
  BY RefuseLocal, OkLocal
<1> QED
  BY <1>1, <1>2, LocalSound

\* A word that a command may take for a name, a number or a mode.
Sane(w) == w \in AnyName /\ ParseInt(w) \in Int \cup {NaN} /\ ParseMode(w) \in Perm

\* The commands that the buttons of a row and the editor give.
Buttons == {"stat", "rm", "write", "append"}

LEMMA CallSound ==
  ASSUME VolumeSound, NEW cmd, NEW args, args \in Seq(Seq(Char)),
         ~WrongArgs(cmd, Len(args)),
         cmd \in Buttons \/ \A k \in DOMAIN args : Sane(args[k]),
         Call(cmd, args)
  PROVE  Stepped
<1>1. VolumeInv
  BY DEF VolumeSound
<1>2. PICK n : n = Len(args)
  OBVIOUS
<1>3. n \in Nat /\ DOMAIN args = 1 .. n /\ ~WrongArgs(cmd, n)
  BY <1>2
<1>4. cmd \in OneArg => n = 1
  BY <1>3 DEF WrongArgs
<1>5. cmd \in TwoArgs => n = 2
  BY <1>3 DEF WrongArgs
<1>6. cmd \in TextArgs => n >= 2
  BY <1>3 DEF WrongArgs
<1>7. cmd \in OneArg \ Buttons => Sane(args[1])
  BY <1>3, <1>4
<1>8. cmd \in TwoArgs => Sane(args[1]) /\ Sane(args[2])
  <2>1. TwoArgs \cap Buttons = {}
    BY DEF TwoArgs, Buttons
  <2> QED
    BY <1>3, <1>5, <2>1
<1>9. cmd \in TextArgs => TextOf(args) \in Seq(Char)
  BY <1>2, <1>6, TextType
<1>10. PICK x, y, t : x = args[1] /\ y = args[2] /\ t = TextOf(args)
  OBVIOUS
<1>11. CASE cmd = "format" /\ Format(ParseInt(x), ParseInt(y))
  BY <1>8, <1>10, <1>11, FormatSound DEF TwoArgs, Sane
<1>12. CASE cmd = "create" /\ Create(x)
  <2>1. x \in AnyName
    BY <1>7, <1>10, <1>12 DEF OneArg, Buttons, Sane
  <2> QED
    BY <1>1, <1>12, <2>1, CreateInv, NameLocal, LocalSound
<1>13. CASE Delete(x)
  BY <1>1, <1>13, DeleteInv, NameLocal, LocalSound
<1>14. CASE cmd = "write" /\ Write(x, t)
  <2>1. VolumeInv'
    BY <1>1, <1>9, <1>10, <1>14, WriteInv DEF TextArgs
  <2> QED
    BY <1>14, <2>1, ReplaceLocal, LocalSound DEF Write
<1>15. CASE cmd = "append" /\ AppendTo(x, t)
  <2>1. VolumeInv'
    BY <1>1, <1>9, <1>10, <1>15, AppendInv DEF TextArgs
  <2> QED
    BY <1>15, <2>1, ReplaceLocal, LocalSound DEF AppendTo
<1>16. CASE Read(x) \/ Stat(x) \/ Ls \/ Statfs \/ Fsck
  BY <1>16, LookSound
<1>17. CASE cmd = "rename" /\ Rename(x, y)
  <2>1. y \in AnyName
    BY <1>8, <1>10, <1>17 DEF TwoArgs, Sane
  <2> QED
    BY <1>1, <1>17, <2>1, RenameInv, NameLocal, LocalSound
<1>18. CASE cmd = "cp" /\ Copy(x, y)
  <2>1. y \in AnyName
    BY <1>8, <1>10, <1>18 DEF TwoArgs, Sane
  <2> QED
    BY <1>1, <1>18, <2>1, CopyInv, NameLocal, LocalSound
<1>19. CASE cmd = "chmod" /\ Chmod(x, ParseMode(y))
  <2>1. ParseMode(y) \in Perm
    BY <1>8, <1>10, <1>19 DEF TwoArgs, Sane
  <2> QED
    BY <1>1, <1>19, <2>1, ChmodInv, NameLocal, LocalSound
<1>20. CASE cmd = "truncate" /\ Truncate(x, ParseInt(y))
  <2>1. ParseInt(y) \in Int \cup {NaN}
    BY <1>8, <1>10, <1>20 DEF TwoArgs, Sane
  <2>2. VolumeInv'
    BY <1>1, <1>20, <2>1, TruncateInv
  <2> QED
    BY <1>20, <2>2, ReplaceLocal, LocalSound DEF Truncate
<1>21. CASE Refuse("none") \/ (Ok("none", <<>>) /\ UNCHANGED FS)
  BY <1>21, RefuseSound
<1> QED
  BY <1>10, <1>11, <1>12, <1>13, <1>14, <1>15, <1>16, <1>17, <1>18, <1>19, <1>20, <1>21 DEF Call

\* Whatever line a handler gives, the volume stays sound.
LEMMA ParseSound ==
  ASSUME VolumeSound, NEW line, line \in Seq(Char), Parse(line),
         line \in Entered \/ \E cmd \in Buttons : Leads(line, cmd)
  PROVE  Stepped
<1>1. PICK words : words = Split(Trim(line))
  OBVIOUS
<1>2. Trim(line) \in Seq(Char) /\ NoMark \notin Char
  BY TrimType, PageAssumption DEF PageAssumption
<1>3. words \in Seq(Seq(Char) \ {<<>>})
  BY <1>1, <1>2, SplitType
<1>4. CASE Refuse("none")
  BY <1>4, RefuseSound
<1>5. ASSUME words # <<>>, ~WrongArgs(words[1][1], Len(Tail(words))),
             Call(words[1][1], Tail(words))
      PROVE  Stepped
  <2>1. PICK args, first : args = Tail(words) /\ first = words[1][1]
    OBVIOUS
  <2>2. /\ args \in Seq(Seq(Char)) /\ Len(words) \in Nat /\ Len(words) >= 1
        /\ DOMAIN args = 1 .. Len(words) - 1
        /\ \A k \in DOMAIN args : args[k] = words[k + 1]
    BY <1>3, <1>5, <2>1
  <2>3. first \in Buttons \/ \A k \in DOMAIN args : Sane(args[k])
    <3>1. CASE line \in Entered
      <4>1. ASSUME NEW k, k \in DOMAIN args PROVE args[k] \in Argument
        <5>1. k + 1 \in 2 .. Len(words) /\ args[k] = words[k + 1]
          BY <2>2, <4>1
        <5> QED
          BY <1>1, <3>1, <5>1 DEF Argument
      <4> QED
        BY <4>1, LineAssumption DEF LineAssumption, Sane
    <3>2. ASSUME NEW cmd, cmd \in Buttons, Leads(line, cmd) PROVE first \in Buttons
      <4>1. cmd \notin Gap \cup Mark
        BY <3>2, LineAssumption
           DEF Buttons, CmdWord, OneArg, TextArgs, LineAssumption
      <4>2. Leads(Trim(line), cmd)
        BY <3>2, <4>1, TrimLeads
      <4>3. Split(Trim(line))[1] = <<cmd>>
        BY <1>2, <4>1, <4>2, FirstWord
      <4>4. <<cmd>>[1] = cmd
        OBVIOUS
      <4> QED
        BY <1>1, <2>1, <3>2, <4>3, <4>4
    <3> QED
      BY <3>1, <3>2
  <2> QED
    BY <1>5, <2>1, <2>2, <2>3, CallSound
<1> QED
  BY <1>1, <1>4, <1>5 DEF Parse


-----------------------------------------------------------------------------
(* The inductive invariant of the page.                                    *)

\* Every handler ends in enableControls, or does by itself what it would do.
ControlsInStep == controls = formatted

PageInv ==
  /\ VolumeSound
  /\ PageTypeOK
  /\ EditorSound
  /\ ControlsInStep
  /\ TutorialInStep
  /\ launchTimers + clearTimers + backTimers <= MaxTimers

TutorialType == tutStep \in 0 .. 2 /\ banner \in 0 .. 2

LEMMA TutorialKept ==
  ASSUME TutorialType, TutorialInStep, Stepped, formatted \in BOOLEAN,
         UpdateTutorial(reply')
  PROVE  TutorialType' /\ TutorialInStep'
<1>1. CASE reply'.ok /\ reply'.cmd = "format" /\ tutStep = 0
  <2>1. tutStep' = 1 /\ banner' = 1
    BY <1>1 DEF UpdateTutorial, Advance
  <2>2. formatted'
    BY <1>1 DEF Stepped
  <2> QED
    BY <2>1, <2>2 DEF TutorialType, TutorialInStep
<1>2. CASE reply'.ok /\ tutStep = 1 /\ HasFiles(files')
  <2>1. tutStep' = 2 /\ banner' = 2
    BY <1>2 DEF UpdateTutorial, Advance
  <2>2. formatted'
    BY <1>2 DEF Stepped, TutorialInStep
  <2> QED
    BY <2>1, <2>2 DEF TutorialType, TutorialInStep
<1>3. CASE /\ ~(reply'.ok /\ reply'.cmd = "format" /\ tutStep = 0)
           /\ ~(reply'.ok /\ tutStep = 1 /\ HasFiles(files'))
  <2>1. tutStep' = tutStep /\ banner' = banner
    BY <1>3 DEF UpdateTutorial, tutVars
  <2>2. formatted' => formatted
    <3>1. ASSUME formatted', ~formatted PROVE FALSE
      <4>1. reply'.ok /\ reply'.cmd = "format"
        BY <3>1 DEF Stepped
      <4>2. tutStep = 0
        BY <3>1 DEF TutorialInStep, TutorialType
      <4> QED
        BY <1>3, <4>1, <4>2
    <3> QED
      BY <3>1
  <2>3. formatted => formatted'
    BY DEF Stepped
  <2> QED
    BY <2>1, <2>2, <2>3 DEF TutorialType, TutorialInStep
<1> QED
  BY <1>1, <1>2, <1>3

\* What a step that runs a command leaves of the invariant.
LEMMA RefreshKept ==
  ASSUME PageInv, Stepped, Refresh
  PROVE  /\ VolumeSound' /\ ControlsInStep' /\ TutorialType' /\ TutorialInStep'
         /\ controls' \in BOOLEAN
<1>1. TutorialType /\ TutorialInStep /\ formatted \in BOOLEAN
  BY DEF PageInv, PageTypeOK, TutorialType, VolumeSound, VolumeInv, VolumeType
<1>2. TutorialType' /\ TutorialInStep'
  BY <1>1, TutorialKept DEF Refresh
<1>3. controls' = formatted' /\ formatted' \in BOOLEAN /\ VolumeSound'
  BY DEF Refresh, Stepped
<1> QED
  BY <1>2, <1>3 DEF ControlsInStep

\* The timers, with the bound on them.
Ticking ==
  /\ backTimers \in Nat /\ launchTimers \in Nat /\ clearTimers \in Nat
  /\ launchTimers + clearTimers + backTimers <= MaxTimers
  /\ confetti \in BOOLEAN

LEMMA Bounded ==
  ASSUME NEW m, NEW a, NEW b, NEW c, m \in Nat, a \in Nat, b \in Nat, c \in Nat, a + b + c <= m
  PROVE  c \in 0 .. m /\ a \in 0 .. m /\ b \in 0 .. m
OBVIOUS

LEMMA TickingType ==
  ASSUME Ticking
  PROVE  /\ backTimers \in 0 .. MaxTimers /\ launchTimers \in 0 .. MaxTimers
         /\ clearTimers \in 0 .. MaxTimers
BY PageAssumption DEF Ticking, PageAssumption

\* The editor and the reader.
Editing ==
  /\ writeTarget \in AnyName \cup {NoName}
  /\ editor \in [shown: BOOLEAN, text: Seq(Char), append: BOOLEAN]
  /\ reader \in BOOLEAN
  /\ EditorSound

LEMMA PageParts ==
  PageInv <=> /\ VolumeSound /\ controls \in BOOLEAN /\ ControlsInStep
              /\ TutorialType /\ TutorialInStep /\ Ticking /\ Editing
<1>1. PageInv => Ticking
  BY DEF PageInv, PageTypeOK, Ticking
<1> QED
  BY <1>1, TickingType DEF PageInv, PageTypeOK, TutorialType, Ticking, Editing

LEMMA PagePartsThen ==
  ASSUME VolumeSound', controls' \in BOOLEAN, ControlsInStep', TutorialType', TutorialInStep',
         Ticking', Editing'
  PROVE  PageInv'
<1>1. /\ backTimers' \in 0 .. MaxTimers /\ launchTimers' \in 0 .. MaxTimers
      /\ clearTimers' \in 0 .. MaxTimers
  <2>1. MaxTimers \in Nat
    BY PageAssumption DEF PageAssumption
  <2>2. /\ backTimers' \in Nat /\ launchTimers' \in Nat /\ clearTimers' \in Nat
        /\ launchTimers' + clearTimers' + backTimers' <= MaxTimers
    BY DEF Ticking
  <2> QED
    BY ONLY <2>1, <2>2, Bounded
<1> QED
  BY <1>1 DEF PageInv, PageTypeOK, TutorialType, Ticking, Editing

LEMMA SameEditing ==
  ASSUME Editing, UNCHANGED pageVars
  PROVE  Editing'
BY DEF Editing, pageVars, EditorSound

LEMMA SameVolume ==
  ASSUME VolumeSound, ControlsInStep, UNCHANGED <<vars, controls>>
  PROVE  VolumeSound' /\ ControlsInStep'
<1>1. UNCHANGED FS
  BY DEF vars
<1>2. VolumeInv'
  BY <1>1, SameInv DEF VolumeSound
<1> QED
  BY <1>1, <1>2 DEF VolumeSound, ControlsInStep, FS

LEMMA SameTutorial ==
  ASSUME TutorialType, TutorialInStep, UNCHANGED <<vars, tutVars>>
  PROVE  TutorialType' /\ TutorialInStep'
BY DEF TutorialType, TutorialInStep, vars, FS, tutVars

\* Running a line.
LEMMA RunCmdKept ==
  ASSUME PageInv, NEW line, line \in Seq(Char), RunCmd(line), UNCHANGED backTimers,
         line \in Entered \/ \E cmd \in Buttons : Leads(line, cmd)
  PROVE  /\ VolumeSound' /\ ControlsInStep' /\ TutorialType' /\ TutorialInStep'
         /\ controls' \in BOOLEAN /\ Ticking'
<1>1. Stepped
  BY ParseSound DEF RunCmd, PageInv
<1>2. Ticking
  BY PageParts
<1>3. Ticking'
  <2>1. launchTimers' \in Nat
    BY <1>2 DEF RunCmd, Celebrate, Ticking
  <2>2. launchTimers' + clearTimers + backTimers <= MaxTimers
    BY DEF RunCmd, Celebrate
  <2>3. clearTimers' = clearTimers /\ confetti' = confetti
    BY DEF RunCmd
  <2> QED
    BY <1>2, <2>1, <2>2, <2>3 DEF Ticking
<1> QED
  BY <1>1, <1>3, RefreshKept DEF RunCmd

LEMMA EnteredType ==
  /\ \A line \in Line : Trim(line) \in Seq(Char) /\ Trim(line) \in Entered
  /\ \A name \in NewName : /\ Words("create", Trim(name)) \in Seq(Char)
                           /\ Words("create", Trim(name)) \in Entered
<1>1. ASSUME NEW line \in Line
      PROVE  Trim(line) \in Seq(Char) /\ Trim(line) \in Entered
  BY TrimType, LineAssumption DEF LineAssumption, Entered
<1>2. ASSUME NEW name \in NewName
      PROVE  /\ Words("create", Trim(name)) \in Seq(Char)
             /\ Words("create", Trim(name)) \in Entered
  <2>1. Trim(name) \in Seq(Char)
    BY TrimType, LineAssumption DEF LineAssumption
  <2>2. <<"create", Space>> \in Seq(Char)
    BY LineAssumption DEF LineAssumption, CmdWord, OneArg
  <2> QED
    BY <2>1, <2>2 DEF Words, Entered
<1> QED
  BY <1>1, <1>2

\* The lines that the page makes start with the name of a command.
LEMMA WordsLead ==
  ASSUME NEW cmd, cmd \in Buttons, NEW name, name \in Seq(Char)
  PROVE  Words(cmd, name) \in Seq(Char) /\ Leads(Words(cmd, name), cmd)
<1>1. <<cmd, Space>> \in Seq(Char) /\ Space \in Gap
  BY LineAssumption, PageAssumption
     DEF LineAssumption, PageAssumption, CmdWord, OneArg, TextArgs, Buttons
<1>2. PICK n : n = Len(name)
  OBVIOUS
<1>3. Words(cmd, name) \in Seq(Char) /\ Len(Words(cmd, name)) = 2 + n /\ n \in Nat
  BY <1>1, <1>2 DEF Words
<1>4. Words(cmd, name)[1] = cmd /\ Words(cmd, name)[2] = Space
  BY <1>1 DEF Words
<1> QED
  BY <1>1, <1>3, <1>4 DEF Leads

LEMMA WrittenLeads ==
  ASSUME NEW cmd, cmd \in {"write", "append"}, NEW name, name \in Seq(Char),
         NEW text, text \in Seq(Char)
  PROVE  Written(cmd, name, text) \in Seq(Char) /\ Leads(Written(cmd, name, text), cmd)
<1>1. cmd \in Char /\ Space \in Gap
  BY LineAssumption, PageAssumption DEF LineAssumption, PageAssumption, CmdWord, TextArgs
<1>2. PICK line, a, b : line = Written(cmd, name, text) /\ a = Len(name) /\ b = Len(text)
  OBVIOUS
<1>3. Laid(line, cmd, name, text, a, b)
  BY <1>1, <1>2, WrittenParts
<1>4. line \in Seq(Char) /\ Len(line) >= 2 /\ line[1] = cmd /\ line[2] = Space
  BY <1>3 DEF Laid
<1> QED
  BY <1>1, <1>2, <1>4 DEF Leads

LEMMA SaveLineWritten ==
  ASSUME NEW name, NEW text, NEW append
  PROVE  SaveLine(name, text, append) =
           Written(IF append THEN "append" ELSE "write", name, text)
BY DEF SaveLine, Written

LEMMA NamesListed ==
  ASSUME VolumeSound
  PROVE  Listed \subseteq AnyName /\ \A name : ContentOf(name) \in Seq(Char)
<1>1. \A i \in DOMAIN files : files[i].name \in AnyName
  BY DEF VolumeSound, VolumeInv, VolumeType, File
<1>2. Listed \subseteq AnyName
  BY <1>1 DEF Listed
<1>3. ASSUME NEW name PROVE ContentOf(name) \in Seq(Char)
  <2>1. CASE Holders(name) = {}
    BY <2>1 DEF ContentOf
  <2>2. CASE Holders(name) # {}
    <3>1. \E i \in DOMAIN files : Found(name, i)
      <4>1. Holders(name) \subseteq Nat
        BY DEF Holders, VolumeSound, VolumeInv, VolumeType
      <4>2. PICK i \in Holders(name) : \A j \in Holders(name) : i <= j
        BY <2>2, <4>1, LeastNatural
      <4> QED
        BY <4>2 DEF Found, IsFirst, Holders
    <3>2. (CHOOSE i \in DOMAIN files : Found(name, i)) \in DOMAIN files
      BY <3>1
    <3> QED
      BY <2>2, <3>2, ContentType DEF ContentOf, VolumeSound
  <2> QED
    BY <2>1, <2>2
<1> QED
  BY <1>2, <1>3


-----------------------------------------------------------------------------
(* One lemma per handler and timer.                                        *)

LEMMA PageInitInv == PageInit => PageInv
<1> SUFFICES ASSUME PageInit PROVE PageInv
  OBVIOUS
<1>1. VolumeSound
  BY InitInv DEF PageInit, Init, VolumeSound, NoFiles
<1>2. formatted = FALSE /\ controls = FALSE /\ tutStep = 0 /\ banner = 0
  BY DEF PageInit, Init
<1>3. Ticking
  <2>1. backTimers = 0 /\ launchTimers = 0 /\ clearTimers = 0
    BY DEF PageInit
  <2>2. confetti \in BOOLEAN
    BY DEF PageInit
  <2> QED
    BY <2>1, <2>2, PageAssumption DEF Ticking, PageAssumption
<1>4. Editing
  <2>1. writeTarget = NoName /\ editor = Hidden
    BY DEF PageInit
  <2>2. reader \in BOOLEAN
    BY DEF PageInit
  <2>3. <<>> \in Seq(Char)
    OBVIOUS
  <2> QED
    BY <2>1, <2>2, <2>3 DEF Editing, EditorSound, Hidden
<1>5. controls \in BOOLEAN /\ ControlsInStep
  BY <1>2 DEF ControlsInStep
<1>6. TutorialType /\ TutorialInStep
  BY <1>2 DEF TutorialType, TutorialInStep
<1> QED
  BY <1>1, <1>3, <1>4, <1>5, <1>6, PageParts

LEMMA LineKept ==
  ASSUME PageInv, NEW line, line \in Seq(Char), RunCmd(line),
         UNCHANGED <<pageVars, backTimers>>,
         line \in Entered \/ \E cmd \in Buttons : Leads(line, cmd)
  PROVE  PageInv'
<1>1. Editing'
  BY PageParts, SameEditing
<1>2. /\ VolumeSound' /\ ControlsInStep' /\ TutorialType' /\ TutorialInStep'
      /\ controls' \in BOOLEAN /\ Ticking'
  BY RunCmdKept
<1> QED
  BY <1>1, <1>2, PagePartsThen

LEMMA SubmitKept ==
  ASSUME PageInv, NEW line \in Line, Submit(line)
  PROVE  PageInv'
BY EnteredType, LineKept DEF Submit

LEMMA QuickCreateKept ==
  ASSUME PageInv, NEW name \in NewName, QuickCreate(name)
  PROVE  PageInv'
BY EnteredType, LineKept DEF QuickCreate

LEMMA RowButtonKept ==
  ASSUME PageInv, NEW name \in Listed, NEW cmd \in {"stat", "rm"}, RowButton(cmd, name)
  PROVE  PageInv'
<1>1. name \in Seq(Char)
  BY NamesListed, LineAssumption DEF PageInv, LineAssumption
<1>2. cmd \in Buttons
  BY DEF Buttons
<1>3. Words(cmd, name) \in Seq(Char) /\ Leads(Words(cmd, name), cmd)
  BY <1>1, <1>2, WordsLead
<1> QED
  BY <1>2, <1>3, LineKept DEF RowButton

LEMMA SaveKept ==
  ASSUME PageInv, Save
  PROVE  PageInv'
<1>1. writeTarget \in AnyName /\ editor.text \in Seq(Char)
  BY DEF PageInv, PageTypeOK, Save
<1>2. PICK cmd, line : /\ cmd \in {"write", "append"}
                       /\ line = SaveLine(writeTarget, editor.text, editor.append)
                       /\ line = Written(cmd, writeTarget, editor.text)
  BY SaveLineWritten
<1>3. writeTarget \in Seq(Char)
  BY <1>1, LineAssumption DEF LineAssumption
<1>4. line \in Seq(Char) /\ Leads(line, cmd)
  BY <1>1, <1>2, <1>3, WrittenLeads
<1>5. RunCmd(line) /\ UNCHANGED backTimers
  BY <1>2 DEF Save
<1>6. cmd \in Buttons
  BY <1>2 DEF Buttons
<1>7. /\ VolumeSound' /\ ControlsInStep' /\ TutorialType' /\ TutorialInStep'
      /\ controls' \in BOOLEAN /\ Ticking'
  BY <1>4, <1>5, <1>6, RunCmdKept
<1>8. Editing'
  <2>1. Editing
    BY PageParts
  <2>2. editor' = Hidden /\ writeTarget' = NoName /\ reader' = reader
    BY DEF Save, Close
  <2> QED
    BY <2>1, <2>2 DEF Editing, EditorSound, Hidden
<1> QED
  BY <1>7, <1>8, PagePartsThen

LEMMA OpenEditorKept ==
  ASSUME PageInv, NEW name \in Listed, OpenEditor(name)
  PROVE  PageInv'
<1>1. name \in AnyName /\ ContentOf(name) \in Seq(Char)
  BY NamesListed DEF PageInv
<1>2. Editing'
  BY <1>1, PageAssumption DEF OpenEditor, Editing, EditorSound, PageAssumption
<1>3. VolumeSound' /\ ControlsInStep'
  BY SameVolume DEF PageInv, OpenEditor
<1>4. TutorialType' /\ TutorialInStep'
  BY PageParts, SameTutorial DEF OpenEditor
<1>5. Ticking' /\ controls' \in BOOLEAN
  BY PageParts DEF OpenEditor, timeVars, Ticking
<1> QED
  BY <1>2, <1>3, <1>4, <1>5, PagePartsThen

LEMMA OpenReaderKept ==
  ASSUME PageInv, NEW name, OpenReader(name)
  PROVE  PageInv'
<1>1. Stepped
  BY LookSound DEF OpenReader, PageInv
<1>2. /\ VolumeSound' /\ ControlsInStep' /\ TutorialType' /\ TutorialInStep'
      /\ controls' \in BOOLEAN
  BY <1>1, RefreshKept DEF OpenReader
<1>3. Editing'
  <2>1. Editing
    BY PageParts
  <2> QED
    BY <2>1 DEF OpenReader, Editing, EditorSound, Hidden
<1>4. Ticking'
  BY PageParts DEF OpenReader, timeVars, Ticking
<1> QED
  BY <1>2, <1>3, <1>4, PagePartsThen

\* Typing and closing.
LEMMA EditKept ==
  ASSUME PageInv, UNCHANGED <<vars, controls, tutVars, timeVars>>, Editing'
  PROVE  PageInv'
<1>1. VolumeSound' /\ ControlsInStep'
  BY SameVolume DEF PageInv
<1>2. TutorialType' /\ TutorialInStep'
  BY PageParts, SameTutorial
<1>3. Ticking' /\ controls' \in BOOLEAN
  BY PageParts DEF timeVars, Ticking
<1> QED
  BY <1>1, <1>2, <1>3, PagePartsThen

LEMMA TypeKept ==
  ASSUME PageInv, NEW text \in Typed, NEW append \in BOOLEAN, Type(text, append)
  PROVE  PageInv'
<1>1. text \in Seq(Char)
  BY LineAssumption DEF LineAssumption
<1>2. Editing
  BY PageParts
<1>3. Editing'
  BY <1>1, <1>2 DEF Type, Editing, EditorSound
<1> QED
  BY <1>3, EditKept DEF Type

LEMMA CloseKept ==
  ASSUME PageInv, CloseEditor \/ CloseReader
  PROVE  PageInv'
<1>1. Editing
  BY PageParts
<1>2. CASE CloseEditor
  <2>1. Editing'
    BY <1>1, <1>2 DEF CloseEditor, Close, Hidden, Editing, EditorSound
  <2> QED
    BY <1>2, <2>1, EditKept DEF CloseEditor
<1>3. CASE CloseReader
  <2>1. Editing'
    BY <1>1, <1>3 DEF CloseReader, Editing, EditorSound
  <2> QED
    BY <1>3, <2>1, EditKept DEF CloseReader
<1> QED
  BY <1>2, <1>3

LEMMA ResetKept ==
  ASSUME PageInv, ResetAll
  PROVE  PageInv'
<1>1. VolumeInv'
  BY ResetInv DEF PageInv, VolumeSound, ResetAll
<1>2. formatted' = FALSE /\ DOMAIN files' = {} /\ controls' = FALSE /\ tutStep' = 0
      /\ banner' = banner
  BY DEF ResetAll, Reset, NoFiles
<1>3. Editing'
  BY PageParts, SameEditing DEF ResetAll
<1>4. Ticking' /\ TutorialType
  BY PageParts DEF ResetAll, timeVars, Ticking
<1>5. VolumeSound'
  BY <1>1, <1>2 DEF VolumeSound
<1>6. controls' \in BOOLEAN /\ ControlsInStep'
  BY <1>2 DEF ControlsInStep
<1>7. TutorialType' /\ TutorialInStep'
  BY <1>2, <1>4 DEF TutorialInStep, TutorialType
<1> QED
  BY <1>3, <1>4, <1>5, <1>6, <1>7, PagePartsThen

LEMMA FormatDialogKept ==
  ASSUME PageInv, NEW size \in DialogSize, NEW block \in DialogBlock,
         FormatDialog(size, block)
  PROVE  PageInv'
<1>1. size \in Int \cup {NaN} /\ block \in Int \cup {NaN}
  BY PageAssumption DEF PageAssumption
<1>2. Stepped
  BY <1>1, FormatSound DEF FormatDialog, PageInv
<1>3. /\ VolumeSound' /\ ControlsInStep' /\ TutorialType' /\ TutorialInStep'
      /\ controls' \in BOOLEAN
  BY <1>2, RefreshKept DEF FormatDialog
<1>4. Editing'
  BY PageParts, SameEditing DEF FormatDialog
<1>5. Ticking'
  BY PageParts DEF FormatDialog, Ticking
<1> QED
  BY <1>3, <1>4, <1>5, PagePartsThen

LEMMA TimerKept ==
  ASSUME PageInv, BackTimer \/ Launch \/ Clear
  PROVE  PageInv'
<1>1. UNCHANGED <<vars, controls, pageVars>>
  BY DEF BackTimer, Launch, Clear
<1>2. VolumeSound' /\ ControlsInStep' /\ controls' \in BOOLEAN
  BY <1>1, SameVolume, PageParts
<1>3. Editing'
  BY <1>1, PageParts, SameEditing
<1>4. TutorialType' /\ TutorialInStep'
  <2>1. CASE BackTimer
    BY <2>1 DEF BackTimer, Advance, TutorialType, TutorialInStep
  <2>2. CASE Launch \/ Clear
    <3>1. UNCHANGED <<vars, tutVars>>
      BY <2>2 DEF Launch, Clear
    <3> QED
      BY <3>1, PageParts, SameTutorial
  <2> QED
    BY <2>1, <2>2
<1>5. Ticking'
  <2>1. Ticking
    BY PageParts
  <2>2. CASE BackTimer
    BY <2>1, <2>2, PageAssumption DEF BackTimer, Ticking, PageAssumption
  <2>3. CASE Launch
    BY <2>1, <2>3, PageAssumption DEF Launch, Ticking, PageAssumption
  <2>4. CASE Clear
    <3>1. confetti' \in BOOLEAN
      BY <2>4 DEF Clear
    <3>2. clearTimers' = clearTimers - 1 /\ clearTimers > 0
      BY <2>4 DEF Clear
    <3>3. launchTimers' = launchTimers /\ backTimers' = backTimers
      BY <2>4 DEF Clear
    <3> QED
      BY <2>1, <3>1, <3>2, <3>3, PageAssumption DEF Ticking, PageAssumption
  <2> QED
    BY <2>2, <2>3, <2>4
<1> QED
  BY <1>2, <1>3, <1>4, <1>5, PagePartsThen

LEMMA PageNextInv ==
  ASSUME PageInv, [PageNext]_allVars
  PROVE  PageInv'
<1>1. CASE UNCHANGED allVars
  <2>1. UNCHANGED <<vars, controls, tutVars, timeVars>> /\ UNCHANGED pageVars
    BY <1>1 DEF allVars
  <2>2. Editing'
    BY <2>1, PageParts, SameEditing
  <2> QED
    BY <2>1, <2>2, EditKept
<1>2. CASE Handler
  <2>1. CASE \E line \in Line : Submit(line)
    BY <2>1, SubmitKept
  <2>2. CASE \E name \in NewName : QuickCreate(name)
    BY <2>2, QuickCreateKept
  <2>3. CASE \E name \in Listed, cmd \in {"stat", "rm"} : RowButton(cmd, name)
    BY <2>3, RowButtonKept
  <2>4. CASE \E name \in Listed : OpenEditor(name) \/ OpenReader(name)
    BY <2>4, OpenEditorKept, OpenReaderKept
  <2>5. CASE \E text \in Typed, append \in BOOLEAN : Type(text, append)
    BY <2>5, TypeKept
  <2>6. CASE \E size \in DialogSize, block \in DialogBlock : FormatDialog(size, block)
    BY <2>6, FormatDialogKept
  <2>7. CASE CloseEditor \/ Save \/ CloseReader \/ ResetAll
    BY <2>7, CloseKept, SaveKept, ResetKept
  <2> QED
    BY <1>2, <2>1, <2>2, <2>3, <2>4, <2>5, <2>6, <2>7 DEF Handler
<1>3. CASE BackTimer \/ Launch \/ Clear
  BY <1>3, TimerKept
<1> QED
  BY <1>1, <1>2, <1>3 DEF PageNext

\* The inductive invariant of the page: the volume's own, that a page without a
\* volume has no files, the four parts that are checked, and the bound on the
\* timers.  The tutorial needs to know that only a format that works brings a
\* volume; what is written needs to be made of characters, editor included.
THEOREM PageInvariant == PageSpec => []PageInv
<1>1. PageInv /\ [PageNext]_allVars => PageInv'
  BY PageNextInv
<1> QED
  BY <1>1, PageInitInv, PTL DEF PageSpec

-----------------------------------------------------------------------------
(* The properties.                                                         *)

\* Every variable of the page has its type, whatever is typed: the tutorial
\* never goes past its third step, nor the number of timers below zero.
THEOREM PageTypeCorrect == PageSpec => []PageTypeOK
<1>1. PageInv => PageTypeOK
  BY DEF PageInv
<1> QED
  BY <1>1, PageInvariant, PTL

\* An editor on the screen has a file to write to and is not covered by the
\* reader, however openings, savings and resets follow one another.
THEOREM EditorRight == PageSpec => []EditorSound
<1>1. PageInv => EditorSound
  BY DEF PageInv
<1> QED
  BY <1>1, PageInvariant, PTL

\* Whatever is typed: on a volume the terminal and the file controls are
\* enabled, no handler forgets enableControls.
THEOREM ControlsRight == PageSpec => []NeverLockedOut
<1>1. PageInv => NeverLockedOut
  BY DEF PageInv, ControlsInStep, NeverLockedOut
<1> QED
  BY <1>1, PageInvariant, PTL

\* On a formatted volume the banner shows the step the tutorial is at, and
\* without a volume the tutorial is at its start, late timers and refused
\* formats included.  (What the banner shows without a volume is left open:
\* after a reset it is the step of before.)
THEOREM TutorialRight == PageSpec => []TutorialInStep
<1>1. PageInv => TutorialInStep
  BY DEF PageInv
<1> QED
  BY <1>1, PageInvariant, PTL

\* Whatever is typed, clicked or left to a timer, the volume under the page
\* keeps its counters, its block numbers in range, its names unique and the
\* blocks its contents need.
THEOREM PageKeepsVolume ==
  PageSpec => [](CountsAgree /\ PointersInRange /\ NamesUnique /\ EnoughBlocks)
<1>1. PageInv => CountsAgree /\ PointersInRange /\ NamesUnique /\ EnoughBlocks
  BY DEF PageInv, VolumeSound, VolumeInv
<1> QED
  BY <1>1, PageInvariant, PTL


-----------------------------------------------------------------------------
(* Saving.                                                                 *)

LEMMA ReplaceStores ==
  ASSUME VolumeSound, NEW cmd, NEW n, NEW text, NEW t,
         \A i \in DOMAIN files : Found(n, i) => text[i] = t,
         Replace(cmd, n, DOMAIN files, text)
  PROVE  Stored(n, t)
<1>1. CASE ~Exists(n) /\ Refuse(cmd)
  <2>1. Holders(n) = {}
    BY <1>1 DEF Exists, VolumeSound, Holders
  <2>2. files' = files /\ ~reply'.ok
    BY <1>1 DEF Refuse, Error, FS
  <2> QED
    BY <2>1, <2>2 DEF Stored
<1>2. ASSUME NEW i \in DOMAIN files, Found(n, i), Refuse(cmd),
             FitsNot(Len(text[i]), Len(files[i].blocks))
      PROVE  Stored(n, t)
  <2>1. i \in Holders(n) /\ text[i] = t
    BY <1>2 DEF Found, IsFirst
  <2>2. files' = files /\ ~reply'.ok
    BY <1>2 DEF Refuse, Error, FS
  <2> QED
    BY <1>2, <2>1, <2>2 DEF Stored
<1>3. ASSUME NEW i \in DOMAIN files, Found(n, i), Ok(cmd, <<>>),
             Store(i, files[i], text[i], superblock)
      PROVE  Stored(n, t)
  <2>1. files[i].name = n /\ text[i] = t
    BY <1>3 DEF Found, IsFirst, Holders
  <2>2. reply'.ok
    BY <1>3 DEF Ok
  <2>3. PICK numbers :
          files' = With(i, [files[i] EXCEPT !.content = t, !.blocks = numbers])
    BY <1>3, <2>1 DEF Store
  <2>4. DOMAIN files' = DOMAIN files
    BY <2>3 DEF With
  <2>5. ASSUME NEW j \in DOMAIN files, j # i PROVE files'[j] = files[j]
    BY <2>3, <2>5 DEF With
  <2>6. files'[i].content = t /\ files'[i].name = files[i].name
    <3>1. files[i] \in File
      BY DEF VolumeSound, VolumeInv, VolumeType
    <3>2. files'[i] = [files[i] EXCEPT !.content = t, !.blocks = numbers]
      BY <2>3 DEF With
    <3> QED
      BY <3>1, <3>2 DEF File
  <2>7. \A j \in DOMAIN files : /\ files'[j].name = files[j].name
                                /\ files[j].name # n => files'[j] = files[j]
    BY <2>1, <2>5, <2>6
  <2> QED
    BY <1>3, <2>2, <2>4, <2>6, <2>7 DEF Stored
<1> QED
  BY <1>1, <1>2, <1>3 DEF Replace

\* The first file of a name is the only one that find can return.
LEMMA FoundContent ==
  ASSUME VolumeSound, NEW n, NEW i \in DOMAIN files, Found(n, i)
  PROVE  ContentOf(n) = files[i].content
<1>1. i \in Holders(n) /\ \A j \in Holders(n) : i <= j
  BY DEF Found, IsFirst
<1>2. \A j \in DOMAIN files : j \in Nat
  BY DEF VolumeSound, VolumeInv, VolumeType
<1>3. \A j \in DOMAIN files : Found(n, j) => j = i
  BY <1>1, <1>2 DEF Found, IsFirst, Holders
<1>4. (CHOOSE j \in DOMAIN files : Found(n, j)) = i
  BY <1>3
<1> QED
  BY <1>1, <1>4 DEF ContentOf

LEMMA SaveStep ==
  ASSUME PageInv, Save, PlainName(writeTarget), PlainText(editor.text)
  PROVE  Stored(writeTarget, IF editor.append THEN ContentOf(writeTarget) \o editor.text
                                              ELSE editor.text)
<1>1. PICK cmd, name, text, line :
        /\ name = writeTarget /\ text = editor.text
        /\ cmd = IF editor.append THEN "append" ELSE "write"
        /\ line = SaveLine(name, text, editor.append)
        /\ line = Written(cmd, name, text)
  BY SaveLineWritten
<1>2. name \in AnyName /\ text \in Seq(Char) /\ VolumeSound /\ editor.append \in BOOLEAN
  BY <1>1 DEF PageInv, PageTypeOK, Save
<1>3. name \in Seq(Char) /\ name # <<>> /\ PlainName(name) /\ PlainText(text)
  BY <1>1, <1>2, LineAssumption DEF LineAssumption
<1>4. cmd \in CmdWord /\ cmd \in TextArgs
  BY <1>1 DEF CmdWord, TextArgs
<1>5. Split(Trim(line)) = <<<<cmd>>, name, text>>
  BY <1>1, <1>2, <1>3, <1>4, WrittenWords
<1>6. PICK words, args : words = <<<<cmd>>, name, text>> /\ args = <<name, text>>
  OBVIOUS
<1>7. /\ words # <<>> /\ words[1] = <<cmd>> /\ Tail(words) = args
      /\ Len(args) = 2 /\ args[1] = name
  BY <1>6
<1>8. Len(words[1]) = 1 /\ words[1][1] = cmd
  BY <1>7
<1>9. ~WrongArgs(cmd, Len(args))
  BY <1>4, <1>7 DEF WrongArgs, CmdWord, TextArgs, OneArg, TwoArgs
<1>10. Parse(line)
  BY <1>1 DEF Save, RunCmd
<1>11. Call(cmd, args)
  BY <1>5, <1>6, <1>7, <1>8, <1>9, <1>10 DEF Parse
<1>12. TextOf(args) = text
  BY <1>2, <1>3, <1>6, TextPlain
<1>13. CASE editor.append
  <2>1. cmd = "append"
    BY <1>1, <1>13
  <2>2. AppendTo(name, text)
    BY <1>7, <1>11, <1>12, <2>1 DEF Call
  <2>3. \A i \in DOMAIN files : Found(name, i) =>
          [j \in DOMAIN files |-> files[j].content \o text][i] = ContentOf(name) \o text
    BY <1>2, FoundContent
  <2>4. Stored(name, ContentOf(name) \o text)
    BY <1>2, <2>2, <2>3, ReplaceStores DEF AppendTo
  <2> QED
    BY <1>1, <1>13, <2>4
<1>14. CASE ~editor.append
  <2>1. cmd = "write"
    BY <1>1, <1>14
  <2>2. Write(name, text)
    BY <1>7, <1>11, <1>12, <2>1 DEF Call
  <2>3. \A i \in DOMAIN files : Found(name, i) => [j \in DOMAIN files |-> text][i] = text
    OBVIOUS
  <2>4. Stored(name, text)
    BY <1>2, <2>2, <2>3, ReplaceStores DEF Write
  <2> QED
    BY <1>1, <1>14, <2>4
<1> QED
  BY <1>13, <1>14

\* Saving in the editor stores the text that is shown, for every plain name and
\* text: the line that doInlineWrite makes is taken apart into that name and
\* that text, and the command stores it in that file and in no other, or
\* refuses it because the file is gone or the text does not fit.
THEOREM SaveRight == PageSpec => SaveStores
<1>1. PageInv /\ [PageNext]_allVars =>
        [Save /\ PlainName(writeTarget) /\ PlainText(editor.text) =>
           Stored(writeTarget,
                  IF editor.append THEN ContentOf(writeTarget) \o editor.text ELSE editor.text)
        ]_allVars
  BY SaveStep
<1> QED
  BY <1>1, PageInvariant, PTL DEF PageSpec, SaveStores
=============================================================================
