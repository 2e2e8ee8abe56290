---------------------------- MODULE RecordsProofs ----------------------------
(***************************************************************************)
(* What is kept of the past, for limits of any size: the ring of perf.c,   *)
(* the lists of the page with their display and the walk through the       *)
(* history, and the two programs side by side.                             *)
(***************************************************************************)
EXTENDS MCRecords, SequenceTheorems, FiniteSetTheorems, TLAPS

-----------------------------------------------------------------------------
(* Counting.                                                               *)

Size(S) == Cardinality(S)

LEMMA IntervalSize ==
  ASSUME NEW n \in Nat
  PROVE  IsFiniteSet(0 .. n - 1) /\ Size(0 .. n - 1) = n
<1> DEFINE last == n - 1
<1>1. last \in Int /\ n = IF 0 > last THEN 0 ELSE last - 0 + 1
  OBVIOUS
<1> HIDE DEF last
<1>2. IsFiniteSet(0 .. last) /\ Cardinality(0 .. last) = n
  BY <1>1, FS_Interval
<1> QED
  BY <1>2 DEF last, Size

\* Numbers below n moved up by one, and 0 put in front of them or not.
LEMMA ShiftCount ==
  ASSUME NEW n \in Nat, NEW A \in SUBSET (0 .. n - 1), NEW B, NEW b \in BOOLEAN,
         \A k : k \in B <=> (k = 0 /\ b) \/ (k \in 1 .. n /\ k - 1 \in A)
  PROVE  /\ Size(A) \in 0 .. n
         /\ Size(B) = Size(A) + (IF b THEN 1 ELSE 0)
<1> DEFINE U == {k \in 1 .. n : k - 1 \in A}
           f == [a \in A |-> a + 1]
<1>1. IsFiniteSet(A) /\ Cardinality(A) \in 0 .. n
  <2>1. IsFiniteSet(0 .. n - 1) /\ Cardinality(0 .. n - 1) = n
    BY IntervalSize DEF Size
  <2>2. IsFiniteSet(A) /\ Cardinality(A) <= Cardinality(0 .. n - 1)
    BY <2>1, FS_Subset
  <2>3. Cardinality(A) \in Nat
    BY <2>2, FS_CardinalityType
  <2> QED
    BY <2>1, <2>2, <2>3
<1>2. f \in Bijection(A, U)
  <2>1. f \in [A -> U]
    OBVIOUS
  <2>2. \A a, c \in A : f[a] = f[c] => a = c
    OBVIOUS
  <2>3. \A k \in U : \E a \in A : f[a] = k
    OBVIOUS
  <2> QED
    BY <2>1, <2>2, <2>3 DEF Bijection, Injection, Surjection, IsInjective
<1>3. IsFiniteSet(U) /\ Cardinality(U) = Cardinality(A)
  BY <1>1, <1>2, FS_Bijection DEF ExistsBijection
<1>4. CASE b
  <2>1. B = U \cup {0} /\ 0 \notin U
    BY <1>4
  <2> HIDE DEF U
  <2> QED
    BY <1>1, <1>3, <1>4, <2>1, FS_AddElement DEF Size
<1>5. CASE ~b
  <2>1. B = U
    BY <1>5
  <2> QED
    BY <1>1, <1>3, <1>5, <2>1 DEF Size
<1> QED
  BY <1>1, <1>4, <1>5 DEF Size

LEMMA EmptySize == Size({}) = 0
BY FS_EmptySet DEF Size

\* Operations are counted by the size of a set, before and after a step.
LEMMA OpsSize ==
  /\ \A d : OpsSince(d) = Size({e \in 0 .. d - 1 : Ago(e) # PerfLine})
  /\ \A d : OpsSince(d)' = Size({e \in 0 .. d - 1 : Ago(e)' # PerfLine})
BY DEF OpsSince, Size

-----------------------------------------------------------------------------
(* The ring.                                                               *)

\* The remainder of a number less than twice the divisor.
LEMMA Remainder ==
  ASSUME NEW z \in Nat, z < 2 * PerfHistory
  PROVE  /\ z < PerfHistory => z % PerfHistory = z
         /\ z >= PerfHistory => z % PerfHistory = z - PerfHistory
<1> DEFINE q == z \div PerfHistory
           r == z % PerfHistory
<1>1. PerfHistory \in Nat \ {0}
  BY PerfAssumption DEF PerfAssumption
<1>2. q \in Nat /\ r \in 0 .. PerfHistory - 1 /\ z = PerfHistory * q + r
  BY <1>1
<1> HIDE DEF q, r
<1>3. q < 2
  <2>1. CASE q >= 2
    <3>1. PerfHistory * q >= PerfHistory * 2
      BY <1>1, <1>2, <2>1
    <3> QED
      BY <1>1, <1>2, <3>1
  <2> QED
    BY <1>2, <2>1
<1>4. CASE q = 0
  BY <1>1, <1>2, <1>4 DEF r
<1>5. CASE q = 1
  BY <1>1, <1>2, <1>5 DEF r
<1> QED
  BY <1>2, <1>3, <1>4, <1>5

LEMMA RemainderIn ==
  ASSUME NEW z \in Int
  PROVE  z % PerfHistory \in Index
BY PerfAssumption DEF PerfAssumption, Index

-----------------------------------------------------------------------------
(* The invariant and where the records are.                                *)

RingInv ==
  /\ head \in Index
  /\ count \in 0 .. PerfHistory
  /\ ring \in [Index -> Sample \cup {NoSample}]

\* The first of c records before h.
LEMMA StartCase ==
  ASSUME NEW h \in Index, NEW c \in 0 .. PerfHistory
  PROVE  (h - c + PerfHistory) % PerfHistory =
           IF c <= h /\ c < PerfHistory THEN h - c ELSE h - c + PerfHistory
<1>1. PerfHistory \in Nat \ {0} /\ h \in 0 .. PerfHistory - 1
  BY PerfAssumption DEF PerfAssumption, Index
<1>2. h - c + PerfHistory \in Nat /\ h - c + PerfHistory < 2 * PerfHistory
  BY <1>1
<1> QED
  BY <1>1, <1>2, Remainder

\* The record that is written, the first one of a report and the last one.
LEMMA Places ==
  ASSUME RingInv
  PROVE  /\ PerfHistory \in Nat \ {0}
         /\ head % PerfHistory = head
         /\ (head + 1) % PerfHistory = IF head = PerfHistory - 1 THEN 0 ELSE head + 1
         /\ Start = IF count <= head /\ count < PerfHistory
                    THEN head - count
                    ELSE head - count + PerfHistory
<1>1. PerfHistory \in Nat \ {0} /\ head \in 0 .. PerfHistory - 1 /\ count \in 0 .. PerfHistory
  BY PerfAssumption DEF PerfAssumption, RingInv, Index
<1>2. head % PerfHistory = head
  BY <1>1, Remainder
<1>3. (head + 1) % PerfHistory = IF head = PerfHistory - 1 THEN 0 ELSE head + 1
  BY <1>1, Remainder
<1>5. Start = IF count <= head /\ count < PerfHistory
              THEN head - count
              ELSE head - count + PerfHistory
  BY StartCase DEF Start, RingInv
<1> QED
  BY <1>1, <1>2, <1>3, <1>5

\* What perf_record does, without remainders.
LEMMA RecordStep ==
  ASSUME RingInv, NEW x \in Sample, PerfRecord(x)
  PROVE  /\ PerfHistory \in Nat \ {0} /\ head \in 0 .. PerfHistory - 1
         /\ count \in 0 .. PerfHistory
         /\ head' = IF head = PerfHistory - 1 THEN 0 ELSE head + 1
         /\ head' \in 0 .. PerfHistory - 1
         /\ count' = IF count < PerfHistory THEN count + 1 ELSE count
         /\ ring' = [ring EXCEPT ![head] = x]
<1>1. /\ PerfHistory \in Nat \ {0} /\ head \in 0 .. PerfHistory - 1
      /\ count \in 0 .. PerfHistory
  BY PerfAssumption DEF PerfAssumption, RingInv, Index
<1>2. head' = (head + 1) % PerfHistory /\ ring' = [ring EXCEPT ![head % PerfHistory] = x]
  BY Zenon DEF PerfRecord
<1>3. head % PerfHistory = head
  BY Places
<1>4. (head + 1) % PerfHistory = IF head = PerfHistory - 1 THEN 0 ELSE head + 1
  BY Places
<1>5. head' = IF head = PerfHistory - 1 THEN 0 ELSE head + 1
  BY <1>2, <1>4, Zenon
<1>6. ring' = [ring EXCEPT ![head] = x]
  BY <1>2, <1>3, Zenon
<1>7. count' = IF count < PerfHistory THEN count + 1 ELSE count
  BY DEF PerfRecord, Counted
<1> QED
  BY <1>1, <1>5, <1>6, <1>7

\* The same of the first record after a step.
LEMMA StartNext ==
  ASSUME RingInv'
  PROVE  Start' = IF count' <= head' /\ count' < PerfHistory
                  THEN head' - count'
                  ELSE head' - count' + PerfHistory
<1>1. head' \in Index /\ count' \in 0 .. PerfHistory
  BY DEF RingInv
<1>2. Start' = (head' - count' + PerfHistory) % PerfHistory
  BY DEF Start
<1> QED
  BY <1>1, <1>2, StartCase

LEMMA InvInit == RingInit => RingInv
BY PerfAssumption DEF PerfAssumption, RingInit, RingInv, Zeros, Index

LEMMA InvNext == RingInv /\ [RingNext]_perfVars => RingInv'
<1> SUFFICES ASSUME RingInv, [RingNext]_perfVars
             PROVE  RingInv'
  OBVIOUS
<1>1. CASE PerfInit
  BY <1>1, PerfAssumption DEF PerfAssumption, PerfInit, RingInv, Zeros, Index
<1>2. ASSUME NEW x \in Sample, PerfRecord(x)
      PROVE  RingInv'
  BY <1>2, RecordStep DEF RingInv, Index
<1>3. CASE UNCHANGED perfVars
  BY <1>3 DEF RingInv, perfVars
<1> QED
  BY <1>1, <1>2, <1>3 DEF RingNext

-----------------------------------------------------------------------------
(* One more record.                                                        *)

\* A list given element by element.
LEMMA ListOf ==
  ASSUME NEW S, NEW n \in Nat, NEW f, NEW g, f = [i \in 1 .. n |-> g[i]],
         \A i \in 1 .. n : g[i] \in S
  PROVE  f \in Seq(S) /\ Len(f) = n
OBVIOUS

\* The report is a sequence of count records.
LEMMA ReportSeq ==
  ASSUME RingInv
  PROVE  /\ Report \in Seq(Sample \cup {NoSample})
         /\ Len(Report) = count
         /\ DOMAIN Report = 1 .. count
         /\ \A i \in 1 .. count : Report[i] = ring[(Start + i - 1) % PerfHistory]
<1>1. ASSUME NEW i \in 1 .. count
      PROVE  (Start + i - 1) % PerfHistory \in Index
  <2>1. Start \in Int /\ PerfHistory \in Nat \ {0}
    <3>1. PerfHistory \in Nat \ {0} /\ head \in Int /\ count \in Int
      BY PerfAssumption DEF PerfAssumption, RingInv, Index
    <3> QED
      BY <3>1, Places
  <2> QED
    BY <2>1, RemainderIn
<1>2. \A i \in 1 .. count : ring[(Start + i - 1) % PerfHistory] \in Sample \cup {NoSample}
  BY <1>1 DEF RingInv
<1>3. count \in Nat
  BY Places DEF RingInv
<1> QED
  BY <1>2, <1>3 DEF Report

\* The same after a step.
LEMMA ReportNext ==
  ASSUME RingInv'
  PROVE  Report' \in Seq(Sample \cup {NoSample}) /\ Len(Report') = count'
<1>1. /\ PerfHistory \in Nat \ {0} /\ count' \in Nat
      /\ head' \in Int /\ Start' \in Int
      /\ ring' \in [Index -> Sample \cup {NoSample}]
  BY PerfAssumption, StartNext DEF PerfAssumption, RingInv, Index
<1>2. ASSUME NEW i \in 1 .. count'
      PROVE  (Start' + i - 1) % PerfHistory \in Index
  BY <1>1, RemainderIn
<1>3. \A i \in 1 .. count' : ring'[(Start' + i - 1) % PerfHistory] \in Sample \cup {NoSample}
  BY <1>1, <1>2
<1> DEFINE g == [i \in 1 .. count' |-> ring'[(Start' + i - 1) % PerfHistory]]
<1>4. \A i \in 1 .. count' : g[i] \in Sample \cup {NoSample}
  BY <1>3
<1>5. Report' = g
  BY DEF Report
<1>6. g = [i \in 1 .. count' |-> g[i]]
  OBVIOUS
<1> HIDE DEF g
<1> QED
  BY <1>1, <1>4, <1>5, <1>6, ListOf

\* A ring that is not full: the report gets longer.
LEMMA RecordMore ==
  ASSUME RingInv, RingInv', NEW x \in Sample, PerfRecord(x), count < PerfHistory
  PROVE  Report' = Append(Report, x)
<1>1. /\ PerfHistory \in Nat \ {0} /\ head \in 0 .. PerfHistory - 1
      /\ count \in 0 .. PerfHistory - 1
      /\ count' = count + 1
      /\ head' = IF head = PerfHistory - 1 THEN 0 ELSE head + 1
      /\ ring' = [ring EXCEPT ![head] = x]
  BY RecordStep
<1>2. Start' = Start
  BY <1>1, Places, StartNext
<1>3. Start \in 0 .. PerfHistory - 1
  BY <1>1, Places
<1>4. ASSUME NEW i \in 1 .. count + 1
      PROVE  (Start + i - 1) % PerfHistory = head <=> i = count + 1
  <2>1. /\ Start + (i - 1) < PerfHistory => (Start + i - 1) % PerfHistory = Start + i - 1
        /\ Start + (i - 1) >= PerfHistory =>
             (Start + i - 1) % PerfHistory = Start + i - 1 - PerfHistory
    BY <1>1, <1>3, Remainder
  <2> QED
    BY <1>1, <1>3, <2>1, Places
<1>5. ASSUME NEW i \in 1 .. count + 1
      PROVE  Report'[i] = Append(Report, x)[i]
  <2>1. Report'[i] = ring'[(Start + i - 1) % PerfHistory]
    BY <1>1, <1>2 DEF Report
  <2>2. (Start + i - 1) % PerfHistory \in Index
    BY <1>1, <1>3 DEF Index
  <2>3. CASE i = count + 1
    BY <1>1, <1>4, <2>1, <2>2, <2>3, ReportSeq DEF RingInv
  <2>4. CASE i # count + 1
    BY <1>1, <1>4, <2>1, <2>2, <2>4, ReportSeq DEF RingInv
  <2> QED
    BY <2>3, <2>4
<1>6. /\ Append(Report, x) \in Seq(Sample \cup {NoSample})
      /\ Len(Append(Report, x)) = count + 1
  BY <1>1, ReportSeq
<1>7. Report' \in Seq(Sample \cup {NoSample}) /\ Len(Report') = count + 1
  BY <1>1, ReportNext
<1> QED
  BY <1>1, <1>5, <1>6, <1>7

\* A full ring: the oldest record makes room.
LEMMA RecordOver ==
  ASSUME RingInv, RingInv', NEW x \in Sample, PerfRecord(x), count = PerfHistory
  PROVE  Report' = Append(Tail(Report), x)
<1>1. /\ PerfHistory \in Nat \ {0} /\ head \in 0 .. PerfHistory - 1
      /\ count' = count
      /\ head' = IF head = PerfHistory - 1 THEN 0 ELSE head + 1
      /\ head' \in 0 .. PerfHistory - 1
      /\ ring' = [ring EXCEPT ![head] = x]
  BY RecordStep
<1>2. Start = head /\ Start' = head'
  BY <1>1, Places, StartNext
<1>3. ASSUME NEW i \in 1 .. count
      PROVE  /\ (head' + i - 1) % PerfHistory \in Index
             /\ i = count => (head' + i - 1) % PerfHistory = head
             /\ i # count => /\ (head' + i - 1) % PerfHistory # head
                             /\ (head' + i - 1) % PerfHistory = (head + i) % PerfHistory
  <2>1. /\ head' + (i - 1) < PerfHistory => (head' + i - 1) % PerfHistory = head' + i - 1
        /\ head' + (i - 1) >= PerfHistory =>
             (head' + i - 1) % PerfHistory = head' + i - 1 - PerfHistory
    BY <1>1, Remainder
  <2>2. /\ head + i < PerfHistory => (head + i) % PerfHistory = head + i
        /\ head + i >= PerfHistory /\ i # count => (head + i) % PerfHistory = head + i - PerfHistory
    BY <1>1, Remainder
  <2> QED
    BY <1>1, <2>1, <2>2 DEF Index
<1>4. /\ Report \in Seq(Sample \cup {NoSample}) /\ Len(Report) = count /\ count > 0
      /\ Tail(Report) \in Seq(Sample \cup {NoSample})
      /\ Len(Tail(Report)) = count - 1
      /\ \A i \in 1 .. count - 1 : Tail(Report)[i] = Report[i + 1]
  BY <1>1, ReportSeq
<1>5. ASSUME NEW i \in 1 .. count
      PROVE  Report'[i] = Append(Tail(Report), x)[i]
  <2>1. Report'[i] = ring'[(head' + i - 1) % PerfHistory]
    BY <1>1, <1>2 DEF Report
  <2>2. CASE i = count
    <3>1. Report'[i] = ring'[head]
      BY <1>3, <2>1, <2>2
    <3>2. ring'[head] = x
      BY <1>1 DEF RingInv, Index
    <3>3. Append(Tail(Report), x)[i] = x
      BY <1>1, <1>4, <2>2
    <3> QED
      BY <3>1, <3>2, <3>3
  <2>3. CASE i # count
    <3>1. i \in 1 .. count - 1 /\ i + 1 \in 1 .. count
      BY <1>1, <2>3
    <3>2. Report'[i] = ring[(head + i) % PerfHistory]
      BY <1>1, <1>3, <2>1, <2>3 DEF RingInv
    <3>3. Report[i + 1] = ring[(head + i) % PerfHistory]
      <4>1. Report[i + 1] = ring[(Start + (i + 1) - 1) % PerfHistory]
        BY <3>1, ReportSeq
      <4>2. Start + (i + 1) - 1 = head + i
        BY <1>1, <1>2
      <4> QED
        BY <4>1, <4>2
    <3>4. Append(Tail(Report), x)[i] = Tail(Report)[i]
      BY <1>4, <3>1
    <3> QED
      BY <1>4, <3>1, <3>2, <3>3, <3>4
  <2> QED
    BY <2>2, <2>3
<1>6. /\ Append(Tail(Report), x) \in Seq(Sample \cup {NoSample})
      /\ Len(Append(Tail(Report), x)) = count
  BY <1>1, <1>4
<1>7. Report' \in Seq(Sample \cup {NoSample}) /\ Len(Report') = count
  BY <1>1, ReportNext
<1> QED
  BY <1>1, <1>5, <1>6, <1>7

-----------------------------------------------------------------------------
(* The theorems.                                                           *)

LEMMA AbstractInit == RingInit => R!Init
BY DEF RingInit, R!Init, Report

LEMMA AbstractNext == RingInv /\ RingInv' /\ [RingNext]_perfVars => [R!Next]_Report
<1> SUFFICES ASSUME RingInv, RingInv', [RingNext]_perfVars
             PROVE  [R!Next]_Report
  OBVIOUS
<1>1. CASE PerfInit
  <2>1. Report' = <<>>
    BY <1>1 DEF PerfInit, Report
  <2> QED
    BY <2>1 DEF R!Next, R!Clear
<1>2. ASSUME NEW x \in Sample, PerfRecord(x)
      PROVE  R!Add(x)
  <2>1. Len(Report) = count /\ count \in 0 .. PerfHistory /\ PerfHistory \in Nat \ {0}
    BY ReportSeq, Places DEF RingInv
  <2>2. CASE count < PerfHistory
    BY <1>2, <2>1, <2>2, RecordMore DEF R!Add
  <2>3. CASE count = PerfHistory
    BY <1>2, <2>1, <2>3, RecordOver DEF R!Add
  <2> QED
    BY <2>1, <2>2, <2>3
<1>3. CASE UNCHANGED perfVars
  BY <1>3 DEF perfVars, Report, Start
<1> QED
  BY <1>1, <1>2, <1>3 DEF RingNext, R!Next

\* The inductive invariant of the ring.
THEOREM RingTyped == RingSpec => []RingInv
<1> QED
  BY InvInit, InvNext, PTL DEF RingSpec

\* For a ring of any length: what perf_report prints is at all times the last
\* samples perf_record was given since perf_init, oldest first, as many as
\* the ring has room for.
THEOREM RingKeepsRecent == RingSpec => RingIsRecent
<1>1. RingSpec => []RingInv
  BY RingTyped
<1> QED
  BY <1>1, AbstractInit, AbstractNext, PTL DEF RingSpec, RingIsRecent, R!Spec

LEMMA NewestFact == RingInv => NewestIsLast
<1> SUFFICES ASSUME RingInv, count > 0
             PROVE  Newest = Report[count]
  BY DEF NewestIsLast
<1>1. /\ PerfHistory \in Nat \ {0} /\ head \in 0 .. PerfHistory - 1
      /\ count \in 1 .. PerfHistory
  BY Places DEF RingInv, Index
<1>2. Report[count] = ring[(Start + count - 1) % PerfHistory]
  BY <1>1, ReportSeq
<1>3. (Start + count - 1) % PerfHistory = (head - 1 + PerfHistory) % PerfHistory
  <2>1. CASE Start + count = head
    <3>1. /\ Start + count - 1 = head - 1
          /\ head > 0
      BY <1>1, <2>1, Places
    <3> QED
      BY <1>1, <3>1, Remainder
  <2>2. CASE Start + count = head + PerfHistory
    <3>1. Start + count - 1 = head - 1 + PerfHistory
      BY <1>1, <2>2, Places
    <3> QED
      BY <3>1
  <2> QED
    BY <1>1, <2>1, <2>2, Places
<1> QED
  BY <1>2, <1>3 DEF Newest

\* For a ring of any length: perf_last prints the last line of the report.
THEOREM NewestRight == RingSpec => []NewestIsLast
<1> QED
  BY NewestFact, RingTyped, PTL

-----------------------------------------------------------------------------
(* The lists of the page.                                                  *)

Shown == Op \cup {PerfLine}

RecordsTyped ==
  /\ records \in Seq(Shown)
  /\ totalOps \in Nat
  /\ entries \in Seq(Op) /\ Len(entries) <= LogCap
  /\ cmdHistory \in Seq(Line) /\ Len(cmdHistory) <= HistoryCap
  /\ input \in Line \cup {NoLine}

RecordsInv == RecordsTyped /\ TotalsInStep /\ PanelsInStep /\ WalkShows

-----------------------------------------------------------------------------
(* Lists with a limit.                                                     *)

LEMMA PushedLen ==
  ASSUME NEW S, NEW list \in Seq(S), NEW cap \in Nat \ {0}, NEW x \in S,
         Len(list) <= cap
  PROVE  /\ Pushed(list, cap, x) \in Seq(S)
         /\ Len(Pushed(list, cap, x)) = IF Len(list) < cap THEN Len(list) + 1 ELSE cap
<1>1. /\ Append(list, x) \in Seq(S)
      /\ Len(Append(list, x)) = Len(list) + 1
      /\ Len(list) \in Nat
  OBVIOUS
<1>2. CASE Len(list) < cap
  BY <1>1, <1>2 DEF Pushed
<1>3. CASE Len(list) = cap
  <2>1. /\ Tail(Append(list, x)) \in Seq(S)
        /\ Len(Tail(Append(list, x))) = cap
    BY <1>1, <1>3
  <2> QED
    BY <1>1, <1>3, <2>1 DEF Pushed
<1> QED
  BY <1>1, <1>2, <1>3

LEMMA TailAppend ==
  ASSUME NEW S, NEW list \in Seq(S), NEW x \in S, Len(list) > 0
  PROVE  Tail(Append(list, x)) = Append(Tail(list), x)
<1>1. /\ Append(list, x) \in Seq(S) /\ Len(Append(list, x)) = Len(list) + 1
      /\ Len(list) \in Nat
      /\ Append(list, x)[Len(list) + 1] = x
      /\ \A i \in 1 .. Len(list) : Append(list, x)[i] = list[i]
  OBVIOUS
<1>2. /\ Tail(list) \in Seq(S) /\ Len(Tail(list)) = Len(list) - 1
      /\ \A i \in 1 .. Len(list) - 1 : Tail(list)[i] = list[i + 1]
  BY <1>1
<1>3. /\ Tail(Append(list, x)) \in Seq(S) /\ Len(Tail(Append(list, x))) = Len(list)
      /\ \A i \in 1 .. Len(list) : Tail(Append(list, x))[i] = Append(list, x)[i + 1]
  BY <1>1
<1>4. /\ Append(Tail(list), x) \in Seq(S) /\ Len(Append(Tail(list), x)) = Len(list)
      /\ Append(Tail(list), x)[Len(list)] = x
      /\ \A i \in 1 .. Len(list) - 1 : Append(Tail(list), x)[i] = Tail(list)[i]
  BY <1>1, <1>2
<1>5. ASSUME NEW i \in 1 .. Len(list)
      PROVE  Tail(Append(list, x))[i] = Append(Tail(list), x)[i]
  <2>1. CASE i = Len(list)
    BY <1>1, <1>3, <1>4, <2>1
  <2>2. CASE i # Len(list)
    <3>1. i \in 1 .. Len(list) - 1 /\ i + 1 \in 1 .. Len(list)
      BY <1>1, <2>2
    <3> QED
      BY <1>1, <1>2, <1>3, <1>4, <3>1
  <2> QED
    BY <2>1, <2>2
<1> QED
  BY <1>3, <1>4, <1>5, SeqEqual

\* All but the last item.
LEMMA FrontFacts ==
  ASSUME NEW S, NEW list \in Seq(S), Len(list) > 0
  PROVE  /\ Front(list) \in Seq(S) /\ Len(Front(list)) = Len(list) - 1
         /\ \A i \in 1 .. Len(list) - 1 : Front(list)[i] = list[i]
<1>1. Len(list) \in Nat /\ Front(list) = SubSeq(list, 1, Len(list) - 1)
  BY DEF Front
<1>2. \A i \in 1 .. Len(list) - 1 : i \in 1 .. Len(list) /\ list[i] \in S
  BY <1>1
<1>3. SubSeq(list, 1, Len(list) - 1) = [i \in 1 .. Len(list) - 1 |-> list[i]]
  <2>1. SubSeq(list, 1, Len(list) - 1) =
          [i \in 1 .. (1 + (Len(list) - 1) - 1) |-> list[(1 + i - 1)]]
    BY <1>1
  <2> QED
    BY <1>1, <2>1
<1> DEFINE f == [i \in 1 .. Len(list) - 1 |-> list[i]]
<1>4. f \in Seq(S) /\ Len(f) = Len(list) - 1 /\ \A i \in 1 .. Len(list) - 1 : f[i] = list[i]
  BY <1>1, <1>2
<1>5. Front(list) = f
  BY <1>1, <1>3
<1> HIDE DEF f
<1> QED
  BY <1>4, <1>5

\* What the abstract list of the last items does.
LEMMA PushedIsAdd ==
  ASSUME NEW S, NEW list \in Seq(S), NEW cap \in Nat \ {0}, NEW x \in S,
         Len(list) <= cap
  PROVE  Pushed(list, cap, x) =
           IF Len(list) < cap THEN Append(list, x) ELSE Append(Tail(list), x)
<1>1. /\ Append(list, x) \in Seq(S)
      /\ Len(Append(list, x)) = Len(list) + 1
      /\ Len(list) \in Nat
  OBVIOUS
<1>2. CASE Len(list) < cap
  BY <1>1, <1>2 DEF Pushed
<1>3. CASE Len(list) = cap
  <2>1. Tail(Append(list, x)) = Append(Tail(list), x)
    BY <1>3, TailAppend
  <2>2. Pushed(list, cap, x) = Tail(Append(list, x))
    BY <1>1, <1>3 DEF Pushed
  <2> QED
    BY <1>3, <2>1, <2>2
<1> QED
  BY <1>1, <1>2, <1>3

LEMMA Limits == {PerfCap, LogCap, HistoryCap} \subseteq Nat \ {0}
BY RecordsAssumption DEF RecordsAssumption

-----------------------------------------------------------------------------
(* The parts of the handlers.                                              *)

\* A sample is counted and kept, and the table shows it.
LEMMA SampledInv ==
  ASSUME RecordsInv, NEW x \in Shown, Sampled(x), RefreshPerfTab
  PROVE  /\ records' \in Seq(Shown) /\ totalOps' \in Nat
         /\ TotalsInStep'
         /\ records' # <<>> => perfTable' = records'
<1>1. PerfCap \in Nat \ {0}
  BY Limits
<1>2. records \in Seq(Shown) /\ Len(records) <= PerfCap /\ totalOps \in Nat
  BY <1>1 DEF RecordsInv, RecordsTyped, TotalsInStep
<1>3. /\ records' \in Seq(Shown)
      /\ Len(records') = IF Len(records) < PerfCap THEN Len(records) + 1 ELSE PerfCap
  BY <1>1, <1>2, PushedLen DEF Sampled
<1>4. totalOps' = totalOps + 1
  BY DEF Sampled
<1>5. TotalsInStep'
  BY <1>1, <1>2, <1>3, <1>4 DEF RecordsInv, TotalsInStep
<1> QED
  BY <1>2, <1>3, <1>4, <1>5 DEF RefreshPerfTab

\* A log line is kept and shown.
LEMMA LoggedInv ==
  ASSUME RecordsInv, NEW x \in Op, FsLog(x)
  PROVE  /\ entries' \in Seq(Op) /\ Len(entries') <= LogCap
         /\ entries' # <<>> => logPanel' = entries'
<1>1. LogCap \in Nat \ {0} /\ entries \in Seq(Op) /\ Len(entries) <= LogCap /\ Len(entries) \in Nat
  BY Limits DEF RecordsInv, RecordsTyped
<1> QED
  BY <1>1, PushedLen DEF FsLog

\* No sample and no log line.
LEMMA QuietInv ==
  ASSUME RecordsInv, UNCHANGED <<records, totalOps>>, RefreshPerfTab
  PROVE  /\ records' \in Seq(Shown) /\ totalOps' \in Nat
         /\ TotalsInStep'
         /\ records' # <<>> => perfTable' = records'
BY DEF RecordsInv, RecordsTyped, TotalsInStep, PanelsInStep, RefreshPerfTab

\* The line goes into the history and the walk starts over.
LEMMA RememberInv ==
  ASSUME RecordsInv, NEW line \in Line, Remember(line)
  PROVE  /\ cmdHistory' \in Seq(Line) /\ Len(cmdHistory') <= HistoryCap
         /\ input' \in Line \cup {NoLine}
         /\ WalkShows'
<1> DEFINE S == Line
           longer == <<line>> \o cmdHistory
<1> HIDE DEF S, longer
<1>1. cmdHistory \in Seq(S) /\ line \in S
  BY DEF RecordsInv, RecordsTyped, S
<1>2. longer \in Seq(S) /\ Len(longer) = Len(cmdHistory) + 1 /\ Len(cmdHistory) \in Nat
  BY <1>1 DEF longer
<1>3. Front(longer) \in Seq(S) /\ Len(Front(longer)) = Len(cmdHistory)
  BY <1>2, FrontFacts
<1>4. cmdHistory' \in Seq(S) /\ Len(cmdHistory') <= HistoryCap
  <2>1. HistoryCap \in Nat /\ Len(cmdHistory) <= HistoryCap
    BY Limits DEF RecordsInv, RecordsTyped
  <2>2. cmdHistory' = IF Len(longer) > HistoryCap THEN Front(longer) ELSE longer
    BY DEF Remember, longer
  <2> QED
    BY <1>2, <1>3, <2>1, <2>2
<1>5. historyIdx' = -1
  BY DEF Remember
<1>6. Len(cmdHistory') \in Nat
  BY <1>4
<1>7. input' = NoLine
  BY DEF Remember
<1> QED
  BY <1>4, <1>5, <1>6, <1>7 DEF WalkShows, S

LEMMA RunInv ==
  ASSUME RecordsInv, NEW line \in Line, RunCmd(line)
  PROVE  RecordsInv'
<1>1. /\ cmdHistory' \in Seq(Line) /\ Len(cmdHistory') <= HistoryCap
      /\ input' \in Line \cup {NoLine}
      /\ WalkShows'
  BY RememberInv DEF RunCmd
<1>2. RefreshPerfTab /\ Recorded(line)
  BY DEF RunCmd
<1>3. ASSUME line \in Op, FsLog(line), Sampled(line)
      PROVE  RecordsInv'
  <2>1. line \in Shown
    BY <1>3 DEF Shown
  <2> QED
    BY <1>1, <1>2, <1>3, <2>1, SampledInv, LoggedInv DEF RecordsInv, RecordsTyped, PanelsInStep
<1>4. ASSUME NoLog, UNCHANGED <<records, totalOps>>
      PROVE  RecordsInv'
  BY <1>1, <1>2, <1>4, QuietInv DEF RecordsInv, RecordsTyped, PanelsInStep, NoLog
<1>5. ASSUME line = PerfLine, NoLog, Sampled(line)
      PROVE  RecordsInv'
  <2>1. line \in Shown
    BY <1>5 DEF Shown
  <2> QED
    BY <1>1, <1>2, <1>5, <2>1, SampledInv DEF RecordsInv, RecordsTyped, PanelsInStep, NoLog
<1> QED
  BY <1>2, <1>3, <1>4, <1>5 DEF Recorded

-----------------------------------------------------------------------------
(* The theorems.                                                           *)

LEMMA RecordsInvInit == RecordsInit => RecordsInv
BY Limits DEF RecordsInit, RecordsInv, RecordsTyped, TotalsInStep, PanelsInStep, WalkShows

LEMMA RecordsInvNext == RecordsInv /\ [RecordsNext]_recordVars => RecordsInv'
<1> SUFFICES ASSUME RecordsInv, [RecordsNext]_recordVars
             PROVE  RecordsInv'
  OBVIOUS
<1> USE DEF RecordsInv, RecordsTyped, TotalsInStep, PanelsInStep, WalkShows
<1>1. ASSUME NEW line \in Line, RunCmd(line)
      PROVE  RecordsInv'
  BY <1>1, RunInv
<1>2. ASSUME NEW line \in Line, Type(line)
      PROVE  RecordsInv'
  BY <1>2 DEF Type, listVars
<1>3. CASE Submit
  BY <1>3, RunInv DEF Submit
<1>4. CASE ReadDirectly
  <2>1. ReadLine \in Op /\ ReadLine \in Shown
    BY RecordsAssumption DEF RecordsAssumption, Shown
  <2> QED
    BY <1>4, <2>1, SampledInv, LoggedInv DEF ReadDirectly, fieldVars
<1>5. CASE ClearLog
  BY <1>5, Limits DEF ClearLog, fieldVars
<1>6. CASE Reset
  BY <1>6, Limits DEF Reset, fieldVars
<1>7. CASE ArrowUp
  BY <1>7 DEF ArrowUp, Show, listVars
<1>8. CASE ArrowDown
  BY <1>8 DEF ArrowDown, Show, listVars
<1>9. CASE UNCHANGED recordVars
  BY <1>9 DEF recordVars, listVars, fieldVars
<1> QED
  BY <1>1, <1>2, <1>3, <1>4, <1>5, <1>6, <1>7, <1>8, <1>9 DEF RecordsNext

\* The inductive invariant of the page's records.
THEOREM RecordsInvariant == RecordsSpec => []RecordsInv
<1> QED
  BY RecordsInvInit, RecordsInvNext, PTL DEF RecordsSpec

\* For limits of any size: as many samples are kept as operations were
\* counted, up to the limit.
THEOREM TotalsRight == RecordsSpec => []TotalsInStep
<1>1. RecordsInv => TotalsInStep
  BY DEF RecordsInv
<1> QED
  BY <1>1, RecordsInvariant, PTL

\* For limits of any size: table and panel show what is kept unless nothing
\* is kept.
THEOREM PanelsRight == RecordsSpec => []PanelsInStep
<1>1. RecordsInv => PanelsInStep
  BY DEF RecordsInv
<1> QED
  BY <1>1, RecordsInvariant, PTL

\* For a history of any length: the walk never leaves the history, and an
\* unedited field shows the line the walk is at.
THEOREM WalkRight == RecordsSpec => []WalkShows
<1>1. RecordsInv => WalkShows
  BY DEF RecordsInv
<1> QED
  BY <1>1, RecordsInvariant, PTL

-----------------------------------------------------------------------------
(* The three lists and the list of the last items.                         *)

LEMMA SampledStep ==
  ASSUME RecordsInv, NEW x \in Shown, Sampled(x)
  PROVE  RecentOps!Next
<1>1. PerfCap \in Nat \ {0} /\ records \in Seq(Shown) /\ Len(records) <= PerfCap
  BY Limits DEF RecordsInv, RecordsTyped, TotalsInStep
<1>2. RecentOps!Add(x)
  BY <1>1, PushedIsAdd DEF Sampled, RecentOps!Add
<1> QED
  BY <1>2 DEF RecentOps!Next, Shown

LEMMA LoggedStep ==
  ASSUME RecordsInv, NEW x \in Op, FsLog(x)
  PROVE  RecentLog!Next
<1>1. LogCap \in Nat \ {0} /\ entries \in Seq(Op) /\ Len(entries) <= LogCap
  BY Limits DEF RecordsInv, RecordsTyped
<1>2. RecentLog!Add(x)
  BY <1>1, PushedIsAdd DEF FsLog, RecentLog!Add
<1> QED
  BY <1>2 DEF RecentLog!Next

\* The newest line comes first in the history and last in the abstract list.
LEMMA ReverseMore ==
  ASSUME NEW S, NEW list \in Seq(S), NEW x \in S
  PROVE  Reverse(<<x>> \o list) = Append(Reverse(list), x)
<1> DEFINE longer == <<x>> \o list
<1>1. /\ longer \in Seq(S) /\ Len(longer) = Len(list) + 1 /\ Len(list) \in Nat
      /\ longer[1] = x /\ \A i \in 1 .. Len(list) : longer[i + 1] = list[i]
  OBVIOUS
<1> HIDE DEF longer
<1>2. Reverse(longer) = [i \in 1 .. Len(list) + 1 |-> longer[(Len(list) + 1 - i) + 1]]
  BY <1>1 DEF Reverse
<1>3. Reverse(list) = [i \in 1 .. Len(list) |-> list[(Len(list) - i) + 1]]
  BY DEF Reverse
<1>4. Reverse(list) \in Seq(S) /\ Len(Reverse(list)) = Len(list)
  BY <1>1, <1>3
<1>5. ASSUME NEW i \in 1 .. Len(list) + 1
      PROVE  Reverse(longer)[i] = Append(Reverse(list), x)[i]
  <2>1. CASE i = Len(list) + 1
    BY <1>1, <1>2, <1>4, <2>1
  <2>2. CASE i # Len(list) + 1
    <3>1. i \in 1 .. Len(list) /\ (Len(list) - i) + 1 \in 1 .. Len(list)
      BY <1>1, <2>2
    <3>2. longer[((Len(list) - i) + 1) + 1] = list[(Len(list) - i) + 1]
      BY <1>1, <3>1
    <3> QED
      BY <1>1, <1>2, <1>3, <1>4, <3>1, <3>2
  <2> QED
    BY <2>1, <2>2
<1>6. Reverse(longer) \in Seq(S) /\ Len(Reverse(longer)) = Len(list) + 1
  BY <1>1, <1>2
<1>7. Append(Reverse(list), x) \in Seq(S) /\ Len(Append(Reverse(list), x)) = Len(list) + 1
  BY <1>1, <1>4
<1> QED
  BY <1>5, <1>6, <1>7, SeqEqual DEF longer

\* Dropping the last line drops the first of the reversed list.
LEMMA ReverseFront ==
  ASSUME NEW S, NEW list \in Seq(S), Len(list) > 0
  PROVE  Reverse(Front(list)) = Tail(Reverse(list))
<1>1. /\ Front(list) \in Seq(S) /\ Len(Front(list)) = Len(list) - 1 /\ Len(list) \in Nat
      /\ \A i \in 1 .. Len(list) - 1 : Front(list)[i] = list[i]
  BY FrontFacts
<1>2. Reverse(list) = [i \in 1 .. Len(list) |-> list[(Len(list) - i) + 1]]
  BY DEF Reverse
<1>3. Reverse(Front(list)) =
        [i \in 1 .. Len(list) - 1 |-> Front(list)[(Len(list) - 1 - i) + 1]]
  BY <1>1 DEF Reverse
<1>4. Reverse(list) \in Seq(S) /\ Len(Reverse(list)) = Len(list)
  BY <1>1, <1>2
<1>5. ASSUME NEW i \in 1 .. Len(list) - 1
      PROVE  Reverse(Front(list))[i] = Tail(Reverse(list))[i]
  <2>1. /\ i + 1 \in 1 .. Len(list)
        /\ (Len(list) - 1 - i) + 1 \in 1 .. Len(list) - 1
        /\ (Len(list) - (i + 1)) + 1 = (Len(list) - 1 - i) + 1
    BY <1>1
  <2>2. Reverse(Front(list))[i] = list[(Len(list) - 1 - i) + 1]
    BY <1>1, <1>3, <2>1
  <2>3. Tail(Reverse(list))[i] = Reverse(list)[i + 1]
    BY <1>1, <1>4
  <2>4. Reverse(list)[i + 1] = list[(Len(list) - (i + 1)) + 1]
    BY <1>2, <2>1
  <2> QED
    BY <2>1, <2>2, <2>3, <2>4
<1>6. Reverse(Front(list)) \in Seq(S) /\ Len(Reverse(Front(list))) = Len(list) - 1
  BY <1>1, <1>3
<1>7. Tail(Reverse(list)) \in Seq(S) /\ Len(Tail(Reverse(list))) = Len(list) - 1
  BY <1>1, <1>4
<1> QED
  BY <1>5, <1>6, <1>7, SeqEqual

LEMMA RememberStep ==
  ASSUME RecordsInv, NEW line \in Line, Remember(line)
  PROVE  RecentLines!Next
<1> DEFINE longer == <<line>> \o cmdHistory
<1>1. /\ HistoryCap \in Nat \ {0} /\ cmdHistory \in Seq(Line)
      /\ Len(cmdHistory) <= HistoryCap /\ Len(cmdHistory) \in Nat
  BY Limits DEF RecordsInv, RecordsTyped
<1>2. longer \in Seq(Line) /\ Len(longer) = Len(cmdHistory) + 1
  BY <1>1
<1>3. Reverse(longer) = Append(Reverse(cmdHistory), line)
  BY <1>1, ReverseMore
<1>4. /\ Reverse(cmdHistory) \in Seq(Line) /\ Len(Reverse(cmdHistory)) = Len(cmdHistory)
  BY <1>1 DEF Reverse
<1>5. cmdHistory' = IF Len(longer) > HistoryCap THEN Front(longer) ELSE longer
  BY DEF Remember
<1> HIDE DEF longer
<1>6. CASE Len(cmdHistory) < HistoryCap
  <2>1. Reverse(cmdHistory)' = Append(Reverse(cmdHistory), line)
    BY <1>1, <1>2, <1>3, <1>5, <1>6
  <2>2. RecentLines!Add(line)
    BY <1>4, <1>6, <2>1 DEF RecentLines!Add
  <2> QED
    BY <2>2 DEF RecentLines!Next
<1>7. CASE Len(cmdHistory) = HistoryCap
  <2>1. cmdHistory' = Front(longer)
    BY <1>1, <1>2, <1>5, <1>7
  <2>2. Reverse(Front(longer)) = Tail(Reverse(longer))
    BY <1>1, <1>2, ReverseFront
  <2>3. Tail(Append(Reverse(cmdHistory), line)) = Append(Tail(Reverse(cmdHistory)), line)
    BY <1>1, <1>4, <1>7, TailAppend
  <2>4. Reverse(cmdHistory)' = Append(Tail(Reverse(cmdHistory)), line)
    BY <1>3, <2>1, <2>2, <2>3
  <2>5. RecentLines!Add(line)
    BY <1>1, <1>4, <1>7, <2>4 DEF RecentLines!Add
  <2> QED
    BY <2>5 DEF RecentLines!Next
<1> QED
  BY <1>1, <1>6, <1>7

LEMMA ListsInit ==
  RecordsInit => RecentOps!Init /\ RecentLog!Init /\ RecentLines!Init
<1>1. Reverse(<<>>) = <<>>
  BY DEF Reverse
<1> QED
  BY <1>1 DEF RecordsInit, RecentOps!Init, RecentLog!Init, RecentLines!Init

LEMMA RunStep ==
  ASSUME RecordsInv, NEW line \in Line, RunCmd(line)
  PROVE  /\ [RecentOps!Next]_records
         /\ [RecentLog!Next]_entries
         /\ RecentLines!Next
<1>1. RecentLines!Next
  BY RememberStep DEF RunCmd
<1>2. Recorded(line)
  BY DEF RunCmd
<1>3. ASSUME line \in Op, FsLog(line), Sampled(line)
      PROVE  RecentOps!Next /\ RecentLog!Next
  BY <1>3, SampledStep, LoggedStep DEF Shown
<1>4. ASSUME NoLog, UNCHANGED <<records, totalOps>>
      PROVE  UNCHANGED <<records, entries>>
  BY <1>4 DEF NoLog
<1>5. ASSUME line = PerfLine, NoLog, Sampled(line)
      PROVE  RecentOps!Next /\ UNCHANGED entries
  BY <1>5, SampledStep DEF Shown, NoLog
<1> QED
  BY <1>1, <1>2, <1>3, <1>4, <1>5 DEF Recorded

LEMMA ListsNext ==
  RecordsInv /\ [RecordsNext]_recordVars =>
    /\ [RecentOps!Next]_records
    /\ [RecentLog!Next]_entries
    /\ [RecentLines!Next]_(Reverse(cmdHistory))
<1> SUFFICES ASSUME RecordsInv, [RecordsNext]_recordVars
             PROVE  /\ [RecentOps!Next]_records
                    /\ [RecentLog!Next]_entries
                    /\ [RecentLines!Next]_(Reverse(cmdHistory))
  OBVIOUS
<1>1. ASSUME NEW line \in Line, RunCmd(line)
      PROVE  /\ [RecentOps!Next]_records
             /\ [RecentLog!Next]_entries
             /\ RecentLines!Next
  BY <1>1, RunStep
<1>2. ASSUME NEW line \in Line, Type(line)
      PROVE  UNCHANGED <<records, entries, cmdHistory>>
  BY <1>2 DEF Type, listVars
<1>3. CASE Submit
  <2>1. input \in Line /\ RunCmd(input)
    BY <1>3 DEF Submit, RecordsInv, RecordsTyped
  <2> QED
    BY <2>1, RunStep
<1>4. CASE ReadDirectly
  <2>1. ReadLine \in Op /\ ReadLine \in Shown
    BY RecordsAssumption DEF RecordsAssumption, Shown
  <2> QED
    BY <1>4, <2>1, SampledStep, LoggedStep DEF ReadDirectly, fieldVars
<1>5. CASE ClearLog
  BY <1>5 DEF ClearLog, fieldVars, RecentLog!Next, RecentLog!Clear
<1>6. CASE Reset
  BY <1>6 DEF Reset, fieldVars, RecentLog!Next, RecentLog!Clear, RecentOps!Next, RecentOps!Clear
<1>7. CASE ArrowUp
  BY <1>7 DEF ArrowUp, listVars
<1>8. CASE ArrowDown
  BY <1>8 DEF ArrowDown, listVars
<1>9. CASE UNCHANGED recordVars
  BY <1>9 DEF recordVars, listVars, fieldVars
<1> QED
  BY <1>1, <1>2, <1>3, <1>4, <1>5, <1>6, <1>7, <1>8, <1>9 DEF RecordsNext

\* For limits of any size: the samples, the log and the history of the page
\* are at all times the last of what happened, each up to its own limit.
THEOREM ListsKeepRecent == RecordsSpec => ListsAreRecent
<1>1. RecordsSpec => []RecordsInv
  BY RecordsInvariant
<1> QED
  BY <1>1, ListsInit, ListsNext, PTL
     DEF RecordsSpec, ListsAreRecent, RecentOps!Spec, RecentLog!Spec, RecentLines!Spec

-----------------------------------------------------------------------------
(* The two programs.                                                       *)

\* What an action of the page does to the samples.
LEMMA SamplesStep ==
  ASSUME RecordsInv, RecordsNext
  PROVE  \/ \E x \in Shown : Sampled(x)
         \/ records' = <<>> /\ totalOps' = 0
         \/ UNCHANGED <<records, totalOps>>
<1>1. ASSUME NEW line \in Line, RunCmd(line)
      PROVE  (\E x \in Shown : Sampled(x)) \/ UNCHANGED <<records, totalOps>>
  BY <1>1 DEF RunCmd, Recorded, Shown
<1>2. ASSUME NEW line \in Line, Type(line)
      PROVE  UNCHANGED <<records, totalOps>>
  BY <1>2 DEF Type, listVars
<1>3. CASE Submit
  BY <1>1, <1>3 DEF Submit, RecordsInv, RecordsTyped
<1>4. CASE ReadDirectly
  BY <1>4, RecordsAssumption DEF RecordsAssumption, ReadDirectly, Shown
<1>5. CASE ClearLog
  BY <1>5 DEF ClearLog
<1>6. CASE Reset
  BY <1>6 DEF Reset
<1>7. CASE ArrowUp
  BY <1>7 DEF ArrowUp, listVars
<1>8. CASE ArrowDown
  BY <1>8 DEF ArrowDown, listVars
<1> QED
  BY <1>1, <1>2, <1>3, <1>4, <1>5, <1>6, <1>7, <1>8 DEF RecordsNext

\* A sample more: every earlier one is one further away.
LEMMA AgoNext ==
  ASSUME RecordsInv, NEW x \in Shown, Sampled(x)
  PROVE  /\ PerfCap \in Nat \ {0} /\ Len(records) \in 0 .. PerfCap
         /\ Len(records') = IF Len(records) < PerfCap THEN Len(records) + 1 ELSE PerfCap
         /\ Ago(0)' = x
         /\ \A d \in 1 .. Len(records') - 1 :
              Ago(d)' = Ago(d - 1) /\ d - 1 \in 0 .. Len(records) - 1
<1> DEFINE s == records
           t == records'
<1>1. /\ PerfCap \in Nat \ {0} /\ s \in Seq(Shown) /\ Len(s) \in 0 .. PerfCap
  BY Limits DEF RecordsInv, RecordsTyped, TotalsInStep
<1>2. t = IF Len(s) < PerfCap THEN Append(s, x) ELSE Append(Tail(s), x)
  BY <1>1, PushedIsAdd DEF Sampled
<1>3. \A d : Ago(d) = s[Len(s) - d] /\ Ago(d)' = t[Len(t) - d]
  BY DEF Ago
<1> HIDE DEF s, t
<1>4. /\ Len(t) = IF Len(s) < PerfCap THEN Len(s) + 1 ELSE PerfCap
      /\ t[Len(t)] = x
      /\ \A d \in 1 .. Len(t) - 1 : t[Len(t) - d] = s[Len(s) - (d - 1)] /\ d - 1 \in 0 .. Len(s) - 1
  <2>1. CASE Len(s) < PerfCap
    BY <1>1, <1>2, <2>1
  <2>2. CASE Len(s) = PerfCap
    <3>1. Tail(s) \in Seq(Shown) /\ Len(Tail(s)) = PerfCap - 1
          /\ \A k \in 1 .. PerfCap - 1 : Tail(s)[k] = s[k + 1]
      BY <1>1, <2>2
    <3>2. Len(t) = PerfCap /\ t[Len(t)] = x /\ \A k \in 1 .. PerfCap - 1 : t[k] = s[k + 1]
      BY <1>1, <1>2, <2>2, <3>1
    <3>3. ASSUME NEW d \in 1 .. PerfCap - 1
          PROVE  t[PerfCap - d] = s[PerfCap - (d - 1)] /\ d - 1 \in 0 .. PerfCap - 1
      <4>1. PerfCap - d \in 1 .. PerfCap - 1 /\ PerfCap - d + 1 = PerfCap - (d - 1)
        BY <1>1
      <4> QED
        BY <1>1, <3>2, <4>1
    <3> QED
      BY <1>1, <2>2, <3>2, <3>3
  <2> QED
    BY <1>1, <2>1, <2>2
<1>5. Len(t) - 0 = Len(t)
  BY <1>1, <1>4
<1> QED
  BY <1>1, <1>3, <1>4, <1>5 DEF s, t

\* How many of the samples before an earlier one are operations.
LEMMA OpsNext ==
  ASSUME RecordsInv, NEW x \in Shown, Sampled(x), NEW d \in 1 .. Len(records') - 1
  PROVE  /\ OpsSince(d - 1) \in 0 .. d - 1
         /\ OpsSince(d)' = OpsSince(d - 1) + (IF x # PerfLine THEN 1 ELSE 0)
<1> DEFINE n == d - 1
           A == {e \in 0 .. n - 1 : Ago(e) # PerfLine}
           B == {e \in 0 .. d - 1 : Ago(e)' # PerfLine}
           b == x # PerfLine
<1>1. /\ Len(records') \in Nat /\ Ago(0)' = x
      /\ \A k \in 1 .. Len(records') - 1 : Ago(k)' = Ago(k - 1)
  BY AgoNext
<1>2. n \in Nat /\ A \in SUBSET (0 .. n - 1) /\ b \in BOOLEAN
  BY <1>1
<1>3. \A k : k \in B <=> (k = 0 /\ b) \/ (k \in 1 .. n /\ k - 1 \in A)
  <2>1. ASSUME NEW k \in 1 .. d - 1
        PROVE  k \in B <=> k - 1 \in A
    BY <1>1, <2>1
  <2>2. 0 \in B <=> b
    BY <1>1
  <2>3. \A k : k \in B => k \in 0 .. d - 1
    OBVIOUS
  <2> HIDE DEF A, B, b
  <2> QED
    BY <1>1, <2>1, <2>2, <2>3
<1>4. OpsSince(d - 1) = Size(A) /\ OpsSince(d)' = Size(B)
  BY OpsSize
<1>5. n = d - 1 /\ (b <=> x # PerfLine)
  OBVIOUS
<1> HIDE DEF n, A, B, b
<1>6. Size(A) \in 0 .. n /\ Size(B) = Size(A) + (IF b THEN 1 ELSE 0)
  BY ONLY <1>2, <1>3, ShiftCount
<1> QED
  BY <1>4, <1>5, <1>6

\* The samples of the page and the report of the C program: the operations
\* among the samples end the report.
Tied ==
  /\ count <= Len(records)
  /\ \A d \in 0 .. Len(records) - 1 :
       Ago(d) # PerfLine => OpsSince(d) < count /\ Report[count - OpsSince(d)] = Ago(d)

BothInv == RecordsInv /\ RingInv /\ Tied

\* A report after one more operation, read from its end.
LEMMA ReportAgo ==
  ASSUME RingInv, RingInv', NEW x \in Sample, PerfRecord(x)
  PROVE  /\ PerfHistory \in Nat \ {0} /\ count \in 0 .. PerfHistory
         /\ count' = IF count < PerfHistory THEN count + 1 ELSE count
         /\ Report'[count'] = x
         /\ \A k \in 0 .. count - 1 : k + 1 < count' => Report'[count' - (k + 1)] = Report[count - k]
<1>1. /\ PerfHistory \in Nat \ {0} /\ count \in 0 .. PerfHistory
      /\ count' = IF count < PerfHistory THEN count + 1 ELSE count
  BY RecordStep
<1>2. Report \in Seq(Sample \cup {NoSample}) /\ Len(Report) = count
  BY ReportSeq
<1>3. CASE count < PerfHistory
  <2>1. Report' = Append(Report, x)
    BY <1>3, RecordMore
  <2> QED
    BY <1>1, <1>2, <1>3, <2>1
<1>4. CASE count = PerfHistory
  <2>1. Report' = Append(Tail(Report), x)
    BY <1>4, RecordOver
  <2>2. Tail(Report) \in Seq(Sample \cup {NoSample}) /\ Len(Tail(Report)) = count - 1
        /\ \A k \in 1 .. count - 1 : Tail(Report)[k] = Report[k + 1]
    BY <1>1, <1>2, <1>4
  <2> QED
    BY <1>1, <1>2, <1>4, <2>1, <2>2
<1> QED
  BY <1>1, <1>3, <1>4

\* Nothing is between a sample and the end but the samples after it.
LEMMA OpsSinceLast == OpsSince(0) = 0 /\ OpsSince(0)' = 0
<1>1. {e \in 0 .. 0 - 1 : Ago(e) # PerfLine} = {}
  OBVIOUS
<1>2. {e \in 0 .. 0 - 1 : Ago(e)' # PerfLine} = {}
  OBVIOUS
<1> QED
  BY <1>1, <1>2, EmptySize, OpsSize

\* An operation, which both programs record.
LEMMA TiedOp ==
  ASSUME BothInv, RingInv', NEW x \in Op, Sampled(x), PerfRecord(x), x # PerfLine
  PROVE  Tied'
<1>1. x \in Shown /\ x \in Sample /\ PerfCap = PerfHistory
  BY SameAssumption DEF SameAssumption, Shown
<1>2. /\ PerfCap \in Nat \ {0} /\ Len(records) \in 0 .. PerfCap
      /\ Len(records') = IF Len(records) < PerfCap THEN Len(records) + 1 ELSE PerfCap
      /\ Ago(0)' = x
      /\ \A d \in 1 .. Len(records') - 1 :
           Ago(d)' = Ago(d - 1) /\ d - 1 \in 0 .. Len(records) - 1
  BY <1>1, AgoNext DEF BothInv
<1>3. /\ count \in 0 .. PerfHistory
      /\ count' = IF count < PerfHistory THEN count + 1 ELSE count
      /\ Report'[count'] = x
      /\ \A k \in 0 .. count - 1 : k + 1 < count' => Report'[count' - (k + 1)] = Report[count - k]
  BY <1>1, ReportAgo DEF BothInv
<1>4. count <= Len(records) /\ count' <= Len(records')
  BY <1>1, <1>2, <1>3 DEF BothInv, Tied
<1>5. ASSUME NEW d \in 0 .. Len(records') - 1, Ago(d)' # PerfLine
      PROVE  OpsSince(d)' < count' /\ Report'[count' - OpsSince(d)'] = Ago(d)'
  <2>1. CASE d = 0
    <3>1. OpsSince(d)' = 0 /\ Ago(d)' = x
      BY <1>2, <2>1, OpsSinceLast
    <3> QED
      BY <1>1, <1>2, <1>3, <3>1
  <2>2. CASE d # 0
    <3> DEFINE e == d - 1
               k == OpsSince(e)
    <3>1. d \in 1 .. Len(records') - 1 /\ e \in 0 .. Len(records) - 1 /\ Ago(d)' = Ago(e)
      BY <1>2, <2>2
    <3>2. k \in 0 .. d - 1 /\ OpsSince(d)' = k + 1
      <4>1. /\ OpsSince(d - 1) \in 0 .. d - 1
            /\ OpsSince(d)' = OpsSince(d - 1) + (IF x # PerfLine THEN 1 ELSE 0)
        BY <1>1, <3>1, OpsNext DEF BothInv
      <4> QED
        BY <4>1
    <3>3. k < count /\ Report[count - k] = Ago(e)
      BY <1>5, <3>1 DEF BothInv, Tied
    <3> HIDE DEF k, e
    <3>4. k + 1 < count'
      BY <1>1, <1>2, <1>3, <3>1, <3>2, <3>3
    <3>5. Report'[count' - (k + 1)] = Report[count - k]
      BY <1>3, <3>2, <3>3, <3>4
    <3> QED
      BY <3>1, <3>2, <3>3, <3>4, <3>5
  <2> QED
    BY <2>1, <2>2
<1> QED
  BY <1>4, <1>5 DEF Tied

\* A report of the page, which the C program does not record.
LEMMA TiedReport ==
  ASSUME BothInv, Sampled(PerfLine), UNCHANGED perfVars
  PROVE  Tied'
<1>1. PerfLine \in Shown /\ PerfCap = PerfHistory
  BY SameAssumption DEF SameAssumption, Shown
<1>2. /\ PerfCap \in Nat \ {0} /\ Len(records) \in 0 .. PerfCap
      /\ Len(records') = IF Len(records) < PerfCap THEN Len(records) + 1 ELSE PerfCap
      /\ Ago(0)' = PerfLine
      /\ \A d \in 1 .. Len(records') - 1 :
           Ago(d)' = Ago(d - 1) /\ d - 1 \in 0 .. Len(records) - 1
  BY <1>1, AgoNext DEF BothInv
<1>3. count' = count /\ Report' = Report /\ count \in 0 .. PerfHistory
  BY DEF perfVars, Report, Start, BothInv, RingInv
<1>4. count' <= Len(records')
  BY <1>1, <1>2, <1>3 DEF BothInv, Tied
<1>5. ASSUME NEW d \in 0 .. Len(records') - 1, Ago(d)' # PerfLine
      PROVE  OpsSince(d)' < count' /\ Report'[count' - OpsSince(d)'] = Ago(d)'
  <2>1. d \in 1 .. Len(records') - 1 /\ d - 1 \in 0 .. Len(records) - 1 /\ Ago(d)' = Ago(d - 1)
    <3>1. d # 0
      BY <1>2, <1>5
    <3> QED
      BY <1>2, <3>1
  <2>2. OpsSince(d)' = OpsSince(d - 1)
    <3>1. /\ OpsSince(d - 1) \in 0 .. d - 1
          /\ OpsSince(d)' = OpsSince(d - 1) + (IF PerfLine # PerfLine THEN 1 ELSE 0)
      BY <1>1, <2>1, OpsNext DEF BothInv
    <3> QED
      BY <3>1
  <2>3. OpsSince(d - 1) < count /\ Report[count - OpsSince(d - 1)] = Ago(d - 1)
    BY <1>5, <2>1 DEF BothInv, Tied
  <2> QED
    BY <1>3, <2>1, <2>2, <2>3
<1> QED
  BY <1>4, <1>5 DEF Tied

LEMMA TiedSame ==
  ASSUME BothInv, records' = records, UNCHANGED perfVars
  PROVE  Tied'
<1>1. count' = count /\ Report' = Report
  BY DEF perfVars, Report, Start
<1>2. \A d : Ago(d)' = Ago(d) /\ OpsSince(d)' = OpsSince(d)
  BY DEF Ago, OpsSince
<1> QED
  BY <1>1, <1>2 DEF BothInv, Tied

LEMMA BothNext == BothInv /\ [MCNext]_bothVars => BothInv'
<1> SUFFICES ASSUME BothInv, [MCNext]_bothVars
             PROVE  BothInv'
  OBVIOUS
<1>1. RecordsInv'
  BY RecordsInvNext DEF BothInv, MCNext, bothVars
<1>2. ASSUME MCNext
      PROVE  RingInv' /\ Tied'
  <2>1. \/ \E x \in Shown : Sampled(x)
        \/ records' = <<>> /\ totalOps' = 0
        \/ UNCHANGED <<records, totalOps>>
    BY <1>2, SamplesStep DEF BothInv, MCNext
  <2>2. totalOps \in Nat /\ totalOps' \in Nat
    BY <1>1 DEF BothInv, RecordsInv, RecordsTyped
  <2>3. CASE totalOps' = totalOps + 1 /\ Ago(0)' # PerfLine /\ PerfRecord(Ago(0)')
    <3>1. PICK x \in Shown : Sampled(x)
      BY <2>1, <2>2, <2>3
    <3>2. Ago(0)' = x
      BY <3>1, AgoNext DEF BothInv
    <3>3. x \in Op /\ x \in Sample /\ x # PerfLine /\ PerfRecord(x)
      <4>1. x # PerfLine /\ PerfRecord(x)
        BY <2>3, <3>2
      <4> QED
        BY <4>1, SameAssumption DEF SameAssumption, Shown
    <3>4. RingInv'
      BY <3>3, InvNext DEF BothInv, RingNext
    <3> QED
      BY <3>1, <3>3, <3>4, TiedOp
  <2>4. CASE totalOps' = totalOps + 1 /\ Ago(0)' = PerfLine /\ UNCHANGED perfVars
    <3>1. PICK x \in Shown : Sampled(x)
      BY <2>1, <2>2, <2>4
    <3>2. Ago(0)' = x
      BY <3>1, AgoNext DEF BothInv
    <3>3. Sampled(PerfLine)
      BY <2>4, <3>1, <3>2
    <3>4. RingInv'
      BY <2>4, InvNext DEF BothInv
    <3> QED
      BY <2>4, <3>3, <3>4, TiedReport
  <2>5. CASE totalOps' = 0 /\ PerfInit
    <3>1. RingInv'
      BY <2>5, InvNext DEF BothInv, RingNext
    <3>2. records' = <<>> /\ count' = 0
      BY <1>1, <2>5, Limits DEF RecordsInv, RecordsTyped, TotalsInStep, PerfInit
    <3>3. Len(records') = 0
      BY <3>2
    <3> QED
      BY <3>1, <3>2, <3>3 DEF Tied
  <2>6. CASE totalOps' = totalOps /\ totalOps' > 0 /\ UNCHANGED perfVars
    <3>1. RingInv'
      BY <2>6, InvNext DEF BothInv
    <3>2. records' = records
      BY <2>1, <2>2, <2>6 DEF Sampled
    <3> QED
      BY <2>6, <3>1, <3>2, TiedSame
  <2> QED
    BY <1>2, <2>3, <2>4, <2>5, <2>6 DEF MCNext, Follow
<1>3. CASE UNCHANGED bothVars
  <2>1. UNCHANGED perfVars /\ records' = records
    BY <1>3 DEF bothVars, recordVars, listVars
  <2>2. RingInv'
    BY <2>1, InvNext DEF BothInv
  <2>3. Tied'
    BY <2>1, TiedSame
  <2> QED
    BY <1>1, <2>2, <2>3 DEF BothInv
<1> QED
  BY <1>1, <1>2, <1>3 DEF BothInv

\* Samples without a report among them: what was recorded since one of them
\* is operations only.
LEMMA OpsOnly ==
  ASSUME NEW d \in Nat, \A e \in 0 .. d - 1 : Ago(e) # PerfLine
  PROVE  OpsSince(d) = d
<1>1. {e \in 0 .. d - 1 : Ago(e) # PerfLine} = 0 .. d - 1
  OBVIOUS
<1> QED
  BY <1>1, OpsSize, IntervalSize

\* For rings and lists of any one length: the operations among the page's
\* samples are the last ones the C program reports, in the same order and
\* without a gap; without a report of the page among them both programs keep
\* the same; and after an operation both show the same as the last.
THEOREM SameOperationsRight == MCSpec => []SameOperations
<1>1. MCInit => BothInv
  <2>1. RecordsInit /\ RingInit => count = 0 /\ Len(records) = 0
    BY DEF RecordsInit, RingInit
  <2>2. RecordsInit /\ RingInit => Tied
    BY <2>1 DEF Tied
  <2> QED
    BY <2>2, RecordsInvInit, InvInit DEF MCInit, BothInv
<1>2. BothInv => SameOperations
  <2> SUFFICES ASSUME BothInv
               PROVE  SameOperations
    OBVIOUS
  <2>1. /\ records \in Seq(Shown) /\ Len(records) \in Nat /\ Len(records) <= PerfCap
        /\ PerfCap \in Nat \ {0}
    BY Limits DEF BothInv, RecordsInv, RecordsTyped, TotalsInStep
  <2>2. /\ Report \in Seq(Sample \cup {NoSample}) /\ Len(Report) = count
        /\ count \in Nat /\ count <= Len(records)
    BY ReportSeq, PerfAssumption DEF PerfAssumption, BothInv, RingInv, Tied
  <2>3. ASSUME \A d \in 0 .. Len(records) - 1 : Ago(d) # PerfLine
        PROVE  Report = records
    <3>1. ASSUME NEW d \in 0 .. Len(records) - 1
          PROVE  d < count /\ Report[count - d] = Ago(d)
      <4>1. d \in Nat /\ \A e \in 0 .. d - 1 : Ago(e) # PerfLine
        BY <2>1, <2>3
      <4>2. OpsSince(d) = d
        BY <4>1, OpsOnly
      <4> QED
        BY <2>3, <4>2 DEF BothInv, Tied
    <3>2. count = Len(records)
      <4>1. CASE Len(records) = 0
        BY <2>2, <4>1
      <4>2. CASE Len(records) > 0
        <5>1. Len(records) - 1 < count
          BY <2>1, <3>1, <4>2
        <5> QED
          BY <2>1, <2>2, <5>1
      <4> QED
        BY <2>1, <4>1, <4>2
    <3>3. ASSUME NEW k \in 1 .. count
          PROVE  Report[k] = records[k]
      <4> DEFINE d == count - k
      <4>1. d \in 0 .. Len(records) - 1 /\ count - d = k /\ Len(records) - d = k
        BY <2>2, <3>2
      <4>2. Report[count - d] = Ago(d)
        BY <3>1, <4>1
      <4> HIDE DEF d
      <4> QED
        BY <4>1, <4>2 DEF Ago
    <3> QED
      BY <2>1, <2>2, <3>2, <3>3
  <2>4. ASSUME records # <<>>, Ago(0) # PerfLine
        PROVE  Newest = Ago(0)
    <3>1. Len(records) > 0
      BY <2>1, <2>4
    <3>2. 0 < count /\ Report[count - 0] = Ago(0)
      BY <2>1, <2>4, <3>1, OpsSinceLast DEF BothInv, Tied
    <3> QED
      BY <2>2, <3>2, NewestFact DEF BothInv, NewestIsLast
  <2>5. \A d \in 0 .. Len(records) - 1 :
          Ago(d) # PerfLine => OpsSince(d) < count /\ Report[count - OpsSince(d)] = Ago(d)
    BY DEF BothInv, Tied
  <2> QED
    BY <2>3, <2>4, <2>5 DEF SameOperations
<1> QED
  BY <1>1, <1>2, BothNext, PTL DEF MCSpec
=============================================================================
