------------------------------ MODULE PerfRing ------------------------------
(***************************************************************************)
(* The samples the C program keeps of its last operations (perf.c): a ring *)
(* of PERF_HISTORY records, the index of the next one to write and the     *)
(* number of records that are there.  Every operation of fs.c ends in      *)
(* perf_record; perf_report lists the ring and perf_last prints the newest *)
(* record beside the reply of a command.                                   *)
(*                                                                         *)
(* A sample stands for a PerfRecord: name, duration and bytes.  The totals *)
(* of operations, time and bytes are left out.                             *)
(***************************************************************************)
EXTENDS Integers, Sequences

CONSTANTS
  Sample,    \* what perf_record is given
  NoSample,  \* a record of zeros
  PerfHistory \* PERF_HISTORY

ASSUME PerfAssumption ==
  /\ PerfHistory \in Nat \ {0}
  /\ NoSample \notin Sample

VARIABLES ring, head, count

perfVars == <<ring, head, count>>

Index == 0 .. PerfHistory - 1

Zeros == [k \in Index |-> NoSample]

RingInit == ring = Zeros /\ head = 0 /\ count = 0

\* perf_init, when the program starts.
PerfInit == ring' = Zeros /\ head' = 0 /\ count' = 0

\* count after one more record.
Counted == IF count < PerfHistory THEN count + 1 ELSE count

PerfRecord(x) ==
  /\ ring' = [ring EXCEPT ![head % PerfHistory] = x]
  /\ head' = (head + 1) % PerfHistory
  /\ count' = Counted

\* A bug: the report starts one record late.
StartLate == (head - count + 1 + PerfHistory) % PerfHistory

\* The record perf_report prints first.
Start == (head - count + PerfHistory) % PerfHistory

\* What perf_report prints, line by line.
Report == [i \in 1 .. count |-> ring[(Start + i - 1) % PerfHistory]]

\* A bug: the record that will be written next.
NewestNext == ring[head]

\* What perf_last prints when there is a record.
Newest == ring[(head - 1 + PerfHistory) % PerfHistory]

RingNext == PerfInit \/ \E x \in Sample : PerfRecord(x)

RingSpec == RingInit /\ [][RingNext]_perfVars

-----------------------------------------------------------------------------
(* Properties.                                                             *)

R == INSTANCE Recent WITH Item <- Sample, N <- PerfHistory, kept <- Report

\* The ring is the list of the last PERF_HISTORY samples: the arithmetic on
\* head and count finds the oldest one, before and after the ring wraps.
RingIsRecent == R!Spec

\* perf_last shows the sample a report ends with.
NewestIsLast == count > 0 => Newest = Report[count]
=============================================================================
