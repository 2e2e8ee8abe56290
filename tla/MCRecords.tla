----------------------------- MODULE MCRecords ------------------------------
(***************************************************************************)
(* The page's records, and beside them the ring of the C program given the *)
(* same operations; a reset of the page is a new start of the program.     *)
(*                                                                         *)
(* A report is an operation of the page only: fsPerfReport records itself  *)
(* as 'perf', fs_perf calls perf_report and records nothing.  While the    *)
(* page keeps such a sample the two programs do not report the same.       *)
(***************************************************************************)
EXTENDS WebRecords, PerfRing, FiniteSets

\* Both programs keep 64 samples (perf.h and Perf.records); the ring is given
\* operations only.
ASSUME SameAssumption == PerfCap = PerfHistory /\ Sample = Op

bothVars == <<recordVars, perfVars>>

MCInit == RecordsInit /\ RingInit

\* The sample the page recorded d samples ago.
Ago(d) == records[Len(records) - d]

\* The C program records what the page records, but for reports.
Follow ==
  \/ totalOps' = totalOps + 1 /\ Ago(0)' # PerfLine /\ PerfRecord(Ago(0)')
  \/ totalOps' = totalOps + 1 /\ Ago(0)' = PerfLine /\ UNCHANGED perfVars
  \/ totalOps' = 0 /\ PerfInit
  \/ totalOps' = totalOps /\ totalOps' > 0 /\ UNCHANGED perfVars

MCNext == RecordsNext /\ Follow

MCSpec == MCInit /\ [][MCNext]_bothVars

\* How many of the d last samples of the page are operations.
OpsSince(d) == Cardinality({e \in 0 .. d - 1 : Ago(e) # PerfLine})

\* Given the same operations, the page reports the last of those the C
\* program reports, in the same order and without a gap, among its own
\* reports; with no report among its samples both report the same; and after
\* an operation both show it as the last.
SameOperations ==
  /\ \A d \in 0 .. Len(records) - 1 :
       Ago(d) # PerfLine => OpsSince(d) < count /\ Report[count - OpsSince(d)] = Ago(d)
  /\ (\A d \in 0 .. Len(records) - 1 : Ago(d) # PerfLine) => Report = records
  /\ records # <<>> /\ Ago(0) # PerfLine => Newest = Ago(0)
=============================================================================
