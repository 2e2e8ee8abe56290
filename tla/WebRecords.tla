----------------------------- MODULE WebRecords -----------------------------
(***************************************************************************)
(* What the page keeps of the past (ui/app.js): the samples of the last    *)
(* operations, the log, the lines the terminal was given, and what the     *)
(* tables of samples and of log lines show.                                *)
(*                                                                         *)
(* Every handler runs to its end.  A line stands for itself, for the       *)
(* sample it records and for the line it logs; what it answers depends on  *)
(* the volume (module WebVolume) and is left open here.  Lines put into    *)
(* the field by Tab or by the palette are typed ones.  Totals of time and  *)
(* bytes are left out.                                                     *)
(***************************************************************************)
EXTENDS Integers, Sequences, SequencesExt

CONSTANTS
  Op,         \* lines that run an operation of the volume
  Other,      \* lines that never record anything: help, clear, mistakes
  PerfLine,   \* the line "perf"
  NoLine,     \* the empty line
  ReadLine,   \* what a read records that no line asked for
  PerfCap,    \* 64, the samples kept
  LogCap,     \* 200, the log lines kept
  HistoryCap, \* 50, the lines kept
  MaxOps      \* bound: operations counted

ASSUME RecordsAssumption ==
  /\ {PerfCap, LogCap, HistoryCap} \subseteq Nat \ {0}
  /\ NoLine \notin Op \cup Other \cup {PerfLine}
  /\ PerfLine \notin Op \cup Other
  /\ ReadLine \in Op
  /\ MaxOps \in Nat

VARIABLES
  records,    \* Perf.records
  totalOps,   \* Perf.totalOps
  entries,    \* Log.entries
  perfTable,  \* the samples the table shows
  logPanel,   \* the log lines the panel shows
  cmdHistory, \* cmdHistory, the newest line first
  historyIdx, \* historyIdx
  input,      \* the terminal's input field
  typed       \* the field was edited after the last key that walks

listVars   == <<records, totalOps, entries, perfTable, logPanel>>
fieldVars  == <<cmdHistory, historyIdx, input, typed>>
recordVars == <<listVars, fieldVars>>

Line == Op \cup Other \cup {PerfLine}

RecordsInit ==
  /\ records = <<>>
  /\ totalOps = 0
  /\ entries = <<>>
  /\ perfTable = <<>>
  /\ logPanel = <<>>
  /\ cmdHistory = <<>>
  /\ historyIdx = -1
  /\ input = NoLine
  /\ typed = FALSE

-----------------------------------------------------------------------------
(* Records and log.                                                        *)

\* A bug: a full list loses its newest item.
PushedOver(list, cap, x) ==
  IF Len(list) < cap THEN Append(list, x) ELSE Append(Front(list), x)

\* A list of at most cap items, the oldest first.
Pushed(list, cap, x) ==
  LET longer == Append(list, x) IN IF Len(longer) > cap THEN Tail(longer) ELSE longer

\* perfRecord
Sampled(x) ==
  /\ totalOps < MaxOps
  /\ totalOps' = totalOps + 1
  /\ records' = Pushed(records, PerfCap, x)

\* fsLog draws the panel.
FsLog(x) == entries' = Pushed(entries, LogCap, x) /\ logPanel' = entries'

NoLog == UNCHANGED <<entries, logPanel>>

\* A bug: the table is drawn before the operation it should show.
RefreshEarly == perfTable' = records

\* refreshPerfTab leaves the table alone when there is no sample.
RefreshPerfTab == perfTable' = IF records' = <<>> THEN perfTable ELSE records'

\* What a line leaves in the records: a refused operation leaves nothing,
\* and perf reports itself only when there was something to report.
Recorded(line) ==
  \/ line \in Op /\ FsLog(line) /\ Sampled(line)
  \/ line \in Op \cup Other /\ NoLog /\ UNCHANGED <<records, totalOps>>
  \/ /\ line = PerfLine
     /\ NoLog
     /\ IF records = <<>> THEN UNCHANGED <<records, totalOps>> ELSE Sampled(line)

\* openInlineRead of a file in the list calls fsRead itself: no line of the
\* history stands for it.
ReadDirectly ==
  /\ FsLog(ReadLine)
  /\ Sampled(ReadLine)
  /\ RefreshPerfTab
  /\ UNCHANGED fieldVars

\* clearLog
ClearLog ==
  /\ entries' = <<>>
  /\ logPanel' = <<>>
  /\ UNCHANGED <<records, totalOps, perfTable, fieldVars>>

\* A bug: the operations counted so far are forgotten and the samples kept.
ResetTotals ==
  /\ totalOps' = 0
  /\ entries' = <<>>
  /\ UNCHANGED <<records, logPanel, fieldVars>>
  /\ RefreshPerfTab

\* doReset: the panel and the table go on showing what was there, and the
\* history is kept.
Reset ==
  /\ records' = <<>>
  /\ totalOps' = 0
  /\ entries' = <<>>
  /\ RefreshPerfTab
  /\ UNCHANGED <<logPanel, fieldVars>>

-----------------------------------------------------------------------------
(* The terminal's lines.                                                   *)

\* A bug: the walk goes on from where it was.
RememberOnly(line) ==
  LET longer == <<line>> \o cmdHistory
  IN  /\ cmdHistory' = IF Len(longer) > HistoryCap THEN Front(longer) ELSE longer
      /\ input' = NoLine
      /\ typed' = FALSE
      /\ UNCHANGED historyIdx

\* The beginning of runCmd.
Remember(line) ==
  LET longer == <<line>> \o cmdHistory
  IN  /\ cmdHistory' = IF Len(longer) > HistoryCap THEN Front(longer) ELSE longer
      /\ historyIdx' = -1
      /\ input' = NoLine
      /\ typed' = FALSE

\* runCmd, from the field or from a button.
RunCmd(line) == Remember(line) /\ Recorded(line) /\ RefreshPerfTab

\* submitCmd
Submit == input # NoLine /\ RunCmd(input)

Type(line) == input' = line /\ typed' = TRUE /\ UNCHANGED <<listVars, cmdHistory, historyIdx>>

\* The line a step of the walk shows.
Show(idx) == historyIdx' = idx /\ input' = cmdHistory[idx + 1] /\ typed' = FALSE

\* At the oldest line the key does nothing.
ArrowUp ==
  /\ historyIdx < Len(cmdHistory) - 1
  /\ Show(historyIdx + 1)
  /\ UNCHANGED <<listVars, cmdHistory>>

\* Past the newest line the field is emptied.
ArrowDown ==
  /\ \/ historyIdx > 0 /\ Show(historyIdx - 1)
     \/ historyIdx <= 0 /\ historyIdx' = -1 /\ input' = NoLine /\ typed' = FALSE
  /\ UNCHANGED <<listVars, cmdHistory>>

-----------------------------------------------------------------------------
RecordsNext ==
  \/ \E line \in Line : RunCmd(line) \/ Type(line)
  \/ Submit
  \/ ReadDirectly
  \/ ClearLog
  \/ Reset
  \/ ArrowUp
  \/ ArrowDown

RecordsSpec == RecordsInit /\ [][RecordsNext]_recordVars

-----------------------------------------------------------------------------
(* Properties.                                                             *)

RecentOps == INSTANCE Recent WITH Item <- Op \cup {PerfLine}, N <- PerfCap, kept <- records
RecentLog == INSTANCE Recent WITH Item <- Op, N <- LogCap, kept <- entries
RecentLines == INSTANCE Recent WITH Item <- Line, N <- HistoryCap, kept <- Reverse(cmdHistory)

\* The samples, the log and the history each keep the last of what happened,
\* whatever mixture of lines, buttons, reads, clearing and resets led there.
ListsAreRecent == RecentOps!Spec /\ RecentLog!Spec /\ RecentLines!Spec

\* The number of operations and the list of samples speak of the same past:
\* with one counted there is a sample to take the averages and limits of.
TotalsInStep ==
  Len(records) = (IF totalOps < PerfCap THEN totalOps ELSE PerfCap)

\* Table and panel show what is kept, unless nothing is kept: after a reset
\* they show the past until the next operation.
PanelsInStep ==
  /\ records # <<>> => perfTable = records
  /\ entries # <<>> => logPanel = entries

\* While the user walks and does not edit, the field shows the line that is
\* as far back as the walk went, lines run by buttons in between included.
WalkShows ==
  /\ historyIdx \in -1 .. Len(cmdHistory) - 1
  /\ historyIdx >= 0 /\ ~typed => input = cmdHistory[historyIdx + 1]
=============================================================================
