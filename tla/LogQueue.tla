------------------------------ MODULE LogQueue ------------------------------
(***************************************************************************)
(* What logger.c promises fs_log's callers: a bounded first-in first-out   *)
(* queue in front of fs.log.  A message is accepted while there is room;   *)
(* what was accepted is written once, in order, and before the logger is   *)
(* down, unless fs.log could not be opened.  Messages are numbered in the  *)
(* order in which they are given to fs_log.                                *)
(***************************************************************************)
EXTENDS Naturals, Sequences

CONSTANT Capacity

VARIABLES
  up,       \* between logger_init and the end of logger_cleanup
  writable, \* fs.log was not found to be unusable
  calls,    \* messages given so far
  queue,    \* accepted and not yet written
  file      \* the lines of fs.log

vars == <<up, writable, calls, queue, file>>

Init ==
  /\ up = FALSE
  /\ writable = TRUE
  /\ calls = 0
  /\ queue = <<>>
  /\ file = <<>>

Start ==
  /\ ~up
  /\ up' = TRUE
  /\ writable' = TRUE
  /\ queue' = <<>>
  /\ UNCHANGED <<calls, file>>

Accept ==
  /\ up
  /\ Len(queue) < Capacity
  /\ calls' = calls + 1
  /\ queue' = Append(queue, calls')
  /\ UNCHANGED <<up, writable, file>>

\* A message is dropped only when there is no room.
Drop ==
  /\ up
  /\ Len(queue) = Capacity
  /\ calls' = calls + 1
  /\ UNCHANGED <<up, writable, queue, file>>

Write ==
  /\ writable
  /\ queue # <<>>
  /\ file' = Append(file, Head(queue))
  /\ queue' = Tail(queue)
  /\ UNCHANGED <<up, writable, calls>>

\* fs.log cannot be opened.
Break ==
  /\ up
  /\ writable
  /\ writable' = FALSE
  /\ UNCHANGED <<up, calls, queue, file>>

Stop ==
  /\ up
  /\ writable => queue = <<>>
  /\ up' = FALSE
  /\ UNCHANGED <<writable, calls, queue, file>>

Next == Start \/ Accept \/ Drop \/ Write \/ Break \/ Stop

Spec == Init /\ [][Next]_vars /\ WF_vars(Write)
=============================================================================
