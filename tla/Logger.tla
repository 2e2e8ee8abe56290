------------------------------- MODULE Logger -------------------------------
(***************************************************************************)
(* The log thread of logger.c and the thread that runs the commands.  They *)
(* share a ring of messages and a stop flag under log_mutex; log_cond      *)
(* wakes the log thread.  A signal nobody waits for is lost, and a wait    *)
(* may end without a signal.                                               *)
(*                                                                         *)
(* Taking the mutex is a step, and what a thread does while it holds the   *)
(* mutex is another, except that the log thread writes message by message. *)
(* Messages are numbered in the order of the calls of fs_log.              *)
(***************************************************************************)
EXTENDS Integers, Sequences

CONSTANTS
  MaxLogs,     \* MAX_LOGS
  MaxMessages, \* bound: calls of fs_log
  MaxSpurious  \* bound: wake-ups without a signal

ASSUME LoggerAssumption ==
  /\ MaxLogs \in Nat \ {0}
  /\ MaxMessages \in Nat
  /\ MaxSpurious \in Nat

VARIABLES
  log_queue, log_head, log_tail, log_count, \* the ring
  stop_logger,
  log_mutex,  \* who holds it
  log_file,   \* the lines of fs.log
  caller,     \* where the thread of the commands is
  writer,     \* where the log thread is
  sent,       \* calls of fs_log that are over
  spurious    \* wake-ups without a signal so far

ring == <<log_queue, log_head, log_tail, log_count>>
vars == <<ring, stop_logger, log_mutex, log_file, caller, writer, sent, spurious>>

Slot    == 0 .. MaxLogs - 1
Message == 1 .. MaxMessages

\* "down": no log thread.  "run": executing commands.  "log" and "stop": in
\* fs_log and logger_cleanup without the mutex.  "enqueue" and "set_stop":
\* the same with the mutex.  "join": in pthread_join.
CallerAt == {"down", "run", "log", "enqueue", "stop", "set_stop", "join"}

\* "open": before fopen.  "lock": waits for the mutex.  "check" and "drain":
\* has it, before and in the inner loop.  "wait": in the queue of log_cond.
\* "done" and "failed": returned, the latter because of fopen.
WriterAt == {"open", "lock", "check", "drain", "wait", "done", "failed"}

-----------------------------------------------------------------------------
\* A bug: the ring taken for one longer than it is.
SuccTooFar(x) == (x + 1) % (MaxLogs + 1)

Succ(x) == (x + 1) % MaxLogs

\* The k-th message in the ring, from log_tail.
Queued(k) == log_queue[(log_tail + k) % MaxLogs]

\* A bug: one message too many.
HasRoomForMore == log_count <= MaxLogs

HasRoom == log_count < MaxLogs

\* A bug: the flag is not part of the condition to wait for.
MustWaitAnyway == log_count = 0

MustWait == log_count = 0 /\ ~stop_logger

\* A bug: the log thread leaves without looking at the ring.
MayLeaveAtOnce == stop_logger

MayLeave == stop_logger /\ log_count = 0

Lock(thread) == log_mutex = "free" /\ log_mutex' = thread
Unlock       == log_mutex' = "free"

\* pthread_cond_signal
Signal == writer' = IF writer = "wait" THEN "lock" ELSE writer

-----------------------------------------------------------------------------
Init ==
  /\ log_queue = [s \in Slot |-> 0]
  /\ log_head = 0
  /\ log_tail = 0
  /\ log_count = 0
  /\ stop_logger = FALSE
  /\ log_mutex = "free"
  /\ log_file = <<>>
  /\ caller = "down"
  /\ writer = "done"
  /\ sent = 0
  /\ spurious = 0

\* A bug: log_tail stays where the last log thread left it.
ResetHalf == log_head' = 0 /\ log_tail' = log_tail /\ log_count' = 0

ResetRing == log_head' = 0 /\ log_tail' = 0 /\ log_count' = 0

\* logger_init, which runs before any log thread exists.
LoggerInit ==
  /\ caller = "down"
  /\ caller' = "run"
  /\ stop_logger' = FALSE
  /\ ResetRing
  /\ writer' = "open"
  /\ UNCHANGED <<log_queue, log_mutex, log_file, sent, spurious>>

\* The thread of the commands enters fs_log, or logger_cleanup.
Call ==
  /\ caller = "run"
  /\ \/ caller' = "log" /\ sent < MaxMessages
     \/ caller' = "stop"
  /\ UNCHANGED <<ring, stop_logger, log_mutex, log_file, writer, sent, spurious>>

CallerLock ==
  /\ \/ caller = "log"  /\ caller' = "enqueue"
     \/ caller = "stop" /\ caller' = "set_stop"
  /\ Lock("caller")
  /\ UNCHANGED <<ring, stop_logger, log_file, writer, sent, spurious>>

\* The end of fs_log: the message is queued, or dropped when the ring is full.
Enqueue ==
  /\ caller = "enqueue"
  /\ \/ /\ HasRoom
        /\ log_queue' = [log_queue EXCEPT ![log_head] = sent + 1]
        /\ log_head' = Succ(log_head)
        /\ log_count' = log_count + 1
        /\ Signal
        /\ UNCHANGED log_tail
     \/ /\ ~HasRoom
        /\ UNCHANGED <<ring, writer>>
  /\ Unlock
  /\ sent' = sent + 1
  /\ caller' = "run"
  /\ UNCHANGED <<stop_logger, log_file, spurious>>

SetStop ==
  /\ caller = "set_stop"
  /\ stop_logger' = TRUE
  /\ Signal
  /\ Unlock
  /\ caller' = "join"
  /\ UNCHANGED <<ring, log_file, sent, spurious>>

\* pthread_join
Join ==
  /\ caller = "join"
  /\ writer \in {"done", "failed"}
  /\ caller' = "down"
  /\ UNCHANGED <<ring, stop_logger, log_mutex, log_file, writer, sent, spurious>>

-----------------------------------------------------------------------------
\* The log thread opens fs.log, or returns at once.
OpenLog ==
  /\ writer = "open"
  /\ writer' \in {"lock", "failed"}
  /\ UNCHANGED <<ring, stop_logger, log_mutex, log_file, caller, sent, spurious>>

WriterLock ==
  /\ writer = "lock"
  /\ Lock("writer")
  /\ writer' = "check"
  /\ UNCHANGED <<ring, stop_logger, log_file, caller, sent, spurious>>

\* pthread_cond_wait
Wait ==
  /\ writer = "check"
  /\ MustWait
  /\ Unlock
  /\ writer' = "wait"
  /\ UNCHANGED <<ring, stop_logger, log_file, caller, sent, spurious>>

WakeUp ==
  /\ writer = "wait"
  /\ spurious < MaxSpurious
  /\ spurious' = spurious + 1
  /\ writer' = "lock"
  /\ UNCHANGED <<ring, stop_logger, log_mutex, log_file, caller, sent>>

Leave ==
  /\ writer = "check"
  /\ ~MustWait
  /\ MayLeave
  /\ Unlock
  /\ writer' = "done"
  /\ UNCHANGED <<ring, stop_logger, log_file, caller, sent, spurious>>

\* One round of the inner loop.
WriteLog ==
  /\ \/ writer = "check" /\ ~MustWait /\ ~MayLeave
     \/ writer = "drain"
  /\ log_count > 0
  /\ log_file' = Append(log_file, log_queue[log_tail])
  /\ log_tail' = Succ(log_tail)
  /\ log_count' = log_count - 1
  /\ writer' = "drain"
  /\ UNCHANGED <<log_queue, log_head, stop_logger, log_mutex, caller, sent, spurious>>

Drained ==
  /\ writer = "drain"
  /\ log_count = 0
  /\ Unlock
  /\ writer' = "lock"
  /\ UNCHANGED <<ring, stop_logger, log_file, caller, sent, spurious>>

-----------------------------------------------------------------------------
InsideLogger == CallerLock \/ Enqueue \/ SetStop \/ Join
LogThread    == OpenLog \/ WriterLock \/ Wait \/ Leave \/ WriteLog \/ Drained

Next == LoggerInit \/ Call \/ InsideLogger \/ LogThread \/ WakeUp

\* Both threads are scheduled while they can run.  Nothing obliges the user
\* to give commands or to end the program, and no wait ends by itself.
Fairness == WF_vars(InsideLogger) /\ WF_vars(LogThread)

Spec == Init /\ [][Next]_vars /\ Fairness

-----------------------------------------------------------------------------
(* Properties.                                                             *)

\* Every variable has its type.
TypeOK ==
  /\ log_queue \in [Slot -> Message \cup {0}]
  /\ log_head \in Slot
  /\ log_tail \in Slot
  /\ log_count \in 0 .. MaxLogs
  /\ stop_logger \in BOOLEAN
  /\ log_mutex \in {"free", "caller", "writer"}
  /\ log_file \in Seq(Message)
  /\ caller \in CallerAt
  /\ writer \in WriterAt
  /\ sent \in 0 .. MaxMessages
  /\ spurious \in 0 .. MaxSpurious

\* Head, tail and count stay in step across the wrap, a dropped message, a
\* log thread that never ran and a new logger_init: between tail and head are
\* messages that were given, the older before the younger.
RingInStep ==
  /\ log_head = (log_tail + log_count) % MaxLogs
  /\ \A k \in 0 .. log_count - 1 : Queued(k) \in 1 .. sent
  /\ \A j, k \in 0 .. log_count - 1 : j < k => Queued(j) < Queued(k)

\* The lines of fs.log are in the order of the calls of fs_log and none is
\* there twice, over all log threads that wrote it.
FileInOrder == \A i, j \in DOMAIN log_file : i < j => log_file[i] < log_file[j]

\* Once logger_cleanup is over, every accepted message has been written if
\* fs.log could be opened: the flag is looked at only with an empty ring.
NothingLeft == caller = "down" /\ writer = "done" => log_count = 0

\* fs_log and logger_cleanup come back: no signal is lost that the log thread
\* needs, whatever it was doing when the flag was set.
CallsReturn == caller \in {"log", "stop"} ~> caller \in {"run", "down"}

-----------------------------------------------------------------------------
(* The log is the queue of LogQueue.                                       *)

\* The messages in the ring, oldest first.
Pending == [k \in 1 .. log_count |-> Queued(k - 1)]

Abstract == INSTANCE LogQueue WITH
  Capacity <- MaxLogs,
  up       <- caller # "down",
  writable <- writer # "failed",
  calls    <- sent,
  queue    <- Pending,
  file     <- log_file

\* Accepted messages are written once and in order, all of them before
\* logger_cleanup is over, and each of them eventually.
ImplementsLogQueue == Abstract!Spec
=============================================================================
