---------------------------- MODULE LoggerProofs ----------------------------
(* Type correctness of Logger, and that its ring and its shutdown are right *)
(* for a ring of any length and any number of messages.                     *)
EXTENDS Logger, TLAPS

\* The remainder of a number less than twice the divisor.
LEMMA ModCase ==
  ASSUME NEW z \in Nat, z < 2 * MaxLogs
  PROVE  z % MaxLogs = IF z < MaxLogs THEN z ELSE z - MaxLogs
<1> DEFINE q == z \div MaxLogs
           r == z % MaxLogs
<1>1. MaxLogs \in Nat \ {0}
  BY LoggerAssumption DEF LoggerAssumption
<1>2. q \in Nat /\ r \in 0 .. MaxLogs - 1 /\ z = MaxLogs * q + r
  BY <1>1
<1>3. q < 2
  <2>1. CASE q >= 2
    <3>1. MaxLogs * q >= MaxLogs * 2
      BY <1>1, <1>2, <2>1
    <3> QED
      BY <1>1, <1>2, <3>1
  <2> QED
    BY <1>2, <2>1
<1>4. CASE q = 0
  BY <1>1, <1>2, <1>4
<1>5. CASE q = 1
  BY <1>1, <1>2, <1>5
<1> QED
  BY <1>2, <1>3, <1>4, <1>5

\* A slot is its own remainder.
LEMMA SmallMod == \A x \in Slot : (x + 0) % MaxLogs = x
BY LoggerAssumption, ModCase DEF LoggerAssumption, Slot

\* The slot after a slot.
LEMMA SuccCase ==
  ASSUME NEW x \in Slot
  PROVE  /\ Succ(x) = IF x = MaxLogs - 1 THEN 0 ELSE x + 1
         /\ Succ(x) \in Slot
<1>1. MaxLogs \in Nat \ {0} /\ x + 1 \in Nat /\ x + 1 < 2 * MaxLogs /\ x \in 0 .. MaxLogs - 1
  BY LoggerAssumption DEF LoggerAssumption, Slot
<1> QED
  BY <1>1, ModCase DEF Succ, Slot

-----------------------------------------------------------------------------
(* The inductive invariant.                                                *)

\* Only the thread that holds the mutex is past it; there is no log thread
\* between logger_cleanup and logger_init; the flag is set by the
\* last call; and a log thread that is done left an empty ring behind a flag
\* nothing can follow.  The bound on the calls holds inside fs_log.
Discipline ==
  /\ log_mutex = "caller" <=> caller \in {"enqueue", "set_stop"}
  /\ log_mutex = "writer" <=> writer \in {"check", "drain"}
  /\ caller = "down" => writer \in {"done", "failed"}
  /\ stop_logger => caller \in {"join", "down"}
  /\ writer = "done" => log_count = 0 /\ caller \in {"join", "down"}
  /\ caller \in {"log", "enqueue"} => sent < MaxMessages

\* What is in the file was given, and before what is in the ring.
FileBeforeRing ==
  \A i \in DOMAIN log_file :
    /\ log_file[i] \in 1 .. sent
    /\ \A k \in 0 .. log_count - 1 : log_file[i] < Queued(k)


-----------------------------------------------------------------------------
(* The ring.                                                               *)

\* Where the k-th message after log_tail is.
LEMMA IndexCase ==
  ASSUME NEW t \in Slot, NEW k \in 0 .. MaxLogs
  PROVE  /\ (t + k) % MaxLogs = IF t + k < MaxLogs THEN t + k ELSE t + k - MaxLogs
         /\ (t + k) % MaxLogs \in Slot
<1>1. /\ MaxLogs \in Nat \ {0} /\ t \in 0 .. MaxLogs - 1
      /\ t + k \in Nat /\ t + k < 2 * MaxLogs
  BY LoggerAssumption DEF LoggerAssumption, Slot
<1>2. (t + k) % MaxLogs = IF t + k < MaxLogs THEN t + k ELSE t + k - MaxLogs
  BY <1>1, ModCase
<1> QED
  BY <1>1, <1>2 DEF Slot

\* A message put at log_head becomes the last one and moves no other.
LEMMA Put ==
  ASSUME TypeOK, RingInStep, HasRoom, NEW m, NEW c, c = log_count,
         log_queue' = [log_queue EXCEPT ![log_head] = m],
         log_tail' = log_tail
  PROVE  /\ \A k \in 0 .. c - 1 : Queued(k)' = Queued(k)
         /\ Queued(c)' = m
<1>1. /\ MaxLogs \in Nat \ {0} /\ log_tail \in Slot /\ log_head \in Slot
      /\ c \in 0 .. MaxLogs /\ c < MaxLogs
      /\ log_queue \in [Slot -> Message \cup {0}]
  BY LoggerAssumption DEF LoggerAssumption, TypeOK, HasRoom
<1>2. (log_tail + c) % MaxLogs = log_head
  BY DEF RingInStep
<1>3. Queued(c)' = m
  BY <1>1, <1>2 DEF Queued
<1>4. ASSUME NEW k \in 0 .. c - 1 PROVE Queued(k)' = Queued(k)
  <2>1. k \in 0 .. MaxLogs
    BY <1>1
  <2>2. /\ (log_tail + k) % MaxLogs \in Slot
        /\ (log_tail + k) % MaxLogs
             = IF log_tail + k < MaxLogs THEN log_tail + k ELSE log_tail + k - MaxLogs
    BY <1>1, <2>1, IndexCase
  <2>3. (log_tail + c) % MaxLogs
          = IF log_tail + c < MaxLogs THEN log_tail + c ELSE log_tail + c - MaxLogs
    BY <1>1, IndexCase
  <2>4. (log_tail + k) % MaxLogs # (log_tail + c) % MaxLogs
    BY <1>1, <2>1, <2>2, <2>3 DEF Slot
  <2> QED
    BY <1>1, <1>2, <2>2, <2>4 DEF Queued
<1> QED
  BY <1>3, <1>4

\* Without the message at log_tail every other one is one place nearer.
LEMMA Take ==
  ASSUME TypeOK, log_queue' = log_queue, log_tail' = Succ(log_tail),
         NEW k \in 0 .. log_count - 2
  PROVE  Queued(k)' = Queued(k + 1)
<1>1. /\ MaxLogs \in Nat \ {0} /\ log_tail \in Slot /\ log_count \in 0 .. MaxLogs
  BY LoggerAssumption DEF LoggerAssumption, TypeOK
<1>2. k \in 0 .. MaxLogs /\ k + 1 \in 0 .. MaxLogs
  BY <1>1
<1>3. /\ Succ(log_tail) = IF log_tail = MaxLogs - 1 THEN 0 ELSE log_tail + 1
      /\ Succ(log_tail) \in Slot
  BY <1>1, SuccCase
<1>4. (Succ(log_tail) + k) % MaxLogs
        = IF Succ(log_tail) + k < MaxLogs THEN Succ(log_tail) + k
                                          ELSE Succ(log_tail) + k - MaxLogs
  BY <1>2, <1>3, IndexCase
<1>5. (log_tail + (k + 1)) % MaxLogs
        = IF log_tail + (k + 1) < MaxLogs THEN log_tail + (k + 1)
                                          ELSE log_tail + (k + 1) - MaxLogs
  BY <1>1, <1>2, IndexCase
<1>6. (Succ(log_tail) + k) % MaxLogs = (log_tail + (k + 1)) % MaxLogs
  BY <1>1, <1>2, <1>3, <1>4, <1>5 DEF Slot
<1> QED
  BY <1>6 DEF Queued

\* log_head stays where the count says when a message is put or taken.
LEMMA HeadMoves ==
  ASSUME NEW t \in Slot, NEW c \in 0 .. MaxLogs - 1
  PROVE  /\ Succ((t + c) % MaxLogs) = (t + (c + 1)) % MaxLogs
         /\ (Succ(t) + c) % MaxLogs = (t + (c + 1)) % MaxLogs
<1>1. MaxLogs \in Nat \ {0}
  BY LoggerAssumption DEF LoggerAssumption
<1>2. c \in 0 .. MaxLogs /\ c + 1 \in 0 .. MaxLogs
  BY <1>1
<1>3. /\ (t + c) % MaxLogs = IF t + c < MaxLogs THEN t + c ELSE t + c - MaxLogs
      /\ (t + c) % MaxLogs \in Slot
  BY <1>2, IndexCase
<1>4. (t + (c + 1)) % MaxLogs
        = IF t + (c + 1) < MaxLogs THEN t + (c + 1) ELSE t + (c + 1) - MaxLogs
  BY <1>2, IndexCase
<1>5. /\ Succ(t) = IF t = MaxLogs - 1 THEN 0 ELSE t + 1
      /\ Succ(t) \in Slot
  BY SuccCase
<1>6. (Succ(t) + c) % MaxLogs
        = IF Succ(t) + c < MaxLogs THEN Succ(t) + c ELSE Succ(t) + c - MaxLogs
  BY <1>2, <1>5, IndexCase
<1>7. Succ((t + c) % MaxLogs)
        = IF (t + c) % MaxLogs = MaxLogs - 1 THEN 0 ELSE ((t + c) % MaxLogs) + 1
  BY <1>3, SuccCase
<1> QED
  BY <1>1, <1>3, <1>4, <1>5, <1>6, <1>7 DEF Slot

-----------------------------------------------------------------------------
(* Every step keeps the invariant.                                         *)

RingInv == RingInStep /\ FileBeforeRing /\ FileInOrder

LogInv == TypeOK /\ Discipline /\ RingInv

\* A step that leaves ring, file and calls alone keeps what is said of them.
LEMMA SameRing ==
  ASSUME RingInv, UNCHANGED <<ring, log_file, sent>>
  PROVE  RingInv'
BY DEF RingInv, RingInStep, FileBeforeRing, FileInOrder, Queued, ring

LEMMA TypeLogStep == TypeOK /\ Discipline /\ RingInStep /\ [Next]_vars => TypeOK'
<1> SUFFICES ASSUME TypeOK, Discipline, RingInStep, [Next]_vars PROVE TypeOK'
  OBVIOUS
<1>0. MaxLogs \in Nat \ {0} /\ MaxMessages \in Nat /\ MaxSpurious \in Nat
  BY LoggerAssumption DEF LoggerAssumption
<1> USE DEF TypeOK, CallerAt, WriterAt
<1>1. CASE LoggerInit
  BY <1>0, <1>1 DEF LoggerInit, ResetRing, Slot
<1>2. CASE Call
  BY <1>2 DEF Call, ring
<1>3. CASE CallerLock
  BY <1>3 DEF CallerLock, Lock, ring
<1>4. CASE Enqueue
  <2>0. sent + 1 \in Message /\ sent + 1 \in 0 .. MaxMessages
    BY <1>0, <1>4 DEF Enqueue, Discipline, Message
  <2>1. CASE HasRoom
    <3>1. /\ log_queue' = [log_queue EXCEPT ![log_head] = sent + 1]
          /\ log_head' = Succ(log_head) /\ log_count' = log_count + 1
      BY <1>4, <2>1 DEF Enqueue
    <3>2. log_head' \in Slot
      BY <3>1, SuccCase
    <3>3. log_count' \in 0 .. MaxLogs
      BY <1>0, <2>1, <3>1 DEF HasRoom
    <3> QED
      BY <1>4, <2>0, <2>1, <3>1, <3>2, <3>3 DEF Enqueue, Signal, Unlock
  <2>2. CASE ~HasRoom
    BY <1>4, <2>0, <2>2 DEF Enqueue, Unlock, ring
  <2> QED
    BY <2>1, <2>2
<1>5. CASE SetStop
  BY <1>5 DEF SetStop, Signal, Unlock, ring
<1>6. CASE Join
  BY <1>6 DEF Join, ring
<1>7. CASE OpenLog
  BY <1>7 DEF OpenLog, ring
<1>8. CASE WriterLock
  BY <1>8 DEF WriterLock, Lock, ring
<1>9. CASE Wait
  BY <1>9 DEF Wait, Unlock, ring
<1>10. CASE WakeUp
  BY <1>0, <1>10 DEF WakeUp, ring
<1>11. CASE Leave
  BY <1>11 DEF Leave, Unlock, ring
<1>12. CASE WriteLog
  <2>1. /\ log_file' = Append(log_file, log_queue[log_tail])
        /\ log_tail' = Succ(log_tail) /\ log_count' = log_count - 1 /\ log_count > 0
    BY <1>12 DEF WriteLog
  <2>2. log_tail' \in Slot
    BY <2>1, SuccCase
  <2>3. log_queue[log_tail] = Queued(0)
    BY <1>0, SmallMod DEF Queued, Slot
  <2>4. log_queue[log_tail] \in Message
    BY <1>0, <2>1, <2>3 DEF RingInStep, Message
  <2>5. log_file' \in Seq(Message)
    BY <2>1, <2>4
  <2> QED
    BY <1>0, <1>12, <2>1, <2>2, <2>5 DEF WriteLog
<1>13. CASE Drained
  BY <1>13 DEF Drained, Unlock, ring
<1>14. CASE UNCHANGED vars
  BY <1>14 DEF vars, ring
<1> QED
  BY <1>1, <1>2, <1>3, <1>4, <1>5, <1>6, <1>7, <1>8, <1>9, <1>10, <1>11, <1>12,
     <1>13, <1>14 DEF Next, InsideLogger, LogThread

LEMMA DisciplineStep == TypeOK /\ Discipline /\ [Next]_vars => Discipline'
<1> SUFFICES ASSUME TypeOK, Discipline, [Next]_vars PROVE Discipline'
  OBVIOUS
<1>0. sent \in Nat /\ MaxMessages \in Nat /\ log_count \in Nat
  BY LoggerAssumption DEF LoggerAssumption, TypeOK
<1> USE DEF Discipline
<1>1. CASE LoggerInit
  BY <1>1 DEF LoggerInit, ResetRing
<1>2. CASE Call
  BY <1>2 DEF Call, ring
<1>3. CASE CallerLock
  BY <1>3 DEF CallerLock, Lock, ring
<1>4. CASE Enqueue
  BY <1>4 DEF Enqueue, Signal, Unlock, ring
<1>5. CASE SetStop
  BY <1>5 DEF SetStop, Signal, Unlock, ring
<1>6. CASE Join
  BY <1>6 DEF Join, ring
<1>7. CASE OpenLog
  BY <1>7 DEF OpenLog, ring
<1>8. CASE WriterLock
  BY <1>8 DEF WriterLock, Lock, ring
<1>9. CASE Wait
  BY <1>9 DEF Wait, Unlock, ring
<1>10. CASE WakeUp
  BY <1>10 DEF WakeUp, ring
<1>11. CASE Leave
  BY <1>11 DEF Leave, MayLeave, Unlock, ring
<1>12. CASE WriteLog
  BY <1>12 DEF WriteLog
<1>13. CASE Drained
  BY <1>13 DEF Drained, Unlock, ring
<1>14. CASE UNCHANGED vars
  BY <1>14 DEF vars, ring
<1> QED
  BY <1>1, <1>2, <1>3, <1>4, <1>5, <1>6, <1>7, <1>8, <1>9, <1>10, <1>11, <1>12,
     <1>13, <1>14 DEF Next, InsideLogger, LogThread

\* A message that was accepted is younger than everything in ring and file.
LEMMA EnqueueStep == TypeOK /\ RingInv /\ Enqueue => RingInv'
<1> SUFFICES ASSUME TypeOK, RingInv, Enqueue PROVE RingInv'
  OBVIOUS
<1>0. /\ MaxLogs \in Nat \ {0} /\ sent \in Nat /\ sent' = sent + 1
      /\ log_tail \in Slot /\ log_count \in 0 .. MaxLogs
      /\ log_file \in Seq(Message) /\ log_file' = log_file
      /\ log_head = (log_tail + log_count) % MaxLogs
  BY LoggerAssumption DEF LoggerAssumption, TypeOK, Enqueue, RingInv, RingInStep
<1>1. CASE HasRoom
  <2> DEFINE c == log_count
  <2>1. /\ log_queue' = [log_queue EXCEPT ![log_head] = sent + 1]
        /\ log_tail' = log_tail /\ log_head' = Succ(log_head) /\ log_count' = c + 1
        /\ c \in 0 .. MaxLogs - 1
    BY <1>0, <1>1 DEF Enqueue, HasRoom
  <2>2. PICK n : n = log_count
    OBVIOUS
  <2>3. /\ \A k \in 0 .. n - 1 : Queued(k)' = Queued(k)
        /\ Queued(n)' = sent + 1
    <3> HIDE DEF c
    <3> QED
      BY <1>1, <2>1, <2>2, Put DEF RingInv
  <2>4. log_head' = (log_tail' + log_count') % MaxLogs
    BY <1>0, <2>1, HeadMoves
  <2>5. \A k \in 0 .. n - 1 : Queued(k) \in 1 .. sent
    BY <2>2 DEF RingInv, RingInStep
  <2>6. \A k \in 0 .. n : Queued(k)' \in 1 .. sent + 1
    BY <1>0, <2>2, <2>3, <2>5
  <2>7. \A j, k \in 0 .. n : j < k => Queued(j)' < Queued(k)'
    <3>1. \A j, k \in 0 .. n - 1 : j < k => Queued(j) < Queued(k)
      BY <2>2 DEF RingInv, RingInStep
    <3> QED
      BY <1>0, <2>2, <2>3, <2>5, <3>1
  <2>8. log_count' - 1 = n
    BY <1>0, <2>1, <2>2
  <2>9. RingInStep'
    BY <1>0, <2>4, <2>6, <2>7, <2>8 DEF RingInStep
  <2>10. FileBeforeRing'
    <3>1. \A i \in DOMAIN log_file :
            log_file[i] \in 1 .. sent /\ \A k \in 0 .. n - 1 : log_file[i] < Queued(k)
      BY <2>2 DEF RingInv, FileBeforeRing
    <3>2. \A i \in DOMAIN log_file :
            log_file[i] \in 1 .. sent + 1 /\ \A k \in 0 .. n : log_file[i] < Queued(k)'
      BY <1>0, <2>2, <2>3, <3>1
    <3> QED
      BY <1>0, <2>8, <3>2 DEF FileBeforeRing
  <2> QED
    BY <1>0, <2>9, <2>10 DEF RingInv, FileInOrder
<1>2. CASE ~HasRoom
  <2>1. UNCHANGED <<log_queue, log_head, log_tail, log_count>>
    BY <1>2 DEF Enqueue, ring
  <2>2. \A k : Queued(k)' = Queued(k)
    BY <2>1 DEF Queued
  <2>3. \A x \in 1 .. sent : x \in 1 .. sent'
    BY <1>0
  <2> QED
    BY <1>0, <2>1, <2>2, <2>3 DEF RingInv, RingInStep, FileBeforeRing, FileInOrder
<1> QED
  BY <1>1, <1>2

\* The message that is written is younger than the file and older than the
\* rest of the ring.
LEMMA WriteStep == TypeOK /\ RingInv /\ WriteLog => RingInv'
<1> SUFFICES ASSUME TypeOK, RingInv, WriteLog PROVE RingInv'
  OBVIOUS
<1>0. /\ MaxLogs \in Nat \ {0} /\ sent \in Nat /\ sent' = sent
      /\ log_tail \in Slot /\ log_count \in 0 .. MaxLogs /\ log_count > 0
      /\ log_queue' = log_queue /\ log_tail' = Succ(log_tail)
      /\ log_head' = log_head /\ log_count' = log_count - 1
      /\ log_file \in Seq(Message)
      /\ log_file' = Append(log_file, log_queue[log_tail])
  BY LoggerAssumption DEF LoggerAssumption, TypeOK, WriteLog
<1>1. PICK n : n = log_count
  OBVIOUS
<1>2. n \in 1 .. MaxLogs /\ log_count' = n - 1
  BY <1>0, <1>1
<1>3. log_queue[log_tail] = Queued(0)
  BY <1>0, SmallMod DEF Queued
<1>4. \A k \in 0 .. n - 2 : Queued(k)' = Queued(k + 1)
  BY <1>0, <1>1, Take
<1>5. /\ \A k \in 0 .. n - 1 : Queued(k) \in 1 .. sent
      /\ \A j, k \in 0 .. n - 1 : j < k => Queued(j) < Queued(k)
      /\ log_head = (log_tail + n) % MaxLogs
  BY <1>1 DEF RingInv, RingInStep
<1>6. log_head' = (log_tail' + log_count') % MaxLogs
  <2>1. n - 1 \in 0 .. MaxLogs - 1 /\ (n - 1) + 1 = n
    BY <1>0, <1>2
  <2> QED
    BY <1>0, <1>2, <1>5, <2>1, HeadMoves
<1>7. \A k \in 0 .. n - 2 : Queued(k)' \in 1 .. sent
  BY <1>2, <1>4, <1>5
<1>8. \A j, k \in 0 .. n - 2 : j < k => Queued(j)' < Queued(k)'
  BY <1>2, <1>4, <1>5
<1>9. log_count' - 1 = n - 2
  BY <1>2
<1>10. RingInStep'
  BY <1>0, <1>6, <1>7, <1>8, <1>9 DEF RingInStep
<1>11. /\ DOMAIN log_file' = 1 .. Len(log_file) + 1
       /\ DOMAIN log_file = 1 .. Len(log_file) /\ Len(log_file) \in Nat
       /\ \A i \in DOMAIN log_file : log_file'[i] = log_file[i]
       /\ log_file'[Len(log_file) + 1] = Queued(0)
  <2>1. Queued(0) \in Nat
    BY <1>0, <1>2, <1>5
  <2> QED
    BY <1>0, <1>3, <2>1
<1>12. \A i \in DOMAIN log_file :
         log_file[i] \in 1 .. sent /\ \A k \in 0 .. n - 1 : log_file[i] < Queued(k)
  BY <1>1 DEF RingInv, FileBeforeRing
<1>13. FileBeforeRing'
  <2>1. \A i \in DOMAIN log_file :
          log_file[i] \in 1 .. sent /\ \A k \in 0 .. n - 2 : log_file[i] < Queued(k)'
    BY <1>2, <1>4, <1>12
  <2>2. Queued(0) \in 1 .. sent /\ \A k \in 0 .. n - 2 : Queued(0) < Queued(k)'
    BY <1>2, <1>4, <1>5
  <2>3. \A i \in DOMAIN log_file' :
          log_file'[i] \in 1 .. sent /\ \A k \in 0 .. n - 2 : log_file'[i] < Queued(k)'
    BY <1>11, <2>1, <2>2
  <2> QED
    BY <1>0, <1>9, <2>3 DEF FileBeforeRing
<1>14. FileInOrder'
  <2>1. \A i \in DOMAIN log_file : log_file[i] < Queued(0)
    BY <1>2, <1>12
  <2>2. \A i, j \in DOMAIN log_file : i < j => log_file[i] < log_file[j]
    BY DEF RingInv, FileInOrder
  <2> QED
    BY <1>11, <2>1, <2>2 DEF FileInOrder
<1> QED
  BY <1>10, <1>13, <1>14 DEF RingInv

LEMMA LogStep == LogInv /\ [Next]_vars => LogInv'
<1> SUFFICES ASSUME LogInv, [Next]_vars PROVE LogInv'
  OBVIOUS
<1>0. TypeOK /\ Discipline /\ RingInv
  BY DEF LogInv
<1>1. TypeOK' /\ Discipline'
  BY <1>0, TypeLogStep, DisciplineStep DEF RingInv
<1>2. RingInv'
  <2>1. CASE Enqueue
    BY <1>0, <2>1, EnqueueStep
  <2>2. CASE WriteLog
    BY <1>0, <2>2, WriteStep
  <2>3. CASE LoggerInit
    <3>1. log_count' = 0 /\ log_head' = 0 /\ log_tail' = 0 /\ log_file' = log_file /\ sent' = sent
      BY <2>3 DEF LoggerInit, ResetRing
    <3>2. 0 \in Slot
      BY LoggerAssumption DEF LoggerAssumption, Slot
    <3>3. log_head' = (log_tail' + log_count') % MaxLogs
      BY <3>1, <3>2, SmallMod
    <3> QED
      BY <1>0, <3>1, <3>3 DEF RingInv, RingInStep, FileBeforeRing, FileInOrder
  <2>4. CASE Call \/ CallerLock \/ SetStop \/ Join \/ OpenLog \/ WriterLock \/ Wait
             \/ Leave \/ Drained \/ WakeUp \/ UNCHANGED vars
    <3>1. UNCHANGED <<ring, log_file, sent>>
      BY <2>4 DEF Call, CallerLock, SetStop, Join, OpenLog, WriterLock, Wait, Leave,
                  Drained, WakeUp, vars
    <3> QED
      BY <1>0, <3>1, SameRing
  <2> QED
    BY <2>1, <2>2, <2>3, <2>4 DEF Next, InsideLogger, LogThread
<1> QED
  BY <1>1, <1>2 DEF LogInv

LEMMA LogInit == Init => LogInv
<1> SUFFICES ASSUME Init PROVE LogInv
  OBVIOUS
<1>0. MaxLogs \in Nat \ {0} /\ MaxMessages \in Nat /\ MaxSpurious \in Nat
  BY LoggerAssumption DEF LoggerAssumption
<1>1. TypeOK
  BY <1>0 DEF Init, TypeOK, Slot, CallerAt, WriterAt
<1>2. Discipline
  BY DEF Init, Discipline
<1>3. 0 \in Slot /\ log_head = (log_tail + log_count) % MaxLogs
  BY <1>0, SmallMod DEF Init, Slot
<1>4. RingInv
  BY <1>3 DEF Init, RingInv, RingInStep, FileBeforeRing, FileInOrder
<1> QED
  BY <1>1, <1>2, <1>4 DEF LogInv

LEMMA LogAlways == Spec => []LogInv
BY LogInit, LogStep, PTL DEF Spec

-----------------------------------------------------------------------------
(* The theorems.                                                           *)

\* Every reachable state of logger and callers is well typed.
THEOREM LoggerTypeCorrect == Spec => []TypeOK
<1>1. LogInv => TypeOK
  BY DEF LogInv
<1> QED
  BY <1>1, LogAlways, PTL

\* Head, tail and count of the ring agree for a ring of any length.
THEOREM RingCorrect == Spec => []RingInStep
<1>1. LogInv => RingInStep
  BY DEF LogInv, RingInv
<1> QED
  BY <1>1, LogAlways, PTL

\* fs.log has the messages in the order of the calls, each at most once.
THEOREM FileCorrect == Spec => []FileInOrder
<1>1. LogInv => FileInOrder
  BY DEF LogInv, RingInv
<1> QED
  BY <1>1, LogAlways, PTL

\* logger_cleanup does not return before every message is written.
THEOREM NothingLeftCorrect == Spec => []NothingLeft
<1>1. LogInv => NothingLeft
  BY DEF LogInv, Discipline, NothingLeft
<1> QED
  BY <1>1, LogAlways, PTL


-----------------------------------------------------------------------------
(* The log is the queue of LogQueue: every step is one of the queue's or    *)
(* leaves it alone.                                                         *)

LEMMA PendingParts ==
  ASSUME LogInv, NEW n, n = log_count
  PROVE  /\ n \in 0 .. MaxLogs /\ n \in Nat /\ MaxLogs \in Nat
         /\ Pending \in Seq(Nat) /\ Len(Pending) = n
         /\ \A k \in 1 .. n : Pending[k] = Queued(k - 1)
<1>1. n \in 0 .. MaxLogs /\ n \in Nat /\ sent \in Nat /\ MaxLogs \in Nat
  BY LoggerAssumption DEF LoggerAssumption, LogInv, TypeOK
<1>2. \A k \in 1 .. n : Queued(k - 1) \in Nat
  BY <1>1 DEF LogInv, RingInv, RingInStep
<1>3. Pending = [k \in 1 .. n |-> Queued(k - 1)]
  BY DEF Pending
<1> QED
  BY <1>1, <1>2, <1>3

LEMMA PendingEmpty ==
  ASSUME LogInv
  PROVE  Pending = <<>> <=> log_count = 0
<1>1. PICK n : n = log_count
  OBVIOUS
<1>2. Pending \in Seq(Nat) /\ Len(Pending) = n
  BY <1>1, PendingParts
<1> QED
  BY <1>1, <1>2

LEMMA PendingKept ==
  ASSUME UNCHANGED ring
  PROVE  Pending' = Pending
BY DEF Pending, Queued, ring

LEMMA SequenceOf ==
  ASSUME NEW s, s \in Seq(Nat), NEW n, n = Len(s)
  PROVE  s = [k \in 1 .. n |-> s[k]]
OBVIOUS

\* Enqueue accepts the message as the last one, or drops it when the ring is
\* full.
LEMMA EnqueueImplements ==
  ASSUME LogInv, Enqueue
  PROVE  Abstract!Accept \/ Abstract!Drop
<1>1. PICK n : n = log_count
  OBVIOUS
<1>2. /\ n \in 0 .. MaxLogs /\ n \in Nat /\ MaxLogs \in Nat
      /\ Pending \in Seq(Nat) /\ Len(Pending) = n
      /\ \A k \in 1 .. n : Pending[k] = Queued(k - 1)
  BY <1>1, PendingParts
<1>3. /\ caller = "enqueue" /\ caller' = "run" /\ sent' = sent + 1 /\ sent \in Nat
      /\ log_file' = log_file
  BY DEF Enqueue, LogInv, TypeOK
<1>4. (writer' # "failed") = (writer # "failed")
  BY DEF Enqueue, Signal
<1>5. CASE HasRoom
  <2>1. /\ log_queue' = [log_queue EXCEPT ![log_head] = sent + 1]
        /\ log_tail' = log_tail /\ log_count' = n + 1 /\ n < MaxLogs
    BY <1>1, <1>5 DEF Enqueue, HasRoom
  <2>2. TypeOK /\ RingInStep
    BY DEF LogInv, RingInv
  <2>3. /\ \A k \in 0 .. n - 1 : Queued(k)' = Queued(k)
        /\ Queued(n)' = sent + 1
    BY <1>1, <1>5, <2>1, <2>2, Put
  <2>4. Pending' = Append(Pending, sent')
    <3>1. Pending' = [k \in 1 .. n + 1 |-> Queued(k - 1)']
      BY <2>1 DEF Pending
    <3>2. \A k \in 1 .. n : Queued(k - 1)' = Pending[k]
      BY <1>2, <2>3
    <3>3. Queued((n + 1) - 1)' = sent'
      <4>1. (n + 1) - 1 = n
        BY <1>2
      <4> QED
        BY <1>3, <2>3, <4>1
    <3>4. \A k \in 1 .. n + 1 : Queued(k - 1)' = Append(Pending, sent')[k]
      BY <1>2, <3>2, <3>3
    <3>5. Append(Pending, sent') \in Seq(Nat) /\ Len(Append(Pending, sent')) = n + 1
      BY <1>2, <1>3
    <3>6. Pending' = [k \in 1 .. n + 1 |-> Append(Pending, sent')[k]]
      BY <3>1, <3>4
    <3>7. PICK s, m : s = Append(Pending, sent') /\ m = n + 1
      OBVIOUS
    <3>8. s = [k \in 1 .. m |-> s[k]]
      BY <3>5, <3>7, SequenceOf
    <3> QED
      BY <3>6, <3>7, <3>8
  <2> QED
    BY <1>2, <1>3, <1>4, <2>1, <2>4 DEF Abstract!Accept
<1>6. CASE ~HasRoom
  <2>1. UNCHANGED ring
    BY <1>6 DEF Enqueue
  <2>2. n = MaxLogs
    BY <1>1, <1>2, <1>6 DEF HasRoom
  <2> QED
    BY <1>2, <1>3, <1>4, <2>1, <2>2, PendingKept DEF Abstract!Drop
<1> QED
  BY <1>5, <1>6

\* WriteLog writes the oldest message of the queue.
LEMMA WriteImplements ==
  ASSUME LogInv, WriteLog
  PROVE  Abstract!Write
<1>1. PICK n : n = log_count
  OBVIOUS
<1>2. /\ n \in 0 .. MaxLogs /\ n \in Nat /\ MaxLogs \in Nat
      /\ Pending \in Seq(Nat) /\ Len(Pending) = n
      /\ \A k \in 1 .. n : Pending[k] = Queued(k - 1)
  BY <1>1, PendingParts
<1>3. /\ n > 0 /\ log_count' = n - 1 /\ log_queue' = log_queue /\ log_tail' = Succ(log_tail)
      /\ log_file' = Append(log_file, log_queue[log_tail])
      /\ caller' = caller /\ sent' = sent
      /\ writer # "failed" /\ writer' # "failed"
  BY <1>1 DEF WriteLog
<1>4. TypeOK /\ log_tail \in Slot
  BY DEF LogInv, TypeOK
<1>5. Head(Pending) = log_queue[log_tail]
  <2>1. Head(Pending) = Queued(1 - 1)
    BY <1>2, <1>3
  <2>2. 1 - 1 = 0
    OBVIOUS
  <2> QED
    BY <1>4, <2>1, <2>2, SmallMod DEF Queued
<1>6. Pending' = Tail(Pending)
  <2>1. Pending' = [k \in 1 .. n - 1 |-> Queued(k - 1)']
    BY <1>3 DEF Pending
  <2>2. \A k \in 0 .. n - 2 : Queued(k)' = Queued(k + 1)
    BY <1>1, <1>3, <1>4, Take
  <2>3. \A k \in 1 .. n - 1 : Queued(k - 1)' = Queued((k + 1) - 1)
    <3>1. ASSUME NEW k, k \in 1 .. n - 1 PROVE Queued(k - 1)' = Queued((k + 1) - 1)
      <4>1. k - 1 \in 0 .. n - 2 /\ (k - 1) + 1 = (k + 1) - 1
        BY <1>2, <3>1
      <4> QED
        BY <2>2, <4>1
    <3> QED
      BY <3>1
  <2>4. \A k \in 1 .. n - 1 : Queued((k + 1) - 1) = Tail(Pending)[k]
    <3>1. ASSUME NEW k, k \in 1 .. n - 1 PROVE Queued((k + 1) - 1) = Tail(Pending)[k]
      <4>1. k + 1 \in 1 .. n /\ Tail(Pending)[k] = Pending[k + 1]
        BY <1>2, <1>3, <3>1
      <4> QED
        BY <1>2, <4>1
    <3> QED
      BY <3>1
  <2>5. Tail(Pending) \in Seq(Nat) /\ Len(Tail(Pending)) = n - 1
    BY <1>2, <1>3
  <2>6. Pending' = [k \in 1 .. n - 1 |-> Tail(Pending)[k]]
    BY <2>1, <2>3, <2>4
  <2>7. PICK s, m : s = Tail(Pending) /\ m = n - 1
    OBVIOUS
  <2>8. s = [k \in 1 .. m |-> s[k]]
    BY <2>5, <2>7, SequenceOf
  <2> QED
    BY <2>6, <2>7, <2>8
<1>7. Pending # <<>>
  BY <1>2, <1>3
<1> QED
  BY <1>3, <1>5, <1>6, <1>7 DEF Abstract!Write

LEMMA QueueInit == Init => Abstract!Init
<1> SUFFICES ASSUME Init PROVE Abstract!Init
  OBVIOUS
<1>1. LogInv /\ log_count = 0
  BY LogInit DEF Init
<1>2. Pending = <<>>
  BY <1>1, PendingEmpty
<1> QED
  BY <1>2 DEF Init, Abstract!Init

LEMMA QueueStep == LogInv /\ LogInv' /\ [Next]_vars => [Abstract!Next]_(Abstract!vars)
<1> SUFFICES ASSUME LogInv, LogInv', [Next]_vars PROVE [Abstract!Next]_(Abstract!vars)
  OBVIOUS
<1>1. CASE Enqueue
  BY <1>1, EnqueueImplements DEF Abstract!Next
<1>2. CASE WriteLog
  BY <1>2, WriteImplements DEF Abstract!Next
<1>3. CASE LoggerInit
  <2>1. Pending' = <<>>
    <3>1. log_count' = 0
      BY <1>3 DEF LoggerInit, ResetRing
    <3>2. Pending' = [k \in 1 .. 0 |-> Queued(k - 1)']
      BY <3>1 DEF Pending
    <3> QED
      BY <3>2
  <2> QED
    BY <1>3, <2>1 DEF LoggerInit, Abstract!Start, Abstract!Next
<1>4. CASE OpenLog
  <2>1. Pending' = Pending
    BY <1>4, PendingKept DEF OpenLog
  <2>2. caller # "down" /\ writer = "open"
    BY <1>4 DEF OpenLog, LogInv, Discipline
  <2>3. CASE writer' = "failed"
    BY <1>4, <2>1, <2>2, <2>3 DEF OpenLog, Abstract!Break, Abstract!Next
  <2>4. CASE writer' = "lock"
    BY <1>4, <2>1, <2>2, <2>4 DEF OpenLog, Abstract!vars
  <2> QED
    BY <1>4, <2>3, <2>4 DEF OpenLog
<1>5. CASE Join
  <2>1. Pending' = Pending
    BY <1>5, PendingKept DEF Join
  <2>2. writer # "failed" => Pending = <<>>
    BY <1>5, PendingEmpty DEF Join, LogInv, Discipline
  <2> QED
    BY <1>5, <2>1, <2>2 DEF Join, Abstract!Stop, Abstract!Next
<1>6. CASE Call \/ CallerLock \/ SetStop \/ WriterLock \/ Wait \/ Leave \/ Drained
           \/ WakeUp \/ UNCHANGED vars
  <2>1. UNCHANGED <<ring, log_file, sent>>
    BY <1>6 DEF Call, CallerLock, SetStop, WriterLock, Wait, Leave, Drained, WakeUp, vars
  <2>2. Pending' = Pending
    BY <2>1, PendingKept
  <2>3. (caller' # "down") = (caller # "down") /\ (writer' # "failed") = (writer # "failed")
    BY <1>6 DEF Call, CallerLock, SetStop, WriterLock, Wait, Leave, Drained, WakeUp, vars,
                Signal
  <2> QED
    BY <2>1, <2>2, <2>3 DEF Abstract!vars
<1> QED
  BY <1>1, <1>2, <1>3, <1>4, <1>5, <1>6 DEF Next, InsideLogger, LogThread

\* logger.c is the bounded queue of LogQueue, for a ring of any length: every
\* step of the two threads under the mutex accepts a message, drops one for
\* want of room, writes the oldest one, starts or stops the queue, breaks it,
\* or does nothing to it.  (That what was accepted is written in the end is
\* liveness.)
THEOREM QueueCorrect == Spec => Abstract!Init /\ [][Abstract!Next]_(Abstract!vars)
BY QueueInit, QueueStep, LogAlways, PTL DEF Spec
=============================================================================
