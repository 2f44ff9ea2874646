------------------------------ MODULE LogFile ------------------------------
(***************************************************************************)
(* The log file of the back end: a message is appended to the current file, *)
(* and then the file may be rolled, because of its size or because a new    *)
(* day has begun, or flushed.  A file is named after the second it is       *)
(* opened in, so at most one is opened in a second.                         *)
(*                                                                          *)
(* One thread uses a LogFile, so an operation is one step; the clock may go *)
(* on while append() runs, which reads it twice.  It is not set back.       *)
(***************************************************************************)
EXTENDS Naturals

CONSTANTS Sizes,          \* bytes of a message
          RollSize,       \* m_roll_size
          FlushInterval,  \* m_flush_interval
          CheckEveryN,    \* m_check_every_N
          Period,         \* kRollPerSeconds
          MayFail,        \* whether fwrite() may fail
          MaxClock,       \* bound: the clock
          MaxBytes        \* bound: the file's size before an append()

ASSUME LogFileAssumption ==
  /\ Sizes \subseteq Nat
  /\ RollSize \in Nat /\ FlushInterval \in Nat
  /\ CheckEveryN \in Nat \ {0} /\ Period \in Nat \ {0}
  /\ MayFail \in BOOLEAN
  /\ MaxClock \in Nat /\ Period <= MaxClock
  /\ MaxBytes \in Nat

VARIABLES
  clock,    \* ::time()
  cnt,      \* m_cnt
  start,    \* m_start_of_period
  roll,     \* m_last_roll, which is also the current file's name
  flushed,  \* m_last_flush
  bytes,    \* m_writed_bytes of the current file
  last,     \* history: when append() was called last
  late,     \* history: messages in the file since its period ended
  waiting   \* history: messages appended since a flush was due and not flushed

vars == <<clock, cnt, start, roll, flushed, bytes, last, late, waiting>>

StartOfPeriod(now) == (now \div Period) * Period

Init == /\ clock \in 1..Period
        /\ cnt = 0
        /\ start = StartOfPeriod(clock)
        /\ roll = clock /\ flushed = clock
        /\ bytes = 0
        /\ last = clock
        /\ late = 0 /\ waiting = 0

\* Mutant: the seconds since the last roll are not looked at, but whether the
\* roll is in a new period.
RollFileDaily(now, written, day, old) ==
  IF StartOfPeriod(now) > start
  THEN /\ roll' = now /\ flushed' = now
       /\ start' = StartOfPeriod(now)
       /\ bytes' = 0 /\ late' = 0 /\ waiting' = 0
  ELSE /\ bytes' = written /\ late' = day /\ waiting' = old
       /\ UNCHANGED <<roll, flushed, start>>

\* rollFile(); the three values are those of the file the message is now in.
RollFile(now, written, day, old) ==
  IF now > roll
  THEN /\ roll' = now /\ flushed' = now
       /\ start' = StartOfPeriod(now)
       /\ bytes' = 0 /\ late' = 0 /\ waiting' = 0
  ELSE /\ bytes' = written /\ late' = day /\ waiting' = old
       /\ UNCHANGED <<roll, flushed, start>>

\* Mutant: the check of the time comes one message later.
CheckDueLate == cnt + 1 > CheckEveryN

\* ++m_cnt; if (m_cnt >= m_check_every_N)
CheckDue == cnt + 1 >= CheckEveryN

\* Mutant: the flush is left to LogFile::flush().
CheckTimeNoFlush(now, later, written, day, old) ==
  IF StartOfPeriod(now) > start THEN RollFile(later, written, day, old)
  ELSE /\ bytes' = written /\ late' = day /\ waiting' = old
       /\ UNCHANGED <<start, roll, flushed>>

\* What append_unlocked() does every m_check_every_N messages
CheckTime(now, later, written, day, old) ==
  IF StartOfPeriod(now) > start THEN RollFile(later, written, day, old)
  ELSE /\ bytes' = written /\ late' = day
       /\ UNCHANGED <<start, roll>>
       /\ IF now - flushed > FlushInterval
          THEN flushed' = now /\ waiting' = 0
          ELSE UNCHANGED flushed /\ waiting' = old

\* AppendFile::append(): a short fwrite() has failed, and nothing is counted.
Written(size) == IF MayFail THEN {0, size} ELSE {size}

\* append(): the time check reads the clock, and rollFile() reads it again.
Append(size, later) ==
  /\ bytes <= MaxBytes
  /\ clock' = later /\ last' = clock
  /\ LET day == IF StartOfPeriod(clock) > start THEN late + 1 ELSE late
         old == IF clock - flushed > FlushInterval THEN waiting + 1 ELSE waiting
     IN  \E w \in Written(size) :
           IF bytes + w > RollSize
           THEN RollFile(later, bytes + w, day, old) /\ UNCHANGED cnt
           ELSE IF CheckDue
           THEN cnt' = 0 /\ CheckTime(clock, later, bytes + w, day, old)
           ELSE /\ cnt' = cnt + 1
                /\ bytes' = bytes + w /\ late' = day /\ waiting' = old
                /\ UNCHANGED <<start, roll, flushed>>

\* LogFile::flush(), which the back end calls after every batch; m_last_flush
\* is left alone.
Flush == /\ waiting' = 0
         /\ UNCHANGED <<clock, cnt, start, roll, flushed, bytes, last, late>>

Tick == /\ clock < MaxClock
        /\ clock' = clock + 1
        /\ UNCHANGED <<cnt, start, roll, flushed, bytes, last, late, waiting>>

Next == \/ \E size \in Sizes, later \in clock..MaxClock :
             later <= clock + 1 /\ Append(size, later)
        \/ Flush
        \/ Tick

Spec == Init /\ [][Next]_vars

(***************************************************************************)
(* Properties                                                               *)
(***************************************************************************)
\* Type correctness; the times the file keeps are not in the future, and they
\* belong to the current file.
TypeOK == /\ clock \in 1..MaxClock /\ last \in 1..clock
          /\ cnt \in 0..(CheckEveryN - 1)
          /\ roll \in 1..clock /\ flushed \in roll..clock
          /\ start = StartOfPeriod(roll)
          /\ bytes \in Nat /\ late \in Nat /\ waiting \in Nat

\* A file outgrows the roll size only in the very second it was opened in,
\* when a new file would have the same name: the first append() after that
\* second rolls it, however much was written (LogFile.cpp:54-56, 82).
SizeBound == bytes > RollSize => last = roll

\* When a day has ended, fewer than m_check_every_N messages of the next one
\* end up in its file, whatever mix of sizes rolls it in between
\* (LogFile.cpp:58-66).
DayBound == late < CheckEveryN

\* Fewer than m_check_every_N messages wait for a flush that is due, even when
\* nobody calls flush() (LogFile.cpp:67-71).
FlushBound == waiting < CheckEveryN
=============================================================================
