--------------------------- MODULE LogFileProofs ---------------------------
(***************************************************************************)
(* The bounds of LogFile for any sizes, intervals and periods.              *)
(***************************************************************************)
EXTENDS LogFile, TLAPS

\* The strengthening.  Messages count as late or waiting only from some moment
\* on, from which each of them also advances m_cnt; both are forgotten when
\* the check resets m_cnt.
Counted == /\ late <= cnt /\ (late > 0 => StartOfPeriod(clock) > start)
           /\ waiting <= cnt /\ (waiting > 0 => clock - flushed > FlushInterval)

IInv == TypeOK /\ SizeBound /\ Counted

LEMMA Monotone ==
  ASSUME NEW a \in Nat, NEW b \in Nat, a <= b
  PROVE  /\ StartOfPeriod(a) \in Nat
         /\ StartOfPeriod(a) <= StartOfPeriod(b)
<1>1. a \div Period \in Nat /\ b \div Period \in Nat
    BY LogFileAssumption
<1>2. a \div Period <= b \div Period
    BY LogFileAssumption
<1> QED
    BY <1>1, <1>2, LogFileAssumption DEF StartOfPeriod

LEMMA InitInv == Init => IInv
<1> SUFFICES ASSUME Init PROVE IInv
    OBVIOUS
<1>1. clock \in Nat /\ clock >= 1 /\ clock <= MaxClock
    BY LogFileAssumption DEF Init
<1> QED
    BY <1>1, LogFileAssumption
    DEF Init, IInv, TypeOK, SizeBound, Counted

\* The types SMT needs, once.
LEMMA Types ==
  ASSUME IInv
  PROVE  /\ clock \in Nat /\ last \in Nat /\ cnt \in Nat /\ roll \in Nat
         /\ flushed \in Nat /\ bytes \in Nat /\ late \in Nat /\ waiting \in Nat
         /\ 1 <= last /\ last <= clock /\ clock <= MaxClock
         /\ 1 <= roll /\ roll <= flushed /\ flushed <= clock
         /\ cnt < CheckEveryN
BY LogFileAssumption DEF IInv, TypeOK

\* What RollFile does with a file that is over the roll size or past its day:
\* it is left as it is only in the second it was opened in.
LEMMA RollInv ==
  ASSUME IInv, NEW later \in clock..MaxClock, clock' = later, last' = clock,
         NEW written \in Nat, NEW day \in Nat, NEW old \in Nat,
         RollFile(later, written, day, old),
         cnt' \in 0..(CheckEveryN - 1),
         \/ later > roll
         \/ day = late /\ old = waiting /\ cnt' = cnt
  PROVE  IInv'
<1>1. later \in Nat /\ clock <= later /\ later <= MaxClock
    BY Types, LogFileAssumption
<1>2. CASE later > roll
  <2>1. /\ roll' = later /\ flushed' = later /\ start' = StartOfPeriod(later)
        /\ bytes' = 0 /\ late' = 0 /\ waiting' = 0
    BY <1>2 DEF RollFile
  <2> QED
    BY <1>1, <2>1, Types, LogFileAssumption DEF IInv, TypeOK, SizeBound, Counted
<1>3. CASE ~(later > roll)
  <2>1. /\ bytes' = written /\ late' = late /\ waiting' = waiting /\ cnt' = cnt
        /\ UNCHANGED <<roll, flushed, start>>
    BY <1>3 DEF RollFile
  <2>2. later = clock /\ clock = roll
    BY <1>1, <1>3, Types
  <2> QED
    BY <1>1, <2>1, <2>2, Types, LogFileAssumption
    DEF IInv, TypeOK, SizeBound, Counted
<1> QED
    BY <1>2, <1>3

LEMMA AppendInv ==
  ASSUME IInv, NEW size \in Sizes, NEW later \in clock..MaxClock,
         Append(size, later)
  PROVE  IInv'
<1> DEFINE day == IF StartOfPeriod(clock) > start THEN late + 1 ELSE late
           old == IF clock - flushed > FlushInterval THEN waiting + 1 ELSE waiting
<1>1. /\ later \in Nat /\ clock <= later /\ later <= MaxClock
      /\ clock' = later /\ last' = clock
    BY Types, LogFileAssumption DEF Append
<1>2. PICK w \in Written(size) :
        IF bytes + w > RollSize
        THEN RollFile(later, bytes + w, day, old) /\ UNCHANGED cnt
        ELSE IF CheckDue
        THEN cnt' = 0 /\ CheckTime(clock, later, bytes + w, day, old)
        ELSE /\ cnt' = cnt + 1
             /\ bytes' = bytes + w /\ late' = day /\ waiting' = old
             /\ UNCHANGED <<start, roll, flushed>>
    BY DEF Append
<1>3. w \in Nat /\ bytes + w \in Nat /\ day \in Nat /\ old \in Nat
    BY Types, LogFileAssumption DEF Written
<1>4. /\ StartOfPeriod(clock) \in Nat /\ StartOfPeriod(later) \in Nat
      /\ StartOfPeriod(clock) <= StartOfPeriod(later)
      /\ start = StartOfPeriod(roll) /\ start \in Nat
    BY <1>1, Types, Monotone DEF IInv, TypeOK
<1>5. clock = roll => day = late /\ old = waiting
    BY <1>4, Types, LogFileAssumption
<1> HIDE DEF day, old
<1>6. CASE bytes + w > RollSize
  <2>1. RollFile(later, bytes + w, day, old) /\ cnt' = cnt
    BY <1>2, <1>6
  <2>2. later > roll \/ (day = late /\ old = waiting /\ cnt' = cnt)
    BY <1>1, <1>5, <2>1, Types
  <2>3. cnt' \in 0..(CheckEveryN - 1)
    BY <2>1, Types, LogFileAssumption
  <2> QED
    BY <1>1, <1>3, <2>1, <2>2, <2>3, RollInv
<1>7. CASE ~(bytes + w > RollSize) /\ CheckDue
  <2>1. cnt' = 0 /\ CheckTime(clock, later, bytes + w, day, old)
    BY <1>2, <1>7
  <2>2. cnt' \in 0..(CheckEveryN - 1)
    BY <2>1, LogFileAssumption
  <2>3. CASE StartOfPeriod(clock) > start
    <3>1. RollFile(later, bytes + w, day, old)
      BY <2>1, <2>3 DEF CheckTime
    <3>2. later > roll
      BY <1>1, <1>4, <2>3, Types
    <3> QED
      BY <1>1, <1>3, <2>2, <3>1, <3>2, RollInv
  <2>4. CASE ~(StartOfPeriod(clock) > start)
    <3>1. day = 0
      BY <2>4, <1>4, Types DEF day, IInv, Counted
    <3>2. /\ bytes' = bytes + w /\ late' = 0 /\ UNCHANGED <<start, roll>>
          /\ IF clock - flushed > FlushInterval
             THEN flushed' = clock /\ waiting' = 0
             ELSE UNCHANGED flushed /\ waiting' = old
      BY <2>1, <2>4, <3>1 DEF CheckTime
    <3>3. waiting' = 0 /\ flushed' \in {flushed, clock}
      BY <3>2, Types, LogFileAssumption DEF old, IInv, Counted
    <3> QED
      BY <1>1, <1>3, <1>7, <2>1, <2>2, <3>2, <3>3, Types, LogFileAssumption
      DEF IInv, TypeOK, SizeBound, Counted
  <2> QED
    BY <2>3, <2>4
<1>8. CASE ~(bytes + w > RollSize) /\ ~CheckDue
  <2>1. /\ cnt' = cnt + 1
        /\ bytes' = bytes + w /\ late' = day /\ waiting' = old
        /\ UNCHANGED <<start, roll, flushed>>
    BY <1>2, <1>8
  <2>2. cnt' \in 0..(CheckEveryN - 1)
    BY <1>8, <2>1, Types, LogFileAssumption DEF CheckDue
  <2>3. day <= cnt + 1 /\ (day > 0 => StartOfPeriod(later) > start)
    BY <1>4, Types DEF day, IInv, Counted
  <2>4. old <= cnt + 1 /\ (old > 0 => later - flushed > FlushInterval)
    BY <1>1, Types, LogFileAssumption DEF old, IInv, Counted
  <2> QED
    BY <1>1, <1>3, <1>8, <2>1, <2>2, <2>3, <2>4, Types, LogFileAssumption
    DEF IInv, TypeOK, SizeBound, Counted
<1> QED
    BY <1>6, <1>7, <1>8

LEMMA StepInv == IInv /\ [Next]_vars => IInv'
<1> SUFFICES ASSUME IInv, [Next]_vars PROVE IInv'
    OBVIOUS
<1>1. ASSUME NEW size \in Sizes, NEW later \in clock..MaxClock,
             Append(size, later)
      PROVE  IInv'
    BY <1>1, AppendInv
<1>2. CASE Flush
    BY <1>2, Types DEF Flush, IInv, TypeOK, SizeBound, Counted
<1>3. CASE Tick
  <2>1. /\ clock' = clock + 1 /\ clock < MaxClock
        /\ UNCHANGED <<cnt, start, roll, flushed, bytes, last, late, waiting>>
    BY <1>3 DEF Tick
  <2>2. /\ StartOfPeriod(clock) \in Nat /\ StartOfPeriod(clock + 1) \in Nat
        /\ StartOfPeriod(clock) <= StartOfPeriod(clock + 1)
        /\ start = StartOfPeriod(roll) /\ start \in Nat
    BY Types, Monotone DEF IInv, TypeOK
  <2> QED
    BY <2>1, <2>2, Types, LogFileAssumption DEF IInv, TypeOK, SizeBound, Counted
<1>4. CASE UNCHANGED vars
    BY <1>4 DEF vars, IInv, TypeOK, SizeBound, Counted
<1> QED
    BY <1>1, <1>2, <1>3, <1>4 DEF Next

LEMMA Invariance == Spec => []IInv
BY InitInv, StepInv, PTL DEF Spec

\* The file's times are not in the future and belong to the current file
\* (LogFile.cpp:75-90).
THEOREM TypeCorrect == Spec => []TypeOK
<1>1. IInv => TypeOK
    BY DEF IInv
<1> QED
    BY <1>1, Invariance, PTL

\* Whatever the sizes, the intervals and the failures, an oversized file is left
\* only in the second it was opened in (LogFile.cpp:54-56, 82).
THEOREM FilesAreRolled == Spec => []SizeBound
<1>1. IInv => SizeBound
    BY DEF IInv
<1> QED
    BY <1>1, Invariance, PTL

\* Fewer than m_check_every_N messages miss a new day (LogFile.cpp:58-66).
THEOREM DaysAreNoticed == Spec => []DayBound
<1>1. IInv => DayBound
    BY Types, LogFileAssumption DEF IInv, Counted, DayBound
<1> QED
    BY <1>1, Invariance, PTL

\* Fewer than m_check_every_N messages wait for a flush that is due
\* (LogFile.cpp:67-71).
THEOREM FlushesAreNoticed == Spec => []FlushBound
<1>1. IInv => FlushBound
    BY Types, LogFileAssumption DEF IInv, Counted, FlushBound
<1> QED
    BY <1>1, Invariance, PTL
=============================================================================
