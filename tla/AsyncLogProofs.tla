--------------------------- MODULE AsyncLogProofs ---------------------------
(***************************************************************************)
(* The buffer accounting of AsyncLog for any threads, entries and sizes.    *)
(***************************************************************************)
EXTENDS AsyncLog, SequenceTheorems, TLAPS

Buffers == Seq(Seq(Entries))

\* The strengthening: the spares are both there outside the part of the loop
\* that uses them.
Shape == /\ cur \in Seq(Entries)
         /\ buffers \in Buffers
         /\ toFile \in Buffers
         /\ next \in 0..1 /\ spare1 \in 0..1 /\ spare2 \in 0..1
         /\ bpc \notin {"write", "recycle"} => spare1 = 1 /\ spare2 = 1

Counted == Shape /\ BufferCount /\ RecycleSafe

\* append() keeps the count: it uses up m_next_buffer exactly when it adds the
\* first full buffer (AsyncLog.cpp:31-48).
LEMMA StepLog ==
  ASSUME Counted, NEW t \in Threads, NEW e \in Entries, Log(t, e)
  PROVE  Counted'
<1>1. /\ fate = "no"
      /\ UNCHANGED <<spare1, spare2, toFile, bpc>>
      /\ Store(e)
    BY DEF Log, backVars
<1>2. /\ Len(buffers) \in Nat /\ Len(buffers) + next = 1
      /\ next = 0 \/ next = 1
      /\ cur \in Seq(Entries) /\ buffers \in Buffers
    BY <1>1 DEF Counted, Shape, BufferCount, Buffers
<1>3. CASE Len(cur) < Capacity
  <2>1. cur' = Append(cur, e) /\ UNCHANGED <<next, buffers, fate>>
    BY <1>1, <1>3, Zenon DEF Store
  <2>2. cur' \in Seq(Entries)
    BY <2>1, <1>2
  <2> QED
    BY <1>1, <2>1, <2>2 DEF Counted, Shape, BufferCount, RecycleSafe
<1>4. CASE ~(Len(cur) < Capacity)
  <2>1. /\ buffers' = Append(buffers, cur)
        /\ IF next = 1 THEN cur' = <<e>> /\ next' = 0 /\ UNCHANGED fate
                       ELSE cur' = <<>> /\ next' = 1 /\ fate' = "null buffer"
    BY <1>1, <1>4, Zenon DEF Store
  <2>2. buffers' \in Buffers /\ Len(buffers') = Len(buffers) + 1
    <3>1. buffers' = Append(buffers, cur)
      BY <2>1
    <3> QED
      BY <3>1, <1>2 DEF Buffers
  <2>3. CASE next = 1
    <3>1. cur' = <<e>> /\ next' = 0 /\ fate' = "no"
      BY <2>1, <2>3, <1>1, Zenon
    <3>2. cur' \in Seq(Entries)
      BY <3>1
    <3>3. Len(buffers') + next' = 1
      BY <3>1, <2>2, <2>3, <1>2
    <3> QED
      BY <1>1, <2>2, <3>1, <3>2, <3>3 DEF Counted, Shape, BufferCount, RecycleSafe
  <2>4. CASE next = 0
    <3>1. cur' = <<>> /\ next' = 1 /\ fate' = "null buffer"
      <4>1. next # 1
        BY <2>4
      <4> QED
        BY <2>1, <4>1, Zenon
    <3>2. cur' \in Seq(Entries)
      <4>1. <<>> \in Seq(Entries)
        OBVIOUS
      <4> QED
        BY <3>1, <4>1, Zenon
    <3>3. /\ Shape /\ bpc' = bpc
          /\ fate' = "null buffer"
          /\ UNCHANGED <<spare1, spare2, toFile>>
          /\ bpc \in {"write", "recycle"} =>
               spare1 = 0 /\ Len(toFile) + spare2 = 2
      BY <1>1, <3>1 DEF Counted, BufferCount
    <3>4. next' \in 0..1
      <4>1. next' = 1
        BY <3>1, Zenon
      <4> QED
        BY <4>1
    <3>5. Shape'
      BY <2>2, <3>2, <3>3, <3>4 DEF Shape
    <3>6. Len(buffers') = 2
      <4>1. Len(buffers) \in Nat /\ Len(buffers) + 0 = 1
        BY <1>2, <2>4
      <4>2. Len(buffers) = 1
        BY <4>1
      <4> QED
        BY <2>2, <4>2
    <3>7. BufferCount'
      BY <3>3, <3>6 DEF BufferCount
    <3>8. RecycleSafe'
      BY <3>3 DEF RecycleSafe
    <3> QED
      BY <3>5, <3>7, <3>8 DEF Counted
  <2> QED
    BY <1>2, <2>3, <2>4
<1> QED
    BY <1>3, <1>4

\* The critical section takes one buffer more than were full, and the second
\* spare exactly when that makes two (AsyncLog.cpp:65-77).
LEMMA StepTake ==
  ASSUME Counted, Take
  PROVE  Counted'
<1> USE DEF Counted, Shape, BufferCount, RecycleSafe, Buffers
<1>1. /\ fate = "no" /\ fate' = "no" /\ bpc' = "write"
      /\ spare2 = 1
      /\ toFile' = Append(buffers, cur) /\ buffers' = <<>> /\ cur' = <<>>
      /\ spare1' = 0
    BY DEF Take, BackAt
<1>2. /\ Append(buffers, cur) \in Buffers
      /\ Len(Append(buffers, cur)) = Len(buffers) + 1
      /\ Len(buffers) \in Nat /\ Len(buffers) + next = 1
    BY <1>1
<1>3. next' = 1 /\ spare2' \in 0..1 /\ spare2' = next
    BY <1>1 DEF Take
<1>4. Len(buffers') = 0 /\ buffers' \in Buffers /\ cur' \in Seq(Entries)
    BY <1>1
<1>5. Len(toFile') + spare2' = 2 /\ Len(buffers') + next' = 1
    BY <1>1, <1>2, <1>3, <1>4, SMT
<1> QED
    BY <1>1, <1>2, <1>3, <1>4, <1>5

\* Two buffers are never too many (AsyncLog.cpp:79-93).
LEMMA StepWrite ==
  ASSUME Counted, Write
  PROVE  Counted'
<1>1. Len(toFile) <= 2 /\ toFile \in Buffers
    BY DEF Counted, Shape, BufferCount, Write, BackAt, Buffers
<1>2. Trim(toFile) = toFile
    BY <1>1, LogAssumption DEF Trim, Buffers
<1>3. /\ UNCHANGED <<cur, next, buffers, spare1, spare2, toFile, fate>>
      /\ bpc = "write" /\ bpc' = "recycle"
    BY <1>2 DEF Write, BackAt, frontVars
<1> QED
    BY <1>3 DEF Counted, Shape, BufferCount, RecycleSafe

\* The spares find the buffers they need (AsyncLog.cpp:95-112).
LEMMA StepRecycle ==
  ASSUME Counted, Recycle
  PROVE  Counted'
<1>1. fate = "no" /\ bpc = "recycle" /\ bpc' = "flushed"
    BY DEF Recycle, BackAt
<1>2. Wanted <= Len(toFile)
    BY <1>1 DEF Counted, Shape, BufferCount, Wanted
<1>3. fate' = "no"
  <2>1. Len(toFile) \in Int /\ Wanted \in Int
    BY DEF Counted, Shape, Buffers, Wanted
  <2>2. ~(Len(toFile) < Wanted)
    BY <1>2, <2>1
  <2> QED
    BY <1>1, <2>2 DEF Recycle
<1>4. /\ UNCHANGED <<cur, next, buffers>>
      /\ spare1' = 1 /\ spare2' = 1 /\ toFile' = <<>>
    BY DEF Recycle, frontVars
<1> QED
    BY <1>1, <1>3, <1>4 DEF Counted, Shape, BufferCount, RecycleSafe, Buffers

\* The other steps leave the buffers alone.
LEMMA StepOther ==
  ASSUME Counted,
         \/ \E t \in Threads : RequestFlush(t) \/ AwaitFlush(t) \/ Abort(t)
         \/ Stop \/ CheckRunning \/ CheckFlush \/ Exit
         \/ UNCHANGED vars
  PROVE  Counted'
<1>1. /\ UNCHANGED <<cur, next, buffers, spare1, spare2, toFile>>
      /\ fate' = fate \/ (fate = "no" /\ fate' = "abort")
      /\ bpc' = bpc \/ (/\ bpc \notin {"write", "recycle"}
                        /\ bpc' \notin {"write", "recycle"})
    BY DEF RequestFlush, AwaitFlush, Abort, Stop, CheckRunning, CheckFlush, Exit,
           BackAt, frontVars, backVars, vars
<1> QED
    BY <1>1 DEF Counted, Shape, BufferCount, RecycleSafe

LEMMA CountedHolds == Spec => []Counted
<1>1. Init => Counted
    BY DEF Init, Counted, Shape, BufferCount, RecycleSafe, Buffers
<1>2. Counted /\ [Next]_vars => Counted'
    BY StepLog, StepTake, StepWrite, StepRecycle, StepOther DEF Next, Backend
<1> QED
    BY <1>1, <1>2, PTL DEF Spec

\* The full buffers and the spare ones add up, so the back end never writes more
\* than two at once and never drops any (AsyncLog.cpp:63-93).
THEOREM BuffersAccounted == Spec => []BufferCount
<1>1. Counted => BufferCount
    BY DEF Counted
<1> QED
    BY <1>1, CountedHolds, PTL

\* The back end always finds a buffer to recycle (AsyncLog.cpp:95-112).
THEOREM RecyclingIsSafe == Spec => []RecycleSafe
<1>1. Counted => RecycleSafe
    BY DEF Counted
<1> QED
    BY <1>1, CountedHolds, PTL

(***************************************************************************)
(* What at most two buffers hold, one after the other                       *)
(***************************************************************************)
LEMMA FlattenNone == FlattenSeq(<<>>) = <<>>
BY DEF FlattenSeq

LEMMA FlattenOne ==
  ASSUME NEW a
  PROVE  FlattenSeq(<<a>>) = a
BY DEF FlattenSeq

LEMMA FlattenTwo ==
  ASSUME NEW s, Len(s) = 2
  PROVE  FlattenSeq(s) = s[1] \o s[2]
<1> DEFINE Upto(f) == [i \in 1..Len(s) |-> IF i = 1 THEN s[i]
                                                    ELSE f[i - 1] \o s[i]]
           both == CHOOSE f : f = Upto(f)
           g == [i \in 1..Len(s) |-> IF i = 1 THEN s[1] ELSE s[1] \o s[2]]
<1>1. FlattenSeq(s) = IF Len(s) = 0 THEN s ELSE both[Len(s)]
    BY DEF FlattenSeq
<1>2. FlattenSeq(s) = both[2]
    BY <1>1
<1>3. g = Upto(g)
    OBVIOUS
<1>4. both = Upto(both)
    BY <1>3, Zenon
<1> HIDE DEF both
<1>5. both[1] = s[1]
    BY <1>4
<1>6. both[2] = both[1] \o s[2]
    BY <1>4
<1> QED
    BY <1>2, <1>5, <1>6

LEMMA BufferIsSeq == \A b \in Buffer : b \in Seq(Entries) /\ Len(b) <= Capacity
BY DEF Buffer

LEMMA OnlyElement ==
  ASSUME NEW S, NEW s \in Seq(S), Len(s) = 1
  PROVE  s = <<s[1]>>
<1>1. s[1] \in S
    BY ElementOfSeq
<1>2. /\ <<s[1]>> \in Seq(S) /\ Len(<<s[1]>>) = Len(s)
      /\ \A i \in 1..Len(s) : s[i] = <<s[1]>>[i]
    BY <1>1
<1> QED
    BY <1>2, SeqEqual

LEMMA NoElement ==
  ASSUME NEW S, NEW s \in Seq(S), Len(s) = 0
  PROVE  s = <<>>
BY EmptySeq

LEMMA FlattenType ==
  ASSUME NEW s \in Seq(Buffer), Len(s) <= 2
  PROVE  FlattenSeq(s) \in Seq(Entries)
<1>1. Len(s) \in Nat /\ \A i \in 1..Len(s) : s[i] \in Seq(Entries)
    BY LenProperties, ElementOfSeq, BufferIsSeq
<1>2. CASE Len(s) = 0
  <2>1. s = <<>>
    BY <1>2, NoElement
  <2>2. FlattenSeq(s) = <<>>
    BY <2>1, FlattenNone, Zenon
  <2> QED
    BY <2>2, EmptySeq
<1>3. CASE Len(s) = 1
  <2>1. s = <<s[1]>>
    BY <1>3, OnlyElement
  <2>2. FlattenSeq(s) = s[1]
    BY <2>1, FlattenOne, Zenon
  <2>3. s[1] \in Seq(Entries)
    BY <1>1, <1>3
  <2> QED
    BY <2>2, <2>3, Zenon
<1>4. CASE Len(s) = 2
  <2>1. s[1] \in Seq(Entries) /\ s[2] \in Seq(Entries)
    BY <1>1, <1>4
  <2>2. \A x, y \in Seq(Entries) : x \o y \in Seq(Entries)
    BY ConcatProperties
  <2>3. s[1] \o s[2] \in Seq(Entries)
    BY <2>1, <2>2, Zenon
  <2> QED
    BY <1>4, <2>3, FlattenTwo, Zenon
<1>5. Len(s) = 0 \/ Len(s) = 1 \/ Len(s) = 2
  <2>1. \A n \in Nat : n <= 2 => n = 0 \/ n = 1 \/ n = 2
    OBVIOUS
  <2> QED
    BY <1>1, <2>1, Zenon
<1> QED
    BY <1>2, <1>3, <1>4, <1>5, Zenon

\* What the back end takes holds the full buffer, if there is one, and then the
\* current one.
LEMMA FlattenAppend ==
  ASSUME NEW s \in Seq(Buffer), Len(s) <= 1, NEW b \in Buffer
  PROVE  FlattenSeq(Append(s, b)) = FlattenSeq(s) \o b
<1>1. Len(s) \in Nat /\ b \in Seq(Entries)
    BY LenProperties, BufferIsSeq
<1>2. CASE Len(s) = 0
  <2>1. s = <<>>
    BY <1>2, NoElement
  <2>2. /\ Append(<<>>, b) \in Seq(Buffer) /\ <<b>> \in Seq(Buffer)
        /\ Len(Append(<<>>, b)) = 1 /\ Len(<<b>>) = 1
        /\ Append(<<>>, b)[1] = b /\ <<b>>[1] = b
    BY EmptySeq, AppendProperties
  <2>3. Append(<<>>, b) = <<b>>
    BY <2>2, SeqEqual
  <2>4. <<>> \o b = b
    BY <1>1, ConcatEmptySeq
  <2> QED
    BY <2>1, <2>3, <2>4, FlattenNone, FlattenOne, Zenon
<1>3. CASE Len(s) = 1
  <2>1. s = <<s[1]>>
    BY <1>3, OnlyElement
  <2>2. /\ Len(Append(s, b)) = Len(s) + 1
        /\ \A i \in 1..Len(s) : Append(s, b)[i] = s[i]
        /\ Append(s, b)[Len(s) + 1] = b
    BY AppendProperties
  <2>3. /\ Len(Append(s, b)) = 2
        /\ Append(s, b)[1] = s[1] /\ Append(s, b)[2] = b
    BY <1>3, <2>2
  <2>4. FlattenSeq(s) = s[1]
    BY <2>1, FlattenOne, Zenon
  <2> QED
    BY <2>3, <2>4, FlattenTwo, Zenon
<1>4. Len(s) = 0 \/ Len(s) = 1
  <2>1. \A n \in Nat : n <= 1 => n = 0 \/ n = 1
    OBVIOUS
  <2> QED
    BY <1>1, <2>1, Zenon
<1> QED
    BY <1>2, <1>3, <1>4, Zenon

(***************************************************************************)
(* The entries on their way                                                 *)
(***************************************************************************)
\* What the back end has taken and not yet written
Taken == IF bpc = "write" THEN FlattenSeq(toFile) ELSE <<>>

Sound == TypeOK /\ Counted /\ InOrder

\* The types of the parts, in the form SMT uses, and the order between them.
LEMMA Parts ==
  ASSUME Sound
  PROVE  /\ file \in Seq(Entries) /\ Taken \in Seq(Entries)
         /\ FlattenSeq(buffers) \in Seq(Entries) /\ cur \in Seq(Entries)
         /\ fate # "null buffer" =>
              logged = ((file \o Taken) \o FlattenSeq(buffers)) \o cur
<1>1. /\ file \in Seq(Entries) /\ cur \in Seq(Entries)
      /\ buffers \in Seq(Buffer) /\ toFile \in Seq(Buffer)
    BY BufferIsSeq DEF Sound, TypeOK
<1>2. Len(buffers) <= 2 /\ (bpc = "write" => Len(toFile) <= 2)
  <2>1. Len(buffers) \in Nat /\ Len(toFile) \in Nat /\ next \in 0..1 /\ spare2 \in 0..1
    BY <1>1, LenProperties DEF Sound, TypeOK
  <2>2. /\ Len(buffers) = 2 \/ Len(buffers) + next = 1
        /\ bpc = "write" => Len(toFile) + spare2 = 2
    BY Zenon DEF Sound, Counted, BufferCount
  <2>3. \A n, m \in Nat : n + m = 1 \/ n + m = 2 => n <= 2
    OBVIOUS
  <2>4. 0..1 \subseteq Nat /\ 2 <= 2
    OBVIOUS
  <2> QED
    BY <2>1, <2>2, <2>3, <2>4, Zenon
<1>3. FlattenSeq(buffers) \in Seq(Entries)
    BY <1>1, <1>2, FlattenType
<1>4. Taken \in Seq(Entries)
  <2>1. CASE bpc = "write"
    BY <1>1, <1>2, <2>1, FlattenType DEF Taken
  <2>2. CASE bpc # "write"
    BY <2>2, EmptySeq DEF Taken
  <2> QED
    BY <2>1, <2>2
<1> QED
    BY <1>1, <1>3, <1>4 DEF Sound, InOrder, Taken

\* An entry goes to the end of the current buffer, or is the first of the new one
\* behind the buffer that was full (AsyncLog.cpp:31-48).
LEMMA LogKeeps ==
  ASSUME Sound, NEW t \in Threads, NEW e \in Entries, Log(t, e)
  PROVE  TypeOK' /\ InOrder'
<1>1. /\ fate = "no" /\ Store(e)
      /\ logged' = Append(logged, e)
      /\ wpc' = [wpc EXCEPT ![t] = IF e \in FatalOnes THEN "fatal" ELSE "idle"]
      /\ UNCHANGED <<running, flush, spare1, spare2, toFile, file, bpc, owed>>
    BY DEF Log, backVars
<1>2. /\ logged' \in Seq(Entries)
      /\ wpc' \in [Threads -> {"idle", "fatal", "flushing", "waiting", "woken"}]
    BY <1>1 DEF Sound, TypeOK
<1>3. /\ cur' \in Buffer /\ buffers' \in Seq(Buffer) /\ next' \in 0..1
      /\ fate' \in {"no", "null buffer"}
  <2>1. cur \in Buffer /\ buffers \in Seq(Buffer) /\ next \in 0..1
    BY DEF Sound, TypeOK
  <2>2. CASE Len(cur) < Capacity
    <3>1. cur' = Append(cur, e) /\ UNCHANGED <<next, buffers, fate>>
      BY <1>1, <2>2, Zenon DEF Store
    <3>2. cur \in Seq(Entries)
      BY <2>1, BufferIsSeq
    <3>3. Append(cur, e) \in Seq(Entries) /\ Len(Append(cur, e)) = Len(cur) + 1
          /\ Len(cur) \in Nat
      BY <3>2, AppendProperties, LenProperties
    <3>4. Append(cur, e) \in Buffer
      BY <2>2, <3>3, LogAssumption DEF Buffer
    <3> QED
      BY <1>1, <2>1, <3>1, <3>4
  <2>3. CASE ~(Len(cur) < Capacity)
    <3>1. /\ buffers' = Append(buffers, cur)
          /\ IF next = 1 THEN cur' = <<e>> /\ next' = 0 /\ UNCHANGED fate
                         ELSE cur' = <<>> /\ next' = 1 /\ fate' = "null buffer"
      BY <1>1, <2>3, Zenon DEF Store
    <3>2. <<>> \in Buffer /\ <<e>> \in Buffer
      BY LogAssumption DEF Buffer
    <3>3. Append(buffers, cur) \in Seq(Buffer)
      BY <2>1, AppendProperties
    <3>4. CASE next = 1
      <4>1. cur' = <<e>> /\ next' = 0 /\ fate' = "no"
        BY <1>1, <3>1, <3>4, Zenon
      <4>2. cur' \in Buffer /\ buffers' \in Seq(Buffer)
        BY <3>1, <3>2, <3>3, <4>1, Zenon
      <4> QED
        BY <4>1, <4>2
    <3>5. CASE next # 1
      <4>1. cur' = <<>> /\ next' = 1 /\ fate' = "null buffer"
        BY <3>1, <3>5, Zenon
      <4>2. cur' \in Buffer /\ buffers' \in Seq(Buffer)
        BY <3>1, <3>2, <3>3, <4>1, Zenon
      <4>3. 1 \in 0..1
        OBVIOUS
      <4>4. fate' \in {"no", "null buffer"}
        BY <4>1
      <4> QED
        BY <4>1, <4>2, <4>3, <4>4, Zenon
    <3> QED
      BY <3>4, <3>5, Zenon
  <2> QED
    BY <2>2, <2>3
<1>4. TypeOK'
    BY <1>1, <1>2, <1>3 DEF Sound, TypeOK
<1>5. InOrder'
  <2> DEFINE head == (file \o Taken) \o FlattenSeq(buffers)
  <2>1. SUFFICES ASSUME fate' # "null buffer"
                 PROVE  logged' = ((file' \o Taken') \o FlattenSeq(buffers')) \o cur'
    BY Zenon DEF InOrder, Taken
  <2>2. Taken' = Taken /\ file' = file
    BY <1>1 DEF Taken
  <2>3. /\ file \o Taken \in Seq(Entries) /\ head \in Seq(Entries)
        /\ cur \in Seq(Entries) /\ logged = head \o cur
    BY <1>1, Parts, ConcatProperties
  <2>4. logged' = head \o Append(cur, e)
    <3>1. \A x, y \in Seq(Entries) : Append(x \o y, e) = x \o Append(y, e)
      <4>1. SUFFICES ASSUME NEW x \in Seq(Entries), NEW y \in Seq(Entries)
                     PROVE  Append(x \o y, e) = x \o Append(y, e)
        OBVIOUS
      <4>2. /\ x \o y \in Seq(Entries) /\ <<e>> \in Seq(Entries)
            /\ (x \o y) \o <<e>> = x \o (y \o <<e>>)
        BY ConcatProperties, ConcatAssociative
      <4> QED
        BY <4>2, AppendIsConcat
    <3> QED
      BY <1>1, <2>3, <3>1
  <2> HIDE DEF head
  <2>5. CASE Len(cur) < Capacity
    <3>1. cur' = Append(cur, e) /\ buffers' = buffers
      BY <1>1, <2>5, Zenon DEF Store
    <3> QED
      BY <2>2, <2>4, <3>1, Zenon DEF head
  <2>6. CASE ~(Len(cur) < Capacity)
    <3>1. /\ buffers' = Append(buffers, cur)
          /\ cur' = <<e>> /\ next = 1
      BY <1>1, <2>1, <2>6, Zenon DEF Store
    <3>2. cur \in Buffer /\ buffers \in Seq(Buffer) /\ Len(buffers) <= 1
      BY <1>1, <3>1, LenProperties DEF Sound, TypeOK, Counted, BufferCount
    <3>3. FlattenSeq(buffers') = FlattenSeq(buffers) \o cur
      BY <3>1, <3>2, FlattenAppend, Zenon
    <3>4. (file \o Taken) \o (FlattenSeq(buffers) \o cur) = head \o cur
      <4>1. \A x, y, z \in Seq(Entries) : x \o (y \o z) = (x \o y) \o z
        BY ConcatAssociative
      <4> QED
        BY <2>3, <4>1, Parts, ZenonT(30) DEF head
    <3>5. (head \o cur) \o <<e>> = head \o (cur \o <<e>>)
      <4>1. <<e>> \in Seq(Entries)
        OBVIOUS
      <4> QED
        BY <2>3, <4>1, ConcatAssociative, SMTT(30)
    <3>6. Append(cur, e) = cur \o <<e>>
      BY <2>3, AppendIsConcat
    <3> QED
      BY <2>2, <2>4, <3>1, <3>3, <3>4, <3>5, <3>6, Zenon
  <2> QED
    BY <2>5, <2>6
<1> QED
    BY <1>4, <1>5

\* The full buffer and the current one change hands together
\* (AsyncLog.cpp:65-77).
LEMMA TakeKeeps ==
  ASSUME Sound, Take
  PROVE  TypeOK' /\ InOrder'
<1>1. /\ fate = "no" /\ bpc = "take" /\ bpc' = "write"
      /\ toFile' = Append(buffers, cur) /\ buffers' = <<>> /\ cur' = <<>>
      /\ spare1' = 0
      /\ UNCHANGED <<running, flush, file, wpc, fate, logged, owed>>
    BY DEF Take, BackAt
<1>2. next' \in 0..1 /\ spare2' \in 0..1
  <2>1. next \in 0..1 /\ spare2 \in 0..1
    BY DEF Sound, TypeOK
  <2>2. \/ next' = next /\ spare2' = spare2
        \/ next' = spare2 /\ spare2' = 0
    BY DEF Take
  <2>3. 0 \in 0..1
    OBVIOUS
  <2> QED
    BY <2>1, <2>2, <2>3, Zenon
<1>3. cur \in Buffer /\ buffers \in Seq(Buffer) /\ Len(buffers) <= 1
  <2>1. cur \in Buffer /\ buffers \in Seq(Buffer) /\ next \in 0..1
    BY DEF Sound, TypeOK
  <2>2. Len(buffers) \in Nat /\ Len(buffers) + next = 1
    BY <1>1, <2>1, LenProperties DEF Sound, Counted, BufferCount
  <2>3. \A n, m \in Nat : n + m = 1 => n <= 1
    OBVIOUS
  <2>4. 0..1 \subseteq Nat
    OBVIOUS
  <2> QED
    BY <2>1, <2>2, <2>3, <2>4, Zenon
<1>4. cur' \in Buffer /\ buffers' \in Seq(Buffer) /\ toFile' \in Seq(Buffer)
  <2>1. <<>> \in Buffer /\ <<>> \in Seq(Buffer)
    BY LogAssumption DEF Buffer
  <2>2. Append(buffers, cur) \in Seq(Buffer)
    BY <1>3, AppendProperties
  <2> QED
    BY <1>1, <2>1, <2>2, Zenon
<1>5. TypeOK'
    BY <1>1, <1>2, <1>4 DEF Sound, TypeOK
<1>6. InOrder'
  <2>1. FlattenSeq(toFile') = FlattenSeq(buffers) \o cur
    BY <1>1, <1>3, FlattenAppend, Zenon
  <2>2. /\ file \in Seq(Entries) /\ FlattenSeq(buffers) \in Seq(Entries)
        /\ cur \in Seq(Entries) /\ Taken = <<>>
        /\ logged = ((file \o Taken) \o FlattenSeq(buffers)) \o cur
    BY <1>1, Parts DEF Taken
  <2>3. \A x \in Seq(Entries) : x \o <<>> = x
    BY ConcatEmptySeq
  <2>4. \A x, y, z \in Seq(Entries) : (x \o y) \o z = x \o (y \o z)
    BY ConcatAssociative
  <2>5. \A x, y \in Seq(Entries) : x \o y \in Seq(Entries)
    BY ConcatProperties
  <2>6. logged = file \o (FlattenSeq(buffers) \o cur)
    <3>1. file \o Taken = file
      BY <2>2, <2>3, Zenon
    <3> QED
      <4>1. logged = (file \o FlattenSeq(buffers)) \o cur
        BY <2>2, <3>1, Zenon
      <4>2. (file \o FlattenSeq(buffers)) \o cur = file \o (FlattenSeq(buffers) \o cur)
        BY <2>2, <2>4, Zenon
      <4> QED
        BY <4>1, <4>2
  <2>7. logged' = ((file' \o FlattenSeq(toFile')) \o FlattenSeq(buffers')) \o cur'
    <3>1. FlattenSeq(buffers') = <<>> /\ cur' = <<>>
      BY <1>1, FlattenNone, Zenon
    <3>2. file \o (FlattenSeq(buffers) \o cur) \in Seq(Entries)
      BY <2>2, <2>5, Zenon
    <3>3. ((file \o (FlattenSeq(buffers) \o cur)) \o <<>>) \o <<>>
             = file \o (FlattenSeq(buffers) \o cur)
      BY <2>3, <3>2, Zenon
    <3> QED
      BY <1>1, <2>1, <2>6, <3>1, <3>3, Zenon
  <2> QED
    BY <1>1, <2>7 DEF InOrder
<1> QED
    BY <1>5, <1>6

\* What was taken is written whole (AsyncLog.cpp:79-93).
LEMMA WriteKeeps ==
  ASSUME Sound, Write
  PROVE  TypeOK' /\ InOrder'
<1>1. Trim(toFile) = toFile
  <2>1. toFile \in Seq(Buffer) /\ spare2 \in 0..1
    BY DEF Sound, TypeOK
  <2>2. Len(toFile) \in Nat /\ Len(toFile) + spare2 = 2
    BY <2>1, LenProperties DEF Sound, Counted, BufferCount, Write, BackAt
  <2>3. ~(Len(toFile) > MaxBuffers)
    <3>1. \A n, m, k \in Nat : n + m = 2 /\ k >= 2 => ~(n > k)
      OBVIOUS
    <3>2. 0..1 \subseteq Nat
      OBVIOUS
    <3> QED
      BY <2>1, <2>2, <3>1, <3>2, LogAssumption, Zenon
  <2> QED
    BY <2>3, Zenon DEF Trim
<1>2. /\ bpc = "write" /\ bpc' = "recycle" /\ toFile' = toFile
      /\ file' = file \o FlattenSeq(toFile)
      /\ UNCHANGED <<running, flush, cur, next, buffers, spare1, spare2, wpc,
                     fate, logged, owed>>
    BY <1>1 DEF Write, BackAt, frontVars
<1>3. Taken = FlattenSeq(toFile)
    BY <1>2 DEF Taken
<1>4. file' \in Seq(Entries)
  <2>1. \A x, y \in Seq(Entries) : x \o y \in Seq(Entries)
    BY ConcatProperties
  <2> QED
    BY <1>2, <1>3, <2>1, Parts, Zenon
<1>5. TypeOK'
    BY <1>2, <1>4 DEF Sound, TypeOK
<1>6. InOrder'
  <2>1. file' \o <<>> = file'
    BY <1>4, ConcatEmptySeq
  <2>2. fate # "null buffer" =>
          logged = (file' \o FlattenSeq(buffers)) \o cur
    BY <1>2, <1>3, Parts, Zenon
  <2> QED
    BY <1>2, <2>1, <2>2 DEF InOrder
<1> QED
    BY <1>5, <1>6

\* The other steps move no entry.
LEMMA OthersKeep ==
  ASSUME Sound,
         \/ \E t \in Threads : RequestFlush(t) \/ AwaitFlush(t) \/ Abort(t)
         \/ Stop \/ CheckRunning \/ Recycle \/ CheckFlush \/ Exit
         \/ UNCHANGED vars
  PROVE  TypeOK' /\ InOrder'
<1>1. /\ UNCHANGED <<cur, next, buffers, file, logged>>
      /\ \/ UNCHANGED <<spare1, spare2, toFile>>
         \/ spare1' = 1 /\ spare2' = 1 /\ toFile' = <<>>
      /\ bpc' = bpc \/ (bpc # "write" /\ bpc' \notin {"write", "recycle"})
      /\ fate' = fate \/ (fate = "no" /\ fate' \in {"abort", "no buffer to recycle"})
    BY DEF RequestFlush, AwaitFlush, Abort, Stop, CheckRunning, Recycle, CheckFlush,
           Exit, BackAt, frontVars, backVars, vars
<1>2. InOrder'
  <2>1. (bpc' = "write") = (bpc = "write") /\ (bpc = "write" => toFile' = toFile)
    BY <1>1 DEF Recycle, RequestFlush, AwaitFlush, Abort, Stop, CheckRunning,
                CheckFlush, Exit, BackAt, backVars, vars
  <2> QED
    BY <1>1, <2>1 DEF Sound, InOrder
<1>3. TypeOK'
  <2>0. 1 \in 0..1 /\ <<>> \in Seq(Buffer)
    OBVIOUS
  <2> USE DEF TypeOK, Sound, frontVars, backVars, BackAt
  <2>1. ASSUME NEW t \in Threads, RequestFlush(t) \/ AwaitFlush(t) \/ Abort(t)
        PROVE  TypeOK'
    BY <2>1 DEF RequestFlush, AwaitFlush, Abort
  <2>2. CASE Stop \/ CheckRunning \/ CheckFlush
    BY <2>2 DEF Stop, CheckRunning, CheckFlush
  <2>3. CASE Recycle
    <3>1. /\ UNCHANGED <<running, flush, cur, next, buffers, file, wpc, logged, owed>>
          /\ spare1' = 1 /\ spare2' = 1 /\ toFile' = <<>> /\ bpc' = "flushed"
          /\ fate' \in {fate, "no buffer to recycle"}
      BY <2>3 DEF Recycle
    <3> QED
      BY <2>0, <3>1
  <2>4. CASE Exit
    BY <2>4 DEF Exit
  <2>5. CASE UNCHANGED vars
    BY <2>5 DEF vars
  <2> QED
    BY <2>1, <2>2, <2>3, <2>4, <2>5
<1> QED
    BY <1>2, <1>3

LEMMA SoundHolds == Spec => []Sound
<1>1. Init => TypeOK /\ InOrder
  <2>1. SUFFICES ASSUME Init PROVE TypeOK /\ InOrder
    OBVIOUS
  <2>2. <<>> \in Buffer /\ <<>> \in Seq(Buffer) /\ <<>> \in Seq(Entries)
    BY LogAssumption DEF Buffer
  <2>3. TypeOK
    <3>1. 1 \in 0..1
      OBVIOUS
    <3>2. wpc \in [Threads -> {"idle", "fatal", "flushing", "waiting", "woken"}]
      BY <2>1 DEF Init
    <3> QED
      BY <2>1, <2>2, <3>1, <3>2 DEF Init, TypeOK
  <2>4. <<>> \o <<>> = <<>>
    BY <2>2, ConcatEmptySeq
  <2> QED
    BY <2>1, <2>3, <2>4, FlattenNone DEF Init, InOrder
<1>2. Sound /\ [Next]_vars => TypeOK' /\ InOrder'
    BY LogKeeps, TakeKeeps, WriteKeeps, OthersKeep DEF Next, Backend
<1>3. Sound <=> TypeOK /\ Counted /\ InOrder
    BY DEF Sound
<1> QED
    BY <1>1, <1>2, <1>3, CountedHolds, PTL DEF Spec

\* The log keeps its types, and the spares are there when the back end is about to
\* take buffers (AsyncLog.cpp:65-77).
THEOREM TypeCorrect == Spec => []TypeOK
<1>1. Sound => TypeOK
    BY DEF Sound
<1> QED
    BY <1>1, SoundHolds, PTL

\* Whatever the threads and the back end do at the same time, what is written,
\* taken, full and current are the entries in the order they were logged: none is
\* lost, repeated or reordered on its way to the file (AsyncLog.cpp:31-48,65-93).
THEOREM EntriesKeepOrder == Spec => []InOrder
<1>1. Sound => InOrder
    BY DEF Sound
<1> QED
    BY <1>1, SoundHolds, PTL
=============================================================================
