------------------------------ MODULE AsyncLog ------------------------------
(***************************************************************************)
(* The asynchronous log: front-end threads append entries to buffers under  *)
(* a mutex, one back-end thread takes the buffers and writes them to the    *)
(* log file.  A FATAL entry makes its thread flush and abort the process.   *)
(*                                                                          *)
(* The module starts when start() has returned.  Every critical section is  *)
(* one step; m_running and m_flush are read and written outside them.       *)
(* waitForSeconds() ends at any time: it is signalled, and its deadline     *)
(* always passes.                                                           *)
(***************************************************************************)
EXTENDS Integers, Sequences, SequencesExt

CONSTANTS Threads,    \* front-end threads
          Entries,    \* log entries, each logged at most once (a bound)
          FatalOnes,  \* those of level FATAL
          Capacity,   \* entries a Buffer holds (kLargerBufferSize in bytes)
          MaxBuffers, \* beyond this many buffers (20) the back end drops some
          MayStop     \* whether stop() may be called

ASSUME LogAssumption == /\ FatalOnes \subseteq Entries
                        /\ Capacity \in Nat \ {0}
                        /\ MaxBuffers \in Nat /\ MaxBuffers >= 2
                        /\ MayStop \in BOOLEAN

VARIABLES
  running,   \* m_running
  flush,     \* m_flush
  cur,       \* what m_cur_buffer holds
  next,      \* 1 when m_next_buffer is there (it is then empty), 0 when null
  buffers,   \* m_buffers
  spare1,    \* likewise new_buffer_1
  spare2,    \* and new_buffer_2
  toFile,    \* write_to_file
  bpc,       \* where the back end is in threadFunc()
  wpc,       \* thread -> where it is in ~Logger()
  fate,      \* how the process ended, "no" while it lives
  logged,    \* history: entries in the order append() took them
  file,      \* history: entries written, in order
  owed       \* history: entries logged before m_flush was set

frontVars == <<cur, next, buffers>>
backVars  == <<spare1, spare2, toFile, file>>
vars == <<running, flush, cur, next, buffers, spare1, spare2, toFile, bpc, wpc,
          fate, logged, file, owed>>

Init == /\ running = TRUE
        /\ flush = FALSE
        /\ cur = <<>>
        /\ next = 1
        /\ buffers = <<>>
        /\ spare1 = 1
        /\ spare2 = 1
        /\ toFile = <<>>
        /\ bpc = "check"
        /\ wpc = [t \in Threads |-> "idle"]
        /\ fate = "no"
        /\ logged = <<>>
        /\ file = <<>>
        /\ owed = <<>>

(***************************************************************************)
(* The front end                                                            *)
(***************************************************************************)
\* Mutant: a full buffer is replaced without being handed to the back end.
StoreLoses(e) ==
  IF Len(cur) < Capacity
  THEN cur' = Append(cur, e) /\ UNCHANGED <<next, buffers, fate>>
  ELSE /\ buffers' = buffers
       /\ cur' = <<e>>
       /\ next' = 0
       /\ fate' = IF next = 1 THEN fate ELSE "null buffer"

\* AsyncLog::append().  When the second buffer is used up too, it is
\* m_next_buffer that gets a new one, and m_cur_buffer is dereferenced while
\* it is null.
Store(e) ==
  IF Len(cur) < Capacity
  THEN cur' = Append(cur, e) /\ UNCHANGED <<next, buffers, fate>>
  ELSE /\ buffers' = Append(buffers, cur)
       /\ IF next = 1 THEN cur' = <<e>> /\ next' = 0 /\ UNCHANGED fate
                      ELSE cur' = <<>> /\ next' = 1 /\ fate' = "null buffer"

\* ~Logger(): the entry is appended; a FATAL one goes on to flush().
Log(t, e) ==
  /\ fate = "no"
  /\ wpc[t] = "idle"
  /\ e \notin ToSet(logged)
  /\ logged' = Append(logged, e)
  /\ Store(e)
  /\ wpc' = [wpc EXCEPT ![t] = IF e \in FatalOnes THEN "fatal" ELSE "idle"]
  /\ UNCHANGED <<running, flush, backVars, bpc, owed>>

\* flush(): m_flush = true ...
RequestFlush(t) ==
  /\ fate = "no"
  /\ wpc[t] = "fatal"
  /\ flush' = TRUE
  /\ owed' = IF flush THEN owed ELSE logged
  /\ wpc' = [wpc EXCEPT ![t] = "flushing"]
  /\ UNCHANGED <<running, frontVars, backVars, bpc, fate, logged>>

\* ... then m_flush_cond.wait(), without looking whether the flush is over
AwaitFlush(t) ==
  /\ fate = "no"
  /\ wpc[t] = "flushing"
  /\ wpc' = [wpc EXCEPT ![t] = "waiting"]
  /\ UNCHANGED <<running, flush, frontVars, backVars, bpc, fate, logged, owed>>

\* ~Logger(): abort()
Abort(t) ==
  /\ fate = "no"
  /\ wpc[t] = "woken"
  /\ fate' = "abort"
  /\ UNCHANGED <<running, flush, frontVars, backVars, bpc, wpc, logged, owed>>

\* AsyncLog::stop()
Stop ==
  /\ fate = "no"
  /\ MayStop /\ running
  /\ running' = FALSE
  /\ UNCHANGED <<flush, frontVars, backVars, bpc, wpc, fate, logged, owed>>

(***************************************************************************)
(* The back end, AsyncLog::threadFunc()                                     *)
(***************************************************************************)
BackAt(label) == fate = "no" /\ bpc = label

\* while (m_running)
CheckRunning ==
  /\ BackAt("check")
  /\ bpc' = IF running THEN "take" ELSE "exit"
  /\ UNCHANGED <<running, flush, frontVars, backVars, wpc, fate, logged, owed>>

\* Mutant: the second spare is always handed over.
TakeBothSpares ==
  /\ BackAt("take")
  /\ toFile' = Append(buffers, cur)
  /\ buffers' = <<>>
  /\ cur' = <<>>
  /\ next' = 1
  /\ spare1' = 0
  /\ spare2' = 0
  /\ bpc' = "write"
  /\ UNCHANGED <<running, flush, file, wpc, fate, logged, owed>>

\* Mutant: the wait for a full buffer has no time limit.
TakeFull ==
  /\ BackAt("take")
  /\ buffers # <<>>
  /\ toFile' = Append(buffers, cur)
  /\ buffers' = <<>>
  /\ cur' = <<>>
  /\ spare1' = 0
  /\ IF next = 1 THEN UNCHANGED <<next, spare2>>
                 ELSE next' = spare2 /\ spare2' = 0
  /\ bpc' = "write"
  /\ UNCHANGED <<running, flush, file, wpc, fate, logged, owed>>

\* The critical section: everything buffered is taken and the spare buffers
\* take its place.
Take ==
  /\ BackAt("take")
  /\ toFile' = Append(buffers, cur)
  /\ buffers' = <<>>
  /\ cur' = <<>>
  /\ spare1' = 0
  /\ IF next = 1 THEN UNCHANGED <<next, spare2>>
                 ELSE next' = spare2 /\ spare2' = 0
  /\ bpc' = "write"
  /\ UNCHANGED <<running, flush, file, wpc, fate, logged, owed>>

\* "if buffers are full of trash": all but the first two are dropped.
Trim(b) == IF Len(b) > MaxBuffers THEN SubSeq(b, 1, 2) ELSE b

Write ==
  /\ BackAt("write")
  /\ toFile' = Trim(toFile)
  /\ file' = file \o FlattenSeq(Trim(toFile))
  /\ bpc' = "recycle"
  /\ UNCHANGED <<running, flush, frontVars, spare1, spare2, wpc, fate, logged,
                 owed>>

\* How many written buffers the two spares need.
Wanted == (1 - spare1) + (1 - spare2)

\* Mutant: only the first spare is replaced.
RecycleFirst ==
  /\ BackAt("recycle")
  /\ fate' = IF Len(toFile) < Wanted THEN "no buffer to recycle" ELSE fate
  /\ spare1' = 1
  /\ toFile' = <<>>
  /\ bpc' = "flushed"
  /\ UNCHANGED <<running, flush, frontVars, spare2, file, wpc, logged, owed>>

\* The spares are taken from the back of write_to_file, the rest is freed.
\* back() of an empty vector is undefined.
Recycle ==
  /\ BackAt("recycle")
  /\ fate' = IF Len(toFile) < Wanted THEN "no buffer to recycle" ELSE fate
  /\ spare1' = 1
  /\ spare2' = 1
  /\ toFile' = <<>>
  /\ bpc' = "flushed"
  /\ UNCHANGED <<running, flush, frontVars, file, wpc, logged, owed>>

\* output.flush() and the look at m_flush that follows it
CheckFlush ==
  /\ BackAt("flushed")
  /\ running' = (running /\ ~flush)
  /\ bpc' = "check"
  /\ UNCHANGED <<flush, frontVars, backVars, wpc, fate, logged, owed>>

\* After the loop, one waiting thread is signalled; if none waits yet the
\* signal is lost.
Exit ==
  /\ BackAt("exit")
  /\ bpc' = "done"
  /\ LET waiting == {t \in Threads : wpc[t] = "waiting"} IN
     \/ /\ flush
        /\ \E t \in waiting : wpc' = [wpc EXCEPT ![t] = "woken"]
     \/ /\ ~flush \/ waiting = {}
        /\ UNCHANGED wpc
  /\ UNCHANGED <<running, flush, frontVars, backVars, fate, logged, owed>>

Backend == CheckRunning \/ Take \/ Write \/ Recycle \/ CheckFlush \/ Exit

Next == \/ \E t \in Threads : \/ \E e \in Entries : Log(t, e)
                              \/ RequestFlush(t) \/ AwaitFlush(t) \/ Abort(t)
        \/ Stop
        \/ Backend

\* The back end is scheduled, and a thread that logs a FATAL entry goes on.
Fairness == /\ WF_vars(Backend)
            /\ \A t \in Threads :
                 WF_vars(RequestFlush(t) \/ AwaitFlush(t) \/ Abort(t))

Spec == Init /\ [][Next]_vars /\ Fairness

(***************************************************************************)
(* Properties                                                               *)
(***************************************************************************)
Buffer == {b \in Seq(Entries) : Len(b) <= Capacity}

\* Type correctness; the spares are both there whenever the back end is about
\* to take buffers.
TypeOK ==
  /\ running \in BOOLEAN /\ flush \in BOOLEAN
  /\ next \in 0..1 /\ spare1 \in 0..1 /\ spare2 \in 0..1
  /\ cur \in Buffer
  /\ buffers \in Seq(Buffer) /\ toFile \in Seq(Buffer)
  /\ bpc \in {"check", "take", "write", "recycle", "flushed", "exit", "done"}
  /\ wpc \in [Threads -> {"idle", "fatal", "flushing", "waiting", "woken"}]
  /\ fate \in {"no", "null buffer", "no buffer to recycle", "abort"}
  /\ logged \in Seq(Entries) /\ file \in Seq(Entries) /\ owed \in Seq(Entries)
  /\ bpc \notin {"write", "recycle"} => spare1 = 1 /\ spare2 = 1

\* Written entries, what the back end holds, full buffers and the current
\* one, in this order, are the entries in the order they were logged: none
\* is lost, repeated or reordered on the way (AsyncLog.cpp:31-48,65-93).
InOrder ==
  fate # "null buffer" =>
    logged = file \o (IF bpc = "write" THEN FlattenSeq(toFile) ELSE <<>>)
                  \o FlattenSeq(buffers) \o cur

\* The back end never takes a spare buffer out of an empty vector
\* (AsyncLog.cpp:100-110).
RecycleSafe == fate # "no buffer to recycle"

\* Why: the second buffer is missing exactly while one full buffer waits, and
\* the back end lacks the second spare exactly when it took two buffers.  So
\* never more than two are written at once, and the branch that drops
\* buffers (AsyncLog.cpp:80-88) is not reached; and append() finds no buffer
\* (AsyncLog.cpp:38-41) only when two have been filled since the last take.
BufferCount ==
  /\ IF fate = "null buffer" THEN Len(buffers) = 2 ELSE Len(buffers) + next = 1
  /\ bpc \in {"write", "recycle"} =>
       spare1 = 0 /\ Len(toFile) + spare2 = 2

\* While the back end runs, every entry reaches the file.
EntryIsWritten ==
  \A e \in Entries : e \in ToSet(logged) ~>
    (e \in ToSet(file) \/ ~running \/ fate # "no")

\* "notify log thread to write all buffered data into log file and not quit
\* until flush is over" (AsyncLog.cpp:51-52): a FATAL entry ends the process,
\* and what was logged before m_flush was set, the entry included, is then in
\* the file.
FatalIsLogged ==
  \A t \in Threads :
    wpc[t] = "fatal" ~> (fate = "abort" /\ ToSet(owed) \subseteq ToSet(file))
=============================================================================
