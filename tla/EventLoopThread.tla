--------------------------- MODULE EventLoopThread ---------------------------
(***************************************************************************)
(* The life of an EventLoop: startLoop() starts a thread that constructs    *)
(* the loop, publishes it in m_loop and runs it (EventLoopThread, Thread,   *)
(* CountDownLatch), and ~EventLoopThread() asks the loop to quit and does   *)
(* not wait for the thread.  EventLoopThreadPool::start() does this for one *)
(* thread after the other, which do not touch each other's state, so one is *)
(* modelled.  The main loop, which main() constructs and runs itself, is    *)
(* the other initial state.                                                 *)
(*                                                                          *)
(* A critical section is one step; a thread waiting on a condition sleeps   *)
(* until it is signalled or wakes up spuriously.                            *)
(***************************************************************************)
EXTENDS EventLoop

CONSTANT Starter  \* the thread that calls startLoop() and the destructor

ASSUME StarterAssumption == Starter \in Threads

VARIABLES
  spc,    \* where the starter is; "none" for the main loop
  cpc,    \* where the new thread is; "loop" while loop() runs
  count,  \* m_latch.count_
  tid,    \* Thread::m_tid is set
  mloop,  \* EventLoopThread::m_loop is not NULL
  got,    \* startLoop() returned a loop, not NULL
  ended   \* history: quit() was called by someone else than the destructor

threadVars == <<spc, cpc, count, tid, mloop, got, ended>>
allVars == <<vars, threadVars>>

ThreadInit == /\ Init
              /\ \/ spc = "none" /\ cpc = "loop"
                 \/ spc = "new" /\ cpc = "none"
              /\ count = 1
              /\ tid = FALSE
              /\ mloop = FALSE
              /\ got = FALSE
              /\ ended = FALSE

\* The EventLoop object exists.
Alive == cpc \in {"loop", "clear"}

(***************************************************************************)
(* The starter                                                              *)
(***************************************************************************)
\* startLoop() up to pthread_create() in Thread::start()
StartLoop == /\ spc = "new" /\ spc' = "latch"
             /\ cpc' = "tid"
             /\ UNCHANGED <<vars, count, tid, mloop, got, ended>>

\* Mutant: the latch is waited for without looking at its count.
WaitLatchAlways == /\ spc = "latch" /\ spc' = "latchSleep"
                   /\ UNCHANGED <<vars, cpc, count, tid, mloop, got, ended>>

\* CountDownLatch::wait()
WaitLatch == /\ spc = "latch"
             /\ spc' = IF count > 0 THEN "latchSleep" ELSE "tid"
             /\ UNCHANGED <<vars, cpc, count, tid, mloop, got, ended>>

\* the end of Thread::start()
CheckTid == /\ spc = "tid"
            /\ spc' = IF tid THEN "wait" ELSE "fatal"
            /\ UNCHANGED <<vars, cpc, count, tid, mloop, got, ended>>

\* while (m_loop == NULL) m_cond.wait();
WaitLoop == /\ spc = "wait"
            /\ spc' = IF mloop THEN "return" ELSE "sleep"
            /\ UNCHANGED <<vars, cpc, count, tid, mloop, got, ended>>

SpuriousWakeup == /\ \/ spc = "latchSleep" /\ spc' = "latch"
                     \/ spc = "sleep" /\ spc' = "wait"
                  /\ UNCHANGED <<vars, cpc, count, tid, mloop, got, ended>>

\* return m_loop; read again, without the mutex
ReturnLoop == /\ spc = "return" /\ spc' = "have"
              /\ got' = mloop
              /\ UNCHANGED <<vars, cpc, count, tid, mloop, ended>>

\* Mutant: ~EventLoopThread() does not test m_loop.
DestroyUntested == /\ spc = "have" /\ Starter \notin waking
                   /\ spc' = "quit"
                   /\ UNCHANGED <<vars, cpc, count, tid, mloop, got, ended>>

\* ~EventLoopThread() tests m_loop without the mutex ...
Destroy == /\ spc = "have" /\ Starter \notin waking
           /\ spc' = IF mloop THEN "quit" ELSE "over"
           /\ UNCHANGED <<vars, cpc, count, tid, mloop, got, ended>>

\* ... and calls quit(), which is undefined when the loop is gone.
DestructorQuit ==
    /\ spc = "quit"
    /\ \/ /\ Alive
          /\ SetQuit(Starter)
          /\ spc' = "over"
          /\ UNCHANGED <<pc, calling, active, submitted, queueVars, kernelVars>>
       \/ ~Alive /\ spc' = "undefined" /\ UNCHANGED vars
    /\ UNCHANGED <<cpc, count, tid, mloop, got, ended>>

(***************************************************************************)
(* The new thread: runInThread() and threadFunc()                           *)
(***************************************************************************)
\* Mutant: the latch opens before the tid is stored.
SetTidLate == /\ cpc = "tid" /\ cpc' = "count"
              /\ UNCHANGED <<vars, spc, count, tid, mloop, got, ended>>

SetTid == /\ cpc = "tid" /\ cpc' = "count"
          /\ tid' = TRUE
          /\ UNCHANGED <<vars, spc, count, mloop, got, ended>>

\* CountDownLatch::countDown()
CountDown ==
    /\ cpc = "count" /\ cpc' = "publish"
    /\ count' = count - 1
    /\ spc' = IF count' = 0 /\ spc = "latchSleep" THEN "latch" ELSE spc
    /\ UNCHANGED <<vars, tid, mloop, got, ended>>

\* the loop is constructed, m_loop set and m_cond signalled
PublishLoop == /\ cpc = "publish" /\ cpc' = "loop"
               /\ mloop' = TRUE
               /\ spc' = IF spc = "sleep" THEN "wait" ELSE spc
               /\ UNCHANGED <<vars, count, tid, got, ended>>

\* Mutant: m_loop keeps pointing to the loop.
ClearLoopNever == /\ cpc = "loop" /\ pc = "stopped" /\ cpc' = "clear"
                  /\ UNCHANGED <<vars, spc, count, tid, mloop, got, ended>>

\* loop() has returned: m_loop = nullptr, without the mutex
ClearLoop == /\ cpc = "loop" /\ pc = "stopped" /\ cpc' = "clear"
             /\ mloop' = FALSE
             /\ UNCHANGED <<vars, spc, count, tid, got, ended>>

\* threadFunc(), or main(), returns: ~EventLoop()
EndLoop == /\ cpc = "clear" /\ cpc' = "gone"
           /\ UNCHANGED <<vars, spc, count, tid, mloop, got, ended>>

(***************************************************************************)
(* The loop and its callers.  Another thread can only use the loop that     *)
(* startLoop() has returned, and while it exists, and until then the loop   *)
(* has no channel but its own; main() also calls before loop()              *)
(* (TcpServer::start()), a new thread does not.                             *)
(***************************************************************************)
InLoop == cpc = "loop" /\ UNCHANGED threadVars

Returned == spc \in {"none", "have", "quit", "over", "undefined"}

MayCall(t) == IF t = Owner THEN cpc = "loop" /\ (spc = "none" \/ pc # "start")
              ELSE spc \in {"none", "have"} /\ Alive

Call(t) == /\ MayCall(t)
           /\ \/ /\ \E task \in Tasks : QueueInLoop(t, task) \/ RunInLoop(t, task)
                 /\ UNCHANGED threadVars
              \/ /\ Quit(t)
                 /\ ended' = TRUE
                 /\ UNCHANGED <<spc, cpc, count, tid, mloop, got>>

\* The caller's write finds the eventfd open, or closed by ~EventLoop().
CallerWakeup(t) == /\ \/ Alive /\ Wakeup(t)
                      \/ /\ ~Alive /\ t \in waking /\ waking' = waking \ {t}
                         /\ UNCHANGED <<pc, quit, calling, active, submitted,
                                        queueVars, kernelVars>>
                   /\ UNCHANGED threadVars

StarterStep == \/ StartLoop \/ WaitLatch \/ CheckTid \/ WaitLoop \/ ReturnLoop
               \/ DestructorQuit

ThreadStep == SetTid \/ CountDown \/ PublishLoop \/ ClearLoop \/ EndLoop

ThreadNext == \/ StarterStep \/ SpuriousWakeup \/ Destroy
              \/ ThreadStep
              \/ InLoop /\ (OwnerStep \/ PollWake \/ PollNothing)
              \/ InLoop /\ Returned /\ PollIO
              \/ \E t \in Threads \cup {Owner} : Call(t) \/ CallerWakeup(t)

\* As for the loop alone: a thread that can run runs.  Nobody has to call the
\* destructor.
ThreadFairness == /\ WF_allVars(StarterStep)
                  /\ WF_allVars(ThreadStep)
                  /\ WF_allVars(InLoop /\ OwnerStep)
                  /\ SF_allVars(InLoop /\ PollWake)
                  /\ \A t \in Threads \cup {Owner} : WF_allVars(CallerWakeup(t))

ThreadSpec == ThreadInit /\ [][ThreadNext]_allVars /\ ThreadFairness

(***************************************************************************)
(* Properties                                                               *)
(***************************************************************************)
\* Type correctness of the thread's part of the state; the loop takes no step
\* and has no caller before it is constructed.
ThreadTypeOK ==
    /\ spc \in {"none", "new", "latch", "latchSleep", "tid", "wait", "sleep",
                "return", "have", "quit", "over", "undefined", "fatal"}
    /\ cpc \in {"none", "tid", "count", "publish", "loop", "clear", "gone"}
    /\ count \in {0, 1}
    /\ tid \in BOOLEAN /\ mloop \in BOOLEAN /\ got \in BOOLEAN /\ ended \in BOOLEAN
    /\ cpc \in {"none", "tid", "count", "publish"}
         => pc = "start" /\ submitted = {} /\ waking = {} /\ ~quit
    /\ ~Returned => (mloop <=> Alive) /\ active = {} /\ ~counter /\ ~quit

\* Type correctness of loop and thread together.
TypesOK == TypeOK /\ ThreadTypeOK

\* Whoever finds m_loop set without the mutex finds a loop that exists, at
\* whatever point of the two threads he looks (EventLoopThread.cpp:12, 31, 43).
PublishedIsAlive == mloop => Alive

\* startLoop() finds the tid stored when the latch opens, and the loop still
\* there when it reads m_loop again after the wait (Thread.cpp:24-29, 71-74,
\* EventLoopThread.cpp:31).
StartReturnsLoop == spc # "fatal" /\ (spc \in {"have", "quit"} => got)

\* The destructor's quit() meets a loop that is gone only in one case: someone
\* else had it quit, and its thread ended between the test of m_loop and the
\* call (EventLoopThread.cpp:12-13).
DestructorMeetsLoop ==
    /\ [][spc # "quit" /\ spc' = "quit" => Alive]_allVars
    /\ [](spc = "undefined" => ended)

\* startLoop() returns: neither the latch's nor the condition's wake-up is
\* lost, and spurious ones do no harm (CountDownLatch.cpp:6-17,
\* EventLoopThread.cpp:24-40).
StartReturns == spc = "new" ~> spc = "have"

\* Once loop() has been entered, quit() ends it and its thread, even if no
\* event ever arrives again (EventLoop.h:44-49).  A quit() that comes before
\* that, as the destructor's may, is forgotten (EventLoop.cpp:76).
QuitEnds == (quit /\ pc # "start") ~> (cpc = "gone")
=============================================================================
