----------------------- MODULE EventLoopThreadProofs -----------------------
(***************************************************************************)
(* Proofs about EventLoopThread for any functors, callers and starter.      *)
(***************************************************************************)
EXTENDS EventLoopThread, EventLoopProofs

\* How far the starter and the new thread can be apart.  Until startLoop() has
\* returned nothing can make the new loop do, receive or end anything.
Handshake ==
    /\ spc = "none" => cpc \in {"loop", "clear", "gone"}
    /\ spc = "new" <=> cpc = "none"
    /\ cpc \in {"none", "tid", "count"} => count = 1
    /\ cpc \in {"count", "publish"} => tid
    /\ count = 0 => tid
    /\ spc \in {"tid", "wait", "sleep", "return"} => count = 0
    /\ mloop => cpc = "loop"
    /\ spc = "return" => mloop
    /\ spc # "fatal" /\ (spc \in {"have", "quit"} => got)
    /\ cpc \in {"none", "tid", "count", "publish"} => pc = "start" /\ ~Returned
    /\ pc = "stopped" => Returned
    /\ ~Returned => /\ cpc \notin {"clear", "gone"}
                    /\ pc \notin {"drain", "user"}
                    /\ pending = <<>> /\ functors = <<>> /\ waking = {}
                    /\ submitted = {}
    /\ cpc \in {"clear", "gone"} => pc = "stopped"

IInv == TypeOK /\ ThreadTypeOK /\ Handshake

LEMMA InitInv == ThreadInit => IInv
<1> SUFFICES ASSUME ThreadInit PROVE IInv
    OBVIOUS
<1>1. TypeOK
    BY InitType DEF ThreadInit
<1>2. ThreadTypeOK
    BY DEF ThreadInit, Init, ThreadTypeOK, Returned, Alive
<1>3. Handshake
    BY DEF ThreadInit, Init, Handshake, Returned
<1> QED
    BY <1>1, <1>2, <1>3 DEF IInv

\* The steps of the starter and of the new thread outside loop().
LEMMA LifeInv ==
  ASSUME IInv, StarterStep \/ SpuriousWakeup \/ Destroy \/ ThreadStep
  PROVE  ThreadTypeOK' /\ Handshake'
<1> USE DEF IInv, ThreadTypeOK, Handshake, Returned, Alive, vars
<1>1. CASE StartLoop BY <1>1 DEF StartLoop
<1>2. CASE WaitLatch BY <1>2 DEF WaitLatch
<1>3. CASE CheckTid BY <1>3 DEF CheckTid
<1>4. CASE WaitLoop BY <1>4 DEF WaitLoop
<1>5. CASE ReturnLoop BY <1>5 DEF ReturnLoop
<1>6. CASE SpuriousWakeup BY <1>6 DEF SpuriousWakeup
<1>7. CASE Destroy BY <1>7 DEF Destroy
<1>8. CASE DestructorQuit
    BY <1>8 DEF DestructorQuit, SetQuit, queueVars, kernelVars
<1>9. CASE SetTid BY <1>9 DEF SetTid
<1>10. CASE CountDown BY <1>10 DEF CountDown
<1>11. CASE PublishLoop BY <1>11 DEF PublishLoop
<1>12. CASE ClearLoop BY <1>12 DEF ClearLoop
<1>13. CASE EndLoop BY <1>13 DEF EndLoop
<1> QED
    BY <1>1, <1>2, <1>3, <1>4, <1>5, <1>6, <1>7, <1>8, <1>9, <1>10, <1>11,
       <1>12, <1>13 DEF StarterStep, ThreadStep

\* The steps of the owner inside loop().
LEMMA OwnerInv ==
  ASSUME IInv, InLoop,
         OwnerStep \/ PollWake \/ PollNothing \/ (Returned /\ PollIO)
  PROVE  ThreadTypeOK' /\ Handshake'
<1> USE DEF IInv, InLoop, threadVars, TypeOK, ThreadTypeOK, Handshake, Returned,
            Alive, OwnerAt, WakeupReady, callerVars, queueVars, kernelVars
<1>1. CASE LoopEnter BY <1>1 DEF LoopEnter
<1>2. CASE CheckQuit BY <1>2 DEF CheckQuit
<1>3. CASE PollWake BY <1>3 DEF PollWake
<1>4. CASE PollNothing BY <1>4 DEF PollNothing
<1>5. CASE Returned /\ PollIO BY <1>5 DEF PollIO
<1>6. CASE Dispatch BY <1>6 DEF Dispatch
<1>7. CASE HandleRead BY <1>7 DEF HandleRead
<1>8. CASE Swap BY <1>8 DEF Swap
<1>9. CASE Run BY <1>9 DEF Run
<1>10. CASE Finish BY <1>10 DEF Finish
<1>11. CASE Return BY <1>11 DEF Return
<1> QED
    BY <1>1, <1>2, <1>3, <1>4, <1>5, <1>6, <1>7, <1>8, <1>9, <1>10, <1>11
    DEF OwnerStep

\* The callers, who have the loop only from startLoop().
LEMMA CallerInv ==
  ASSUME IInv, NEW t \in Threads \cup {Owner}, Call(t) \/ CallerWakeup(t)
  PROVE  ThreadTypeOK' /\ Handshake'
<1> USE DEF IInv, threadVars, TypeOK, ThreadTypeOK, Handshake, Returned, Alive,
            OwnerAt, queueVars, kernelVars
<1>1. ASSUME NEW task \in Tasks, QueueInLoop(t, task), MayCall(t),
             UNCHANGED threadVars
      PROVE  ThreadTypeOK' /\ Handshake'
    BY <1>1 DEF QueueInLoop, MayCall, InUserCode
<1>2. ASSUME NEW task \in Tasks, RunInLoop(t, task), MayCall(t),
             UNCHANGED threadVars
      PROVE  ThreadTypeOK' /\ Handshake'
    BY <1>1, <1>2 DEF RunInLoop, MayCall
<1>3. CASE /\ MayCall(t) /\ Quit(t) /\ ended' = TRUE
           /\ UNCHANGED <<spc, cpc, count, tid, mloop, got>>
    BY <1>3 DEF Quit, SetQuit, MayCall, InUserCode
<1>4. CASE CallerWakeup(t)
    BY <1>4 DEF CallerWakeup, Wakeup
<1> QED
    BY <1>1, <1>2, <1>3, <1>4 DEF Call

\* Every step is one of the loop's own, or leaves the loop's state alone, or
\* is one of two the loop alone does not have: the destructor's quit() and a
\* wake-up that finds the loop gone.
LEMMA ThreadCases ==
  ASSUME [ThreadNext]_allVars
  PROVE  \/ [Next]_vars
         \/ DestructorQuit /\ Alive
         \/ \E t \in Threads \cup {Owner} : CallerWakeup(t) /\ ~Alive
BY DEF ThreadNext, allVars, threadVars, StarterStep, ThreadStep, InLoop, Call,
       CallerWakeup, StartLoop, WaitLatch, CheckTid, WaitLoop, ReturnLoop,
       SpuriousWakeup, Destroy, SetTid, CountDown, PublishLoop, ClearLoop,
       EndLoop, DestructorQuit, Next, CallerStep

LEMMA StepInv == IInv /\ [ThreadNext]_allVars => IInv'
<1> SUFFICES ASSUME IInv, [ThreadNext]_allVars PROVE IInv'
    OBVIOUS
<1>1. TypeOK'
  <2>1. CASE [Next]_vars
    BY <2>1, StepType DEF IInv
  <2>2. CASE DestructorQuit /\ Alive
    <3>1. /\ quit' = TRUE /\ waking' \subseteq waking \cup {Starter}
          /\ UNCHANGED <<pc, calling, active, submitted, pending, functors, done,
                         counter, edge>>
      BY <2>2 DEF DestructorQuit, SetQuit, queueVars, kernelVars, Alive
    <3> QED
      BY <3>1, StarterAssumption DEF IInv, TypeOK, Labels
  <2>3. CASE \E t \in Threads \cup {Owner} : CallerWakeup(t) /\ ~Alive
    <3>1. /\ waking' \subseteq waking
          /\ UNCHANGED <<pc, quit, calling, active, submitted, pending, functors,
                         done, counter, edge>>
      BY <2>3 DEF CallerWakeup, queueVars, kernelVars
    <3> QED
      BY <3>1 DEF IInv, TypeOK, Labels
  <2> QED
    BY <2>1, <2>2, <2>3, ThreadCases
<1>2. ThreadTypeOK' /\ Handshake'
  <2>1. CASE UNCHANGED allVars
    BY <2>1 DEF allVars, threadVars, vars, IInv, ThreadTypeOK, Handshake,
                Returned, Alive
  <2>2. CASE ThreadNext
    BY <2>2, LifeInv, OwnerInv, CallerInv DEF ThreadNext
  <2> QED
    BY <2>1, <2>2
<1> QED
    BY <1>1, <1>2 DEF IInv

\* Type correctness of the loop and of its thread together.
THEOREM ThreadTypeCorrect == ThreadSpec => []TypesOK
<1>1. IInv => TypesOK
    BY DEF IInv, TypesOK
<1> QED
    BY <1>1, InitInv, StepInv, PTL DEF ThreadSpec

\* Whoever reads m_loop without the mutex and finds it set finds a loop that
\* exists (EventLoopThread.cpp:12, 31, 43).
THEOREM LoopIsAlive == ThreadSpec => []PublishedIsAlive
<1>1. IInv => PublishedIsAlive
    BY DEF IInv, Handshake, PublishedIsAlive, Alive
<1> QED
    BY <1>1, InitInv, StepInv, PTL DEF ThreadSpec

\* startLoop() neither aborts on the tid nor returns NULL (Thread.cpp:71-74,
\* EventLoopThread.cpp:31).
THEOREM StartIsSafe == ThreadSpec => []StartReturnsLoop
<1>1. IInv => StartReturnsLoop
    BY DEF IInv, Handshake, StartReturnsLoop
<1> QED
    BY <1>1, InitInv, StepInv, PTL DEF ThreadSpec

\* No wake-up is lost in the composition either: the destructor's quit() wakes
\* the loop, and a wake-up that comes too late finds a loop that has stopped.
THEOREM ThreadWakeupNeverLost == ThreadSpec => [](WakeupPromise /\ NoLostWakeup)
<1>1. ThreadInit => WakeupPromise
    BY DEF ThreadInit, Init, WakeupPromise
<1>2. IInv /\ WakeupPromise /\ [ThreadNext]_allVars => WakeupPromise'
  <2> SUFFICES ASSUME IInv, WakeupPromise, [ThreadNext]_allVars
               PROVE  WakeupPromise'
    OBVIOUS
  <2>1. CASE [Next]_vars
    BY <2>1, StepWakeup DEF IInv
  <2>2. CASE DestructorQuit /\ Alive
    BY <2>2, StarterAssumption, OwnerAssumption
    DEF WakeupPromise, Signal, WakeupReady, DestructorQuit, SetQuit, queueVars,
        kernelVars
  <2>3. CASE \E t \in Threads \cup {Owner} : CallerWakeup(t) /\ ~Alive
    <3>1. pc = "stopped" \/ waking = {}
      BY <2>3 DEF IInv, ThreadTypeOK, Handshake, Alive
    <3> QED
      BY <2>3, <3>1 DEF CallerWakeup, Wakeup, WakeupPromise, IInv, TypeOK,
                        queueVars, kernelVars
  <2> QED
    BY <2>1, <2>2, <2>3, ThreadCases
<1>3. WakeupPromise => NoLostWakeup
    BY DEF WakeupPromise, NoLostWakeup
<1> QED
    BY <1>1, <1>2, <1>3, InitInv, StepInv, PTL DEF ThreadSpec

\* The loop is a FIFO of functors while threads start it, use it and destroy
\* it: the safety half of ImplementsTaskQueue for the composition.
THEOREM ThreadRefinesTaskQueue == ThreadSpec => TQ!SafeSpec
<1>1. ThreadInit => TQ!Init
  <2>1. <<>> \o <<>> = <<>>
    OBVIOUS
  <2> QED
    BY <2>1 DEF ThreadInit, Init, TQ!Init
<1>2. IInv /\ [ThreadNext]_allVars => [TQ!Next]_TQ!vars
  <2> SUFFICES ASSUME IInv, [ThreadNext]_allVars PROVE [TQ!Next]_TQ!vars
    OBVIOUS
  <2>1. CASE [Next]_vars
    BY <2>1, StepRefines DEF IInv
  <2>2. CASE DestructorQuit /\ Alive
    BY <2>2 DEF DestructorQuit, Alive, queueVars, TQ!vars
  <2>3. CASE \E t \in Threads \cup {Owner} : CallerWakeup(t) /\ ~Alive
    BY <2>3 DEF CallerWakeup, queueVars, TQ!vars
  <2> QED
    BY <2>1, <2>2, <2>3, ThreadCases
<1> QED
    BY <1>1, <1>2, InitInv, StepInv, PTL DEF ThreadSpec, TQ!SafeSpec

\* No functor is run twice, whoever starts, uses or destroys the loop.
THEOREM ThreadRunsOnce == ThreadSpec => []AtMostOnce
BY ThreadRefinesTaskQueue, QueueRunsOnce, PTL

\* Who made the loop stop: the destructor, which is then over, or someone else.
Culprit == /\ quit \/ pc = "stopped" => ended \/ spc = "over"
           /\ spc = "undefined" => ended

LEMMA StepCulprit ==
  IInv /\ Culprit /\ [ThreadNext]_allVars => Culprit'
<1> SUFFICES ASSUME IInv, Culprit, [ThreadNext]_allVars PROVE Culprit'
    OBVIOUS
<1> USE DEF IInv, TypeOK, ThreadTypeOK, Handshake, Culprit, Returned, Alive,
            threadVars, vars, OwnerAt, callerVars, queueVars, kernelVars
<1>1. CASE StarterStep \/ SpuriousWakeup \/ Destroy
    BY <1>1 DEF StarterStep, StartLoop, WaitLatch, CheckTid, WaitLoop, ReturnLoop,
                SpuriousWakeup, Destroy, DestructorQuit, SetQuit
<1>2. CASE ThreadStep
    BY <1>2 DEF ThreadStep, SetTid, CountDown, PublishLoop, ClearLoop, EndLoop
<1>3. CASE InLoop /\ (OwnerStep \/ PollWake \/ PollNothing \/ PollIO)
    BY <1>3 DEF InLoop, OwnerStep, PollWake, PollNothing, PollIO, LoopEnter,
                CheckQuit, Dispatch, HandleRead, Swap, Run, Finish, Return
<1>4. ASSUME NEW t \in Threads \cup {Owner}, Call(t) \/ CallerWakeup(t)
      PROVE  Culprit'
    BY <1>4 DEF Call, CallerWakeup, Wakeup, QueueInLoop, RunInLoop, Quit, SetQuit,
                InUserCode, MayCall
<1>5. CASE UNCHANGED allVars BY <1>5 DEF allVars
<1> QED
    BY <1>1, <1>2, <1>3, <1>4, <1>5 DEF ThreadNext

\* ~EventLoopThread() calls quit() on a loop that exists, unless someone else
\* had it quit after the test of m_loop (EventLoopThread.cpp:11-15, 43).
THEOREM DestructorIsSafe == ThreadSpec => DestructorMeetsLoop
<1>1. ThreadInit => Culprit
    BY DEF ThreadInit, Init, Culprit
<1>2. IInv /\ [ThreadNext]_allVars
        => [spc # "quit" /\ spc' = "quit" => Alive]_allVars
  <2> SUFFICES ASSUME IInv, ThreadNext, spc # "quit", spc' = "quit" PROVE Alive
    OBVIOUS
  <2>1. Destroy
    BY DEF ThreadNext, StarterStep, StartLoop, WaitLatch, CheckTid, WaitLoop,
           ReturnLoop, SpuriousWakeup, DestructorQuit, ThreadStep, SetTid,
           CountDown, PublishLoop, ClearLoop, EndLoop, InLoop, Call, CallerWakeup,
           threadVars
  <2> QED
    BY <2>1 DEF Destroy, IInv, Handshake, Alive
<1>3. Culprit => (spc = "undefined" => ended)
    BY DEF Culprit
<1> QED
    BY <1>1, <1>2, <1>3, InitInv, StepInv, StepCulprit, PTL
    DEF ThreadSpec, DestructorMeetsLoop
=============================================================================
