-------------------------- MODULE EventLoopProofs --------------------------
(***************************************************************************)
(* Proofs about EventLoop for any set of functors and any set of threads.   *)
(***************************************************************************)
EXTENDS EventLoop, TLAPS, SequenceTheorems

\* Every step of EventLoop, written as one disjunction for case splits.
LEMMA NextCases ==
  ASSUME Next
  PROVE  \/ LoopEnter \/ CheckQuit \/ PollWake \/ PollIO \/ PollNothing
         \/ Dispatch \/ HandleRead \/ Swap \/ Run \/ Finish \/ Return
         \/ \E t \in Threads \cup {Owner} : \E task \in Tasks : QueueInLoop(t, task)
         \/ \E t \in Threads \cup {Owner} : \E task \in Tasks : RunInLoop(t, task)
         \/ \E t \in Threads \cup {Owner} : Quit(t)
         \/ \E t \in Threads \cup {Owner} : Wakeup(t)
BY DEF Next, OwnerStep, CallerStep

LEMMA InitType == Init => TypeOK
<1> SUFFICES ASSUME Init PROVE TypeOK
    OBVIOUS
<1>1. /\ pc \in Labels /\ quit \in BOOLEAN /\ calling \in BOOLEAN
      /\ counter \in BOOLEAN /\ edge \in BOOLEAN
    BY DEF Init, Labels
<1>2. /\ pending \in Seq(Tasks) /\ functors \in Seq(Tasks) /\ done \in Seq(Tasks)
      /\ active \subseteq {"wakeup", "io"}
      /\ waking \subseteq Threads \cup {Owner}
      /\ submitted \subseteq Tasks
    BY DEF Init
<1>3. ~calling /\ pc # "run" /\ functors = <<>>
    BY DEF Init
<1> QED
    BY <1>1, <1>2, <1>3 DEF TypeOK

\* TypeOK is preserved by every step (EventLoop.cpp:69-182).
LEMMA StepType == TypeOK /\ [Next]_vars => TypeOK'
<1> SUFFICES ASSUME TypeOK, [Next]_vars PROVE TypeOK'
    OBVIOUS
<1> USE DEF TypeOK, Labels, OwnerAt, callerVars, queueVars, kernelVars
<1>1. CASE LoopEnter BY <1>1 DEF LoopEnter
<1>2. CASE CheckQuit BY <1>2 DEF CheckQuit
<1>3. CASE PollWake BY <1>3 DEF PollWake
<1>4. CASE PollIO BY <1>4 DEF PollIO
<1>5. CASE PollNothing BY <1>5 DEF PollNothing
<1>6. CASE Dispatch BY <1>6 DEF Dispatch
<1>7. CASE HandleRead BY <1>7 DEF HandleRead
<1>8. CASE Swap BY <1>8 DEF Swap
<1>9. CASE Run BY <1>9 DEF Run
<1>10. CASE Finish BY <1>10 DEF Finish
<1>11. CASE Return BY <1>11 DEF Return
<1>12. ASSUME NEW t \in Threads \cup {Owner}, NEW task \in Tasks,
              QueueInLoop(t, task)
       PROVE TypeOK'
  <2>1. pending' \in Seq(Tasks) /\ submitted' \subseteq Tasks
    BY <1>12 DEF QueueInLoop
  <2>2. waking' \subseteq Threads \cup {Owner}
    BY <1>12 DEF QueueInLoop
  <2> QED
    BY <1>12, <2>1, <2>2, Zenon DEF QueueInLoop
<1>13. ASSUME NEW t \in Threads \cup {Owner}, NEW task \in Tasks,
              RunInLoop(t, task)
       PROVE TypeOK'
  <2>1. CASE QueueInLoop(t, task)
    BY <1>12, <2>1
  <2>2. CASE t = Owner /\ ~QueueInLoop(t, task)
    <3>1. /\ submitted' = submitted \cup {task}
          /\ done' = Append(done, task)
          /\ UNCHANGED <<pc, quit, calling, pending, functors, active, waking,
                         counter, edge>>
      BY <1>13, <2>2, Zenon DEF RunInLoop
    <3>2. submitted' \subseteq Tasks /\ done' \in Seq(Tasks)
      BY <3>1
    <3> QED
      BY <3>1, <3>2, Zenon
  <2> QED
    BY <1>13, <2>1, <2>2 DEF RunInLoop
<1>14. ASSUME NEW t \in Threads \cup {Owner}, Quit(t) PROVE TypeOK'
    BY <1>14 DEF Quit, SetQuit
<1>15. ASSUME NEW t \in Threads \cup {Owner}, Wakeup(t) PROVE TypeOK'
    BY <1>15 DEF Wakeup
<1>16. CASE UNCHANGED vars BY <1>16 DEF vars
<1> QED
    BY NextCases, <1>1, <1>2, <1>3, <1>4, <1>5, <1>6, <1>7, <1>8, <1>9, <1>10,
       <1>11, <1>12, <1>13, <1>14, <1>15, <1>16

\* Type correctness of the loop, with the two facts on doPendingFunctors()
\* that TypeOK states (EventLoop.cpp:147-159).
THEOREM TypeCorrect == Spec => []TypeOK
BY InitType, StepType, PTL DEF Spec

(***************************************************************************)
(* No lost wake-up.  WakeupPromise is inductive relative to TypeOK: a push  *)
(* after the swap leaves the pusher in waking, wakeup() turns that into a   *)
(* ready eventfd, and only PollWake, which leads to the next swap, takes    *)
(* the readiness back.                                                      *)
(***************************************************************************)
LEMMA StepWakeup ==
  TypeOK /\ WakeupPromise /\ [Next]_vars => WakeupPromise'
<1> SUFFICES ASSUME TypeOK, WakeupPromise, [Next]_vars PROVE WakeupPromise'
    OBVIOUS
<1> USE DEF TypeOK, Labels, WakeupPromise, Signal, WakeupReady, OwnerAt,
            callerVars, queueVars, kernelVars
<1>1. CASE LoopEnter BY <1>1 DEF LoopEnter
<1>2. CASE CheckQuit BY <1>2 DEF CheckQuit
<1>3. CASE PollWake BY <1>3 DEF PollWake
<1>4. CASE PollIO BY <1>4 DEF PollIO
<1>5. CASE PollNothing BY <1>5 DEF PollNothing
<1>6. CASE Dispatch BY <1>6 DEF Dispatch
<1>7. CASE HandleRead BY <1>7 DEF HandleRead
<1>8. CASE Swap BY <1>8 DEF Swap
<1>9. CASE Run BY <1>9 DEF Run
<1>10. CASE Finish BY <1>10 DEF Finish
<1>11. CASE Return BY <1>11 DEF Return
<1>12. ASSUME NEW t \in Threads \cup {Owner}, NEW task \in Tasks,
              QueueInLoop(t, task)
       PROVE WakeupPromise'
    BY <1>12 DEF QueueInLoop, InUserCode, NeedsWakeup
<1>13. ASSUME NEW t \in Threads \cup {Owner}, NEW task \in Tasks,
              RunInLoop(t, task)
       PROVE WakeupPromise'
    BY <1>12, <1>13 DEF RunInLoop
<1>14. ASSUME NEW t \in Threads \cup {Owner}, Quit(t) PROVE WakeupPromise'
    BY <1>14 DEF Quit, SetQuit, InUserCode
<1>15. ASSUME NEW t \in Threads \cup {Owner}, Wakeup(t) PROVE WakeupPromise'
    BY <1>15 DEF Wakeup
<1>16. CASE UNCHANGED vars BY <1>16 DEF vars
<1> QED
    BY NextCases, <1>1, <1>2, <1>3, <1>4, <1>5, <1>6, <1>7, <1>8, <1>9, <1>10,
       <1>11, <1>12, <1>13, <1>14, <1>15, <1>16

\* For any number of threads and functors, the owner never polls with work
\* pending that no wake-up is under way for (EventLoop.cpp:118-129).
THEOREM WakeupNeverLost == Spec => [](WakeupPromise /\ NoLostWakeup)
<1>1. Init => WakeupPromise
    BY DEF Init, WakeupPromise
<1>2. TypeOK /\ WakeupPromise => NoLostWakeup
    BY DEF WakeupPromise, NoLostWakeup
<1> QED
    BY <1>1, <1>2, InitType, StepType, StepWakeup, PTL DEF Spec

(***************************************************************************)
(* The refinement of TaskQueue, step by step.                               *)
(***************************************************************************)
\* What the refinement mapping makes of the two vectors.
LEMMA ConcatAppend ==
  ASSUME NEW S, NEW s \in Seq(S), NEW u \in Seq(S), NEW x \in S
  PROVE  s \o Append(u, x) = Append(s \o u, x)
OBVIOUS

LEMMA ConcatHeadTail ==
  ASSUME NEW S, NEW s \in Seq(S), NEW u \in Seq(S), s # <<>>
  PROVE  /\ s \o u # <<>>
         /\ Head(s \o u) = Head(s)
         /\ Tail(s \o u) = Tail(s) \o u
OBVIOUS

\* The steps that neither push, run nor stop leave the abstract state alone.
LEMMA InternalSteps ==
  ASSUME TypeOK,
         \/ LoopEnter \/ PollWake \/ PollIO \/ PollNothing \/ Dispatch
         \/ HandleRead \/ Finish \/ Return \/ (CheckQuit /\ pc' # "stopped")
         \/ (\E t \in Threads \cup {Owner} : Quit(t) \/ Wakeup(t))
         \/ UNCHANGED vars
  PROVE  /\ UNCHANGED <<functors, pending, done, submitted>>
         /\ (pc = "stopped") = (pc' = "stopped")
BY DEF TypeOK, LoopEnter, PollWake, PollIO, PollNothing, Dispatch, HandleRead,
       Finish, Return, CheckQuit, Quit, SetQuit, Wakeup, OwnerAt, InUserCode,
       callerVars, queueVars, vars

LEMMA SwapKeepsQueue ==
  ASSUME TypeOK, Swap
  PROVE  /\ functors' \o pending' = functors \o pending
         /\ UNCHANGED <<done, submitted>>
         /\ pc # "stopped" /\ pc' # "stopped"
<1>1. functors = <<>>
    BY DEF TypeOK, Swap, OwnerAt
<1>2. functors' = pending /\ pending' = functors
    BY DEF Swap
<1>3. pending \o <<>> = pending /\ <<>> \o pending = pending
    BY ConcatEmptySeq DEF TypeOK
<1> QED
    BY <1>1, <1>2, <1>3 DEF Swap, OwnerAt, callerVars

LEMMA StepRefines == TypeOK /\ [Next]_vars => [TQ!Next]_TQ!vars
<1> SUFFICES ASSUME TypeOK, [Next]_vars PROVE [TQ!Next]_TQ!vars
    OBVIOUS
<1>1. ASSUME NEW t \in Threads \cup {Owner}, NEW task \in Tasks,
             QueueInLoop(t, task)
      PROVE  TQ!Submit(task)
  <2>1. functors' \o pending' = Append(functors \o pending, task)
    BY <1>1, ConcatAppend DEF QueueInLoop, TypeOK
  <2> QED
    BY <1>1, <2>1 DEF QueueInLoop, TQ!Submit
<1>2. ASSUME NEW t \in Threads \cup {Owner}, NEW task \in Tasks,
             RunInLoop(t, task)
      PROVE  TQ!Submit(task) \/ TQ!RunNow(task)
  <2>1. CASE QueueInLoop(t, task)
    BY <1>1, <2>1
  <2>2. CASE ~QueueInLoop(t, task)
    BY <1>2, <2>2, Zenon DEF RunInLoop, TQ!RunNow
  <2> QED
    BY <2>1, <2>2
<1>3. CASE Run
  <2>1. /\ functors' \o pending' = Tail(functors \o pending)
        /\ functors \o pending # <<>>
        /\ done' = Append(done, Head(functors \o pending))
    BY <1>3, ConcatHeadTail DEF Run, TypeOK
  <2>2. TQ!Execute
    BY <1>3, <2>1 DEF Run, OwnerAt, callerVars, TQ!Execute
  <2> QED
    BY <2>2 DEF TQ!Next
<1>4. CASE Swap
    BY <1>4, SwapKeepsQueue DEF TQ!vars
<1>5. CASE CheckQuit /\ pc' = "stopped"
  <2>1. TQ!Stop
    BY <1>5 DEF CheckQuit, OwnerAt, callerVars, queueVars, TQ!Stop
  <2> QED
    BY <2>1 DEF TQ!Next
<1>6. CASE \/ LoopEnter \/ PollWake \/ PollIO \/ PollNothing \/ Dispatch
           \/ HandleRead \/ Finish \/ Return \/ (CheckQuit /\ pc' # "stopped")
           \/ (\E t \in Threads \cup {Owner} : Quit(t) \/ Wakeup(t))
           \/ UNCHANGED vars
    BY <1>6, InternalSteps DEF TQ!vars
<1>7. CASE \E t \in Threads \cup {Owner} : \E task \in Tasks :
             QueueInLoop(t, task) \/ RunInLoop(t, task)
  <2>1. \E task \in Tasks : TQ!Submit(task) \/ TQ!RunNow(task)
    BY <1>1, <1>2, <1>7
  <2> QED
    BY <2>1 DEF TQ!Next
<1> QED
    BY NextCases, <1>3, <1>4, <1>5, <1>6, <1>7

\* The loop with its swap, its mutex and its eventfd behaves as a FIFO of
\* functors (EventLoop.cpp:107-159): the safety half of ImplementsTaskQueue.
THEOREM RefinesTaskQueue == Spec => TQ!SafeSpec
<1>1. Init => TQ!Init
  <2>1. <<>> \o <<>> = <<>>
    OBVIOUS
  <2> QED
    BY <2>1 DEF Init, TQ!Init
<1> QED
    BY <1>1, InitType, StepType, StepRefines, PTL DEF Spec, TQ!SafeSpec

TQP == INSTANCE TaskQueueProofs WITH queue    <- functors \o pending,
                                     executed <- done,
                                     known    <- submitted,
                                     stopped  <- (pc = "stopped")

\* What TaskQueue proves of its history, in the terms of the loop.
LEMMA QueueRunsOnce == TQ!SafeSpec => []AtMostOnce
<1>1. TQ!SafeSpec => TQP!SafeSpec
  <2>1. TQ!Init => TQP!Init
    BY DEF TQ!Init, TQP!Init
  <2>2. [TQ!Next]_TQ!vars => [TQP!Next]_TQP!vars
    BY DEF TQ!Next, TQ!Submit, TQ!RunNow, TQ!Execute, TQ!Stop, TQ!vars,
           TQP!Next, TQP!Submit, TQP!RunNow, TQP!Execute, TQP!Stop, TQP!vars
  <2> QED
    BY <2>1, <2>2, PTL DEF TQ!SafeSpec, TQP!SafeSpec
<1>2. TQP!Distinct(done) <=> AtMostOnce
    BY DEF TQP!Distinct, AtMostOnce
<1> QED
    BY <1>1, <1>2, TQP!RunOnce, PTL

\* No functor handed to queueInLoop() or runInLoop() is run twice, carried
\* over from TaskQueue (EventLoop.cpp:147-159).
THEOREM EachRunOnce == Spec => []AtMostOnce
BY RefinesTaskQueue, QueueRunsOnce, PTL
=============================================================================
