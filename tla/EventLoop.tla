----------------------------- MODULE EventLoop -----------------------------
(***************************************************************************)
(* One EventLoop: the thread that owns it runs loop(), and any thread may   *)
(* call queueInLoop(), runInLoop() and quit() on it.  The module keeps the  *)
(* interleaving of the owner with its callers: a caller pushes its functor  *)
(* under the mutex, releases it, and only then writes the eventfd, which is *)
(* registered with epoll edge-triggered.                                    *)
(*                                                                          *)
(* External parts, modelled as the code uses them: the eventfd (a counter   *)
(* of which only "non-zero" matters: a read returns and clears all of it)   *)
(* and epoll's ready list (the edge set by each write and consumed by       *)
(* epoll_wait).                                                             *)
(***************************************************************************)
EXTENDS Naturals, Sequences

CONSTANTS Tasks,    \* functors; each is submitted at most once (a bound)
          Threads,  \* threads other than the owner that hold the loop
          Owner     \* the thread that constructed the loop and runs loop()

ASSUME OwnerAssumption == Owner \notin Threads

VARIABLES
  pc,         \* where the owner is in loop()
  quit,       \* m_quit
  calling,    \* m_calling_pending_functors
  pending,    \* m_pending_functors, guarded by m_mutex
  functors,   \* the local vector of doPendingFunctors(), not yet called part
  active,     \* m_active_channels not yet handled: "wakeup" and/or "io"
  counter,    \* the eventfd's counter is non-zero
  edge,       \* the eventfd is on epoll's ready list
  waking,     \* threads between a push (or m_quit = true) and wakeup()
  submitted,  \* history: functors ever handed over
  done        \* history: functors in the order they were run

vars == <<pc, quit, calling, pending, functors, active, counter, edge, waking,
          submitted, done>>

callerVars == <<waking, submitted>>
queueVars  == <<pending, functors, done>>
kernelVars == <<counter, edge>>

Init == /\ pc = "start"
        /\ quit = FALSE
        /\ calling = FALSE
        /\ pending = <<>>
        /\ functors = <<>>
        /\ active = {}
        /\ counter = FALSE
        /\ edge = FALSE
        /\ waking = {}
        /\ submitted = {}
        /\ done = <<>>

(***************************************************************************)
(* The owner.  It takes no step of loop() while it is itself between a push *)
(* and the wakeup() that follows it.                                        *)
(***************************************************************************)
OwnerAt(label) == pc = label /\ Owner \notin waking

\* The wake-up channel is ready: its fd is readable and on the ready list.
WakeupReady == counter /\ edge

LoopEnter == /\ OwnerAt("start")
             /\ quit' = FALSE
             /\ pc' = "check"
             /\ UNCHANGED <<calling, active, callerVars, queueVars, kernelVars>>

\* while (!m_quit) ... ; loop() returns
CheckQuit == /\ OwnerAt("check")
             /\ pc' = IF quit THEN "stopped" ELSE "poll"
             /\ UNCHANGED <<quit, calling, active, callerVars, queueVars,
                            kernelVars>>

\* epoll_wait returns the wake-up channel, alone or with other channels
PollWake == /\ OwnerAt("poll")
            /\ WakeupReady
            /\ edge' = FALSE
            /\ active' \in {{"wakeup"}, {"wakeup", "io"}}
            /\ pc' = "dispatch"
            /\ UNCHANGED <<quit, calling, counter, callerVars, queueVars>>

\* epoll_wait returns other channels only.  The wake-up channel may be ready
\* too and left for a later call: m_events has room for 16 events at first.
PollIO == /\ OwnerAt("poll")
          /\ active' = {"io"}
          /\ pc' = "dispatch"
          /\ UNCHANGED <<quit, calling, callerVars, queueVars, kernelVars>>

\* epoll_wait returns 0 after kPollTimeoutMs, or -1 with EINTR
PollNothing == /\ OwnerAt("poll")
               /\ ~WakeupReady
               /\ edge' = FALSE
               /\ active' = {}
               /\ pc' = "dispatch"
               /\ UNCHANGED <<quit, calling, counter, callerVars, queueVars>>

\* The for loop over m_active_channels: the wake-up channel's handler is
\* handleRead(), any other one is user code.
Dispatch == /\ OwnerAt("dispatch")
            /\ \E channel \in active :
                 /\ active' = active \ {channel}
                 /\ pc' = IF channel = "wakeup" THEN "drain" ELSE "user"
            /\ UNCHANGED <<quit, calling, callerVars, queueVars, kernelVars>>

\* One ::read of EventLoop::handleRead(): it clears the counter, and the loop
\* ends at the read that finds it zero (EAGAIN).
HandleRead == /\ OwnerAt("drain")
              /\ counter' = FALSE
              /\ pc' = IF counter THEN "drain" ELSE "dispatch"
              /\ UNCHANGED <<quit, calling, active, edge, callerVars, queueVars>>

\* doPendingFunctors() up to the end of its critical section.  The flag
\* m_calling_pending_functors is only ever read by the owner.
Swap == /\ OwnerAt("dispatch")
        /\ active = {}
        /\ calling' = TRUE
        /\ functors' = pending
        /\ pending' = functors
        /\ pc' = "run"
        /\ UNCHANGED <<quit, active, done, callerVars, kernelVars>>

\* for (auto& func : functors) func();
Run == /\ OwnerAt("run")
       /\ functors # <<>>
       /\ done' = Append(done, Head(functors))
       /\ functors' = Tail(functors)
       /\ pc' = "user"
       /\ UNCHANGED <<quit, calling, pending, active, callerVars, kernelVars>>

\* Mutant: m_calling_pending_functors is left set.
FinishKeepsFlag == /\ OwnerAt("run")
                   /\ functors = <<>>
                   /\ pc' = "check"
                   /\ UNCHANGED <<quit, calling, active, callerVars, queueVars,
                                  kernelVars>>

\* Mutant: m_pending_functors is cleared after the calls.
FinishClears == /\ OwnerAt("run")
                /\ functors = <<>>
                /\ calling' = FALSE
                /\ pending' = <<>>
                /\ pc' = "check"
                /\ UNCHANGED <<quit, active, functors, done, callerVars,
                               kernelVars>>

\* the end of doPendingFunctors()
Finish == /\ OwnerAt("run")
          /\ functors = <<>>
          /\ calling' = FALSE
          /\ pc' = "check"
          /\ UNCHANGED <<quit, active, callerVars, queueVars, kernelVars>>

\* A handler or a functor returns to the loop that called it.
Return == /\ OwnerAt("user")
          /\ pc' = IF calling THEN "run" ELSE "dispatch"
          /\ UNCHANGED <<quit, calling, active, callerVars, queueVars,
                         kernelVars>>

(***************************************************************************)
(* The callers.  Another thread calls at any time; the owner calls from a   *)
(* handler or a functor, or before loop() (TcpServer::start()).             *)
(***************************************************************************)
InUserCode(t) == /\ t \notin waking
                 /\ t = Owner => pc = "user"

\* Mutant: only functors queued by functors wake the loop.
NeedsWakeupNested(t) == calling

\* if (!isInLoopThread() || m_calling_pending_functors)
NeedsWakeup(t) == t # Owner \/ calling

\* The push of queueInLoop(); wakeup() follows in a step of its own.
QueueInLoop(t, task) ==
    /\ InUserCode(t)
    /\ task \notin submitted
    /\ submitted' = submitted \cup {task}
    /\ pending' = Append(pending, task)
    /\ waking' = IF NeedsWakeup(t) THEN waking \cup {t} ELSE waking
    /\ UNCHANGED <<pc, quit, calling, functors, active, done, kernelVars>>

\* runInLoop() in the owner calls the functor at once; in any other thread it
\* is queueInLoop().
RunInLoop(t, task) ==
    \/ t # Owner /\ QueueInLoop(t, task)
    \/ /\ t = Owner
       /\ OwnerAt("user") \/ OwnerAt("start")
       /\ task \notin submitted
       /\ submitted' = submitted \cup {task}
       /\ done' = Append(done, task)
       /\ UNCHANGED <<pc, quit, calling, pending, functors, active, waking,
                      kernelVars>>

\* Mutant: quit() never wakes the loop.
SetQuitSilent(t) == quit' = TRUE /\ waking' = waking

\* quit(): the assignment; wakeup() follows when another thread calls it.
SetQuit(t) == /\ quit' = TRUE
              /\ waking' = IF t # Owner THEN waking \cup {t} ELSE waking

\* A call of quit().  Bound: nobody calls it again while m_quit is set (a
\* repeated call only adds a wake-up; callers that never stop could keep
\* handleRead() reading).
Quit(t) == /\ InUserCode(t)
           /\ ~quit
           /\ SetQuit(t)
           /\ UNCHANGED <<pc, calling, active, submitted, queueVars, kernelVars>>

\* wakeup(): a write to an eventfd puts it on the ready list whether or not
\* it was readable before.
Wakeup(t) == /\ t \in waking
             /\ waking' = waking \ {t}
             /\ counter' = TRUE
             /\ edge' = TRUE
             /\ UNCHANGED <<pc, quit, calling, active, submitted, queueVars>>

OwnerStep == \/ LoopEnter \/ CheckQuit \/ Dispatch \/ HandleRead
             \/ Swap \/ Run \/ Finish \/ Return

CallerStep(t) == \/ \E task \in Tasks : QueueInLoop(t, task) \/ RunInLoop(t, task)
                 \/ Quit(t)
                 \/ Wakeup(t)

Next == \/ OwnerStep
        \/ PollWake \/ PollIO \/ PollNothing
        \/ \E t \in Threads \cup {Owner} : CallerStep(t)

(***************************************************************************)
(* Fairness.  A thread that can run goes on running; handlers and functors  *)
(* return.  Input and the 30 s timeout are not relied on: nothing here may  *)
(* depend on poll returning for another reason than the wake-up.  The       *)
(* kernel's ready list is FIFO, so the wake-up channel is not passed over   *)
(* forever (strong fairness).                                               *)
(***************************************************************************)
Fairness == /\ WF_vars(OwnerStep)
            /\ SF_vars(PollWake)
            /\ \A t \in Threads \cup {Owner} : WF_vars(Wakeup(t))

Spec == Init /\ [][Next]_vars /\ Fairness

(***************************************************************************)
(* Properties                                                               *)
(***************************************************************************)
Labels == {"start", "check", "poll", "dispatch", "drain", "user", "run",
           "stopped"}

\* Type correctness, with the two facts about doPendingFunctors() that the
\* shape of the state rests on: m_calling_pending_functors is set exactly
\* while it runs, and its vector is empty outside it.
TypeOK == /\ pc \in Labels
          /\ quit \in BOOLEAN
          /\ calling \in BOOLEAN
          /\ pending \in Seq(Tasks)
          /\ functors \in Seq(Tasks)
          /\ active \subseteq {"wakeup", "io"}
          /\ counter \in BOOLEAN
          /\ edge \in BOOLEAN
          /\ waking \subseteq Threads \cup {Owner}
          /\ submitted \subseteq Tasks
          /\ done \in Seq(Tasks)
          /\ pc = "run" => calling
          /\ calling => pc \in {"run", "user"}
          /\ functors # <<>> => calling

\* A wake-up is on its way: written and not yet consumed, or about to be
\* written by the thread that needs it.
Signal == WakeupReady \/ waking # {}

\* The owner never sleeps in epoll_wait on work nobody will wake it for: if
\* a functor is pending or quit() was called while it polls, the eventfd is
\* ready or a thread is about to write it (EventLoop.cpp:118-129,
\* EventLoop.h:44-49).
NoLostWakeup == pc = "poll" /\ (pending # <<>> \/ quit) => Signal

\* The same promise at every point after the swap, which makes it inductive:
\* what was pushed since m_pending_functors was taken has a wake-up to come.
WakeupPromise ==
    /\ pc \in {"start", "run", "check", "poll"} \/ calling
         => (pending # <<>> => Signal)
    /\ pc = "poll" => (quit => Signal)

\* No functor is run twice, whichever vector it passed through.
AtMostOnce == \A i, j \in 1..Len(done) : done[i] = done[j] => i = j

TQ == INSTANCE TaskQueue WITH queue    <- functors \o pending,
                              executed <- done,
                              known    <- submitted,
                              stopped  <- (pc = "stopped")

\* The loop implements TaskQueue: functors are run in the order they were
\* handed over, none is lost or repeated by the swap, and each is eventually
\* run while the loop is not stopped, without help from I/O or the timeout.
ImplementsTaskQueue == TQ!Spec
=============================================================================
