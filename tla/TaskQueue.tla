----------------------------- MODULE TaskQueue -----------------------------
(***************************************************************************)
(* What EventLoop::queueInLoop() and EventLoop::runInLoop() promise to      *)
(* their callers, without threads, swaps or wake-ups: functors handed over  *)
(* are run once each, in the order they were handed over, and are all run   *)
(* as long as the loop has not been told to quit.  A functor submitted from *)
(* the loop's own thread with runInLoop() is run at once, ahead of the      *)
(* queue.                                                                   *)
(***************************************************************************)
EXTENDS Sequences

CONSTANT Tasks      \* the functors; every submission is a different one

VARIABLES queue,    \* handed over and not run yet, oldest first
          executed, \* run so far, in the order they were run
          known,    \* every functor that was ever handed over
          stopped   \* the loop has returned

vars == <<queue, executed, known, stopped>>

Init == /\ queue = <<>>
        /\ executed = <<>>
        /\ known = {}
        /\ stopped = FALSE

\* queueInLoop(), or runInLoop() from another thread
Submit(task) == /\ task \notin known
                /\ known' = known \cup {task}
                /\ queue' = Append(queue, task)
                /\ UNCHANGED <<executed, stopped>>

\* runInLoop() from the loop's own thread
RunNow(task) == /\ task \notin known
                /\ known' = known \cup {task}
                /\ executed' = Append(executed, task)
                /\ UNCHANGED <<queue, stopped>>

\* the loop runs the oldest functor
Execute == /\ ~stopped
           /\ queue # <<>>
           /\ executed' = Append(executed, Head(queue))
           /\ queue' = Tail(queue)
           /\ UNCHANGED <<known, stopped>>

\* the loop returns; what is still queued is never run
Stop == /\ ~stopped
        /\ stopped' = TRUE
        /\ UNCHANGED <<queue, executed, known>>

Next == \/ \E task \in Tasks : Submit(task) \/ RunNow(task)
        \/ Execute
        \/ Stop

SafeSpec == Init /\ [][Next]_vars

\* Every functor that stays queued is run, unless the loop returns.
Spec == SafeSpec /\ WF_vars(Execute)
=============================================================================
