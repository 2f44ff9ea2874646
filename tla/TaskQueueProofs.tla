-------------------------- MODULE TaskQueueProofs --------------------------
(***************************************************************************)
(* TaskQueue runs no functor twice.  EventLoopProofs carries the result to  *)
(* EventLoop through the refinement.                                        *)
(***************************************************************************)
EXTENDS TaskQueue, Naturals, TLAPS

Distinct(s) == \A i, j \in 1..Len(s) : s[i] = s[j] => i = j

Once == /\ queue \in Seq(Tasks)
        /\ executed \in Seq(Tasks)
        /\ Distinct(queue)
        /\ Distinct(executed)
        /\ \A i \in 1..Len(queue) : queue[i] \in known
        /\ \A i \in 1..Len(executed) : executed[i] \in known
        /\ \A i \in 1..Len(queue), j \in 1..Len(executed) : queue[i] # executed[j]

LEMMA AppendDistinct ==
  ASSUME NEW S, NEW s \in Seq(S), NEW x \in S, Distinct(s),
         \A i \in 1..Len(s) : s[i] # x
  PROVE  Distinct(Append(s, x))
BY DEF Distinct

LEMMA TailDistinct ==
  ASSUME NEW S, NEW s \in Seq(S), s # <<>>, Distinct(s)
  PROVE  /\ Distinct(Tail(s))
         /\ \A i \in 1..Len(Tail(s)) : Tail(s)[i] # Head(s)
BY DEF Distinct

LEMMA StepOnce == Once /\ [Next]_vars => Once'
<1> SUFFICES ASSUME Once, [Next]_vars PROVE Once'
    OBVIOUS
<1>1. ASSUME NEW task \in Tasks, Submit(task) PROVE Once'
  <2>1. Distinct(queue') /\ queue' \in Seq(Tasks)
    BY <1>1, AppendDistinct DEF Once, Submit
  <2> QED
    BY <1>1, <2>1 DEF Once, Submit
<1>2. ASSUME NEW task \in Tasks, RunNow(task) PROVE Once'
  <2>1. Distinct(executed') /\ executed' \in Seq(Tasks)
    BY <1>2, AppendDistinct DEF Once, RunNow
  <2> QED
    BY <1>2, <2>1 DEF Once, RunNow
<1>3. CASE Execute
  <2>1. Distinct(executed') /\ executed' \in Seq(Tasks)
    <3>1. \A i \in 1..Len(executed) : executed[i] # Head(queue)
      BY <1>3 DEF Once, Execute
    <3> QED
      BY <1>3, <3>1, AppendDistinct DEF Once, Execute
  <2>2. /\ Distinct(queue') /\ queue' \in Seq(Tasks)
        /\ \A i \in 1..Len(queue') : queue'[i] # Head(queue)
    BY <1>3, TailDistinct DEF Once, Execute
  <2>3. \A i \in 1..Len(queue') : i+1 \in 1..Len(queue) /\ queue'[i] = queue[i+1]
    BY <1>3 DEF Once, Execute
  <2>4. \A i \in 1..Len(executed') : executed'[i] \in known
    BY <1>3 DEF Once, Execute
  <2>5. \A i \in 1..Len(queue'), j \in 1..Len(executed') : queue'[i] # executed'[j]
    BY <1>3, <2>2, <2>3 DEF Once, Execute
  <2>6. known' = known
    BY <1>3 DEF Execute
  <2> QED
    BY <2>1, <2>2, <2>3, <2>4, <2>5, <2>6 DEF Once
<1>4. CASE Stop BY <1>4 DEF Once, Stop
<1>5. CASE UNCHANGED vars BY <1>5 DEF Once, vars
<1> QED
    BY <1>1, <1>2, <1>3, <1>4, <1>5 DEF Next

\* A functor that was run is never run again (EventLoop.cpp:147-159).
THEOREM RunOnce == SafeSpec => []Distinct(executed)
<1>1. Init => Once
    BY DEF Init, Once, Distinct
<1>2. Once => Distinct(executed)
    BY DEF Once
<1> QED
    BY <1>1, <1>2, StepOnce, PTL DEF SafeSpec
=============================================================================
