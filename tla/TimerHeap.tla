----------------------------- MODULE TimerHeap -----------------------------
(***************************************************************************)
(* The timers of one loop: a binary heap ordered by expiry and one timerfd  *)
(* for all of them.  Everything happens in the loop's thread: handlers and  *)
(* functors add timers, the timerfd's handler queues handleTimeoutEvents(), *)
(* which runs what is due, and the callbacks it runs may add timers again.  *)
(*                                                                          *)
(* The clock counts half seconds, so that ::time(), which the heap goes by, *)
(* is behind the timerfd's clock by a part of a second.  The two clocks are *)
(* taken to agree otherwise, and not to be set back.                        *)
(***************************************************************************)
EXTENDS Naturals, Sequences, SequencesExt

CONSTANTS Delays,     \* the delays, in seconds, that callers ask for
          MaxTimers,  \* bound: timers ever added
          MaxClock    \* bound: the clock

ASSUME TimerAssumption == /\ Delays \subseteq Nat
                          /\ MaxTimers \in Nat /\ MaxClock \in Nat \ {0}

VARIABLES
  heap,   \* m_min_heap; the root is heap[1], its children heap[2] and heap[3]
  armed,  \* when the timerfd expires, 0 when it is disarmed
  fired,  \* it has expired and was not read
  pc,     \* where the loop's thread is
  now,    \* the local variable of handleTimeoutEvents()
  clock,
  last,   \* history: the timer added last
  ran     \* history: the timers that were run, in order

vars == <<heap, armed, fired, pc, now, clock, last, ran>>

\* ::time() at clock c
Seconds(c) == c \div 2

\* Timer: m_expire_time, and as history its number and what was asked for
Timer(i, delay) == [id |-> i, expire |-> Seconds(clock) + delay,
                    added |-> clock, delay |-> delay]

NoTimer == [id |-> 0, expire |-> 0, added |-> 0, delay |-> 0]

Init == /\ heap = <<>>
        /\ armed = 0 /\ fired = FALSE
        /\ pc = "loop"
        /\ now = 0
        /\ clock = 1
        /\ last = NoTimer
        /\ ran = <<>>

(***************************************************************************)
(* The heap                                                                 *)
(***************************************************************************)
\* Timer::less()
Less(h, i, j) == h[i].expire < h[j].expire

Swap(h, i, j) == [h EXCEPT ![i] = h[j], ![j] = h[i]]

\* Where a percolation can be: a heap of the same timers, and an index
Places(heap0) == [h : [DOMAIN heap0 -> Range(heap0)], i : DOMAIN heap0]

\* The place that a swap with the timer at index j leads to
Moved(s, j) == [h |-> Swap(s.h, s.i, j), i |-> j]

\* Mutant: a timer also passes its equals.
PercolateUpEquals(heap0, index) ==
  LET up[s \in Places(heap0)] ==
        IF s.i > 1 /\ ~Less(s.h, s.i \div 2, s.i) THEN up[Moved(s, s.i \div 2)]
                                                   ELSE s.h
  IN  up[[h |-> heap0, i |-> index]]

PercolateUp(heap0, index) ==
  LET up[s \in Places(heap0)] ==
        IF s.i > 1 /\ Less(s.h, s.i, s.i \div 2) THEN up[Moved(s, s.i \div 2)]
                                                  ELSE s.h
  IN  up[[h |-> heap0, i |-> index]]

\* Mutant: the right child is compared with the parent, not with the left one.
SmallestLeft(s) ==
  LET child(k) == k <= Len(s.h) /\ Less(s.h, k, s.i)
  IN  IF child(2 * s.i + 1) THEN 2 * s.i + 1
      ELSE IF child(2 * s.i) THEN 2 * s.i ELSE s.i

\* What percolateDown() calls next: a timer sinks towards the smaller child, the
\* left one among equals.
Smallest(s) ==
  LET left == IF 2 * s.i <= Len(s.h) /\ Less(s.h, 2 * s.i, s.i)
              THEN 2 * s.i ELSE s.i
  IN  IF 2 * s.i + 1 <= Len(s.h) /\ Less(s.h, 2 * s.i + 1, left)
      THEN 2 * s.i + 1 ELSE left

PercolateDown(heap0, index) ==
  LET down[s \in Places(heap0)] ==
        IF Smallest(s) # s.i THEN down[Moved(s, Smallest(s))] ELSE s.h
  IN  IF index > Len(heap0) THEN heap0 ELSE down[[h |-> heap0, i |-> index]]

\* pop(): the last timer takes the root's place and sinks.
Pop(h) == PercolateDown(Front(Swap(h, 1, Len(h))), 1)

(***************************************************************************)
(* The loop's thread                                                        *)
(***************************************************************************)
\* Mutant: an expiry that was not read stays.
SetTimerKeeps(delay) == /\ armed' = IF delay = 0 THEN 0 ELSE clock + 2 * delay
                        /\ UNCHANGED fired

\* setTimer(): timerfd_settime() forgets an expiry that was not read, and a
\* delay of zero disarms the timer.
SetTimer(delay) == /\ armed' = IF delay = 0 THEN 0 ELSE clock + 2 * delay
                   /\ fired' = FALSE

\* addTimerInLoop(), from a handler, a functor or a timer's callback
AddTimer(delay) ==
  /\ pc # "expire"
  /\ last.id < MaxTimers
  /\ clock + 2 * delay <= MaxClock
  /\ last' = Timer(last.id + 1, delay)
  /\ SetTimer(delay)
  /\ heap' = PercolateUp(Append(heap, last'), Len(heap) + 1)
  /\ UNCHANGED <<pc, now, clock, ran>>

\* epoll_wait() returns the timer's channel; other handlers may come first.
Poll ==
  /\ pc = "loop" /\ fired
  /\ pc' = "polled"
  /\ UNCHANGED <<heap, armed, fired, now, clock, last, ran>>

\* handleRead(): the timerfd is read, which may find nothing when it was set
\* again meanwhile, and handleTimeoutEvents() is queued behind the handlers
\* and functors that are still to come.
HandleRead ==
  /\ pc = "polled"
  /\ fired' = FALSE
  /\ pc' = "queued"
  /\ UNCHANGED <<heap, armed, now, clock, last, ran>>

\* handleTimeoutEvents() looks at the time once.
HandleTimeoutEvents ==
  /\ pc = "queued"
  /\ now' = Seconds(clock)
  /\ pc' = "expire"
  /\ UNCHANGED <<heap, armed, fired, clock, last, ran>>

\* Mutant: a timer is due in the second after its expiry.
DueLate == heap # <<>> /\ heap[1].expire < now

\* the condition of the while loop
Due == heap # <<>> /\ heap[1].expire <= now

\* Mutant: whatever is first is run.
RunFirst ==
  /\ pc = "expire" /\ heap # <<>>
  /\ ran' = Append(ran, heap[1])
  /\ pc' = "callback"
  /\ UNCHANGED <<heap, armed, fired, now, clock, last>>

\* handleTimeoutEvent() of the first timer: its callback begins ...
RunTimer ==
  /\ pc = "expire" /\ Due
  /\ ran' = Append(ran, heap[1])
  /\ pc' = "callback"
  /\ UNCHANGED <<heap, armed, fired, now, clock, last>>

\* ... and returns; pop() removes what is then at the root.
PopTimer ==
  /\ pc = "callback"
  /\ heap' = Pop(heap)
  /\ pc' = "expire"
  /\ UNCHANGED <<armed, fired, now, clock, last, ran>>

\* Nothing more is due.  The timerfd is not set again for what remains.
Finish ==
  /\ pc = "expire" /\ ~Due
  /\ pc' = "loop"
  /\ UNCHANGED <<heap, armed, fired, now, clock, last, ran>>

Tick ==
  /\ clock < MaxClock
  /\ clock' = clock + 1
  /\ fired' = (fired \/ armed = clock + 1)
  /\ armed' = IF armed = clock + 1 THEN 0 ELSE armed
  /\ UNCHANGED <<heap, pc, now, last, ran>>

LoopStep == Poll \/ HandleRead \/ HandleTimeoutEvents \/ RunTimer \/ PopTimer \/ Finish

Next == (\E delay \in Delays : AddTimer(delay)) \/ LoopStep \/ Tick

\* The loop's thread and the clock go on.
Spec == Init /\ [][Next]_vars /\ WF_vars(LoopStep) /\ WF_vars(Tick)

(***************************************************************************)
(* Properties                                                               *)
(***************************************************************************)
\* Type correctness; the timerfd is not both armed and expired.
TypeOK ==
  /\ \A i \in DOMAIN heap : heap[i].id \in 1..MaxTimers
  /\ armed \in 0..MaxClock /\ (armed # 0 => armed > clock)
  /\ fired \in BOOLEAN /\ (fired => armed = 0)
  /\ pc \in {"loop", "polled", "queued", "expire", "callback"}
  /\ now \in 0..Seconds(clock) /\ clock \in 1..MaxClock
  /\ last.id \in 0..MaxTimers

\* Each timer added is either in the heap or has run, once; the one whose
\* callback is running is both.  So pop() removes the timer that ran, although
\* its callback may have added others (TimerHeap.cpp:117-122).
EachRunsOnce ==
  LET ids(s) == {s[i].id : i \in DOMAIN s} IN
  /\ Len(ran) + Len(heap) = last.id + (IF pc = "callback" THEN 1 ELSE 0)
  /\ ids(ran) \cup ids(heap) = 1..last.id
  /\ pc = "callback" => Last(ran) = heap[1]

\* Timers run in the order of their expiry, whatever the order and the times
\* at which they were added.
RunInOrder == \A i \in 2..Len(ran) : ran[i - 1].expire <= ran[i].expire

\* ::time() cuts off part of a second, and one timer's expiry may run
\* another: still no timer runs a full second early (Timer.h:12, TimerHeap.cpp:118).
NeverASecondEarly ==
  [][ran' # ran => clock + 1 >= heap[1].added + 2 * heap[1].delay]_vars

\* Timer i waits, and the timerfd is still good for it: it was set last for a
\* timer that expires no earlier, and not disarmed by a delay of zero.
Covered(i) == /\ last.delay > 0
              /\ \E k \in DOMAIN heap : /\ heap[k].id = i
                                       /\ heap[k].expire <= last.expire

\* What the one timerfd guarantees (TimerHeap.cpp:93): a timer that it is good for
\* does not wait for ever unless another one is added.  That each addition
\* sets the timerfd anew puts off all who wait: additions that go on for
\* ever, each before the last expiry, keep them waiting for ever.  So this says
\* nothing of how long a timer waits while timers are added, only that it is run
\* once this ends; k is the number of the last.
CoveredRuns ==
  \A i, k \in 1..MaxTimers : []<>~(Covered(i) /\ last.id = k)
=============================================================================
