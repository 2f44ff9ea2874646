# wserver: a TLA+ model

wserver is a small HTTP server in C++: one loop per thread, edge-triggered
epoll, a pool of I/O threads, keep-alive timers and an asynchronous log.  This
directory models its control: which thread does what in which order, what it
hands to other threads, what the kernel tells it and when, and how objects,
descriptors, buffers and files live and die.

## 1. Inventory

| Part | State | Operations | Talks to |
|---|---|---|---|
| `EventLoop` | `m_quit`, `m_pending_functors` (mutex), `m_calling_pending_functors`, eventfd, `m_active_channels` | `loop`, `queueInLoop`, `runInLoop`, `quit`, `wakeup`, `handleRead`, `doPendingFunctors` | every thread pushes functors; the owner runs them |
| `EventLoopThread`, `Thread`, `CountDownLatch`, `EventLoopThreadPool` | `m_loop`, `m_tid`, latch, condition, `m_next` | `startLoop`, `threadFunc`, `runInThread`, destructor, `getNextLoop` | the thread that starts the pool; the loop it makes |
| `Channel`, `Epoll` | interest `m_events`, captured `m_revents`, `m_index`, `m_channels` (fd to channel), the kernel's interest and ready lists | `enableReading/Writing`, `disableAll`, `remove`, `updateChannel`, `removeChannel`, `poll`, `handleEvent` | calls back into the owner of the channel |
| `Acceptor`, `TcpServer` | listening socket, `m_connections` | accept loop, `newConnection`, `removeConnection(InLoop)` | main loop; pushes `connectEstablished` and `connectDestroyed` to I/O loops |
| `TcpConnection`, `Socket` | `m_state`, `m_alive`, `m_timeout`, buffers, channel, shared ownership | `connectEstablished/Destroyed`, `handleRead/Write/Close/Error`, `closeLongConnection` | its I/O loop; pushes its removal to the main loop |
| `TimerHeap`, `Timer` | binary heap of timers, one timerfd | `addTimer`, `pop`, percolation, `handleRead`, `handleTimeoutEvents` | its loop; its callbacks may add timers |
| `Buffer` | a vector, a read and a write index | `append`, `readFromFd`, `writeToFd`, `getAnHTTPLine`, `makeSpace`, `retrieveAll` | one for input and one for output in a connection |
| `HttpContext` | parser state, `m_new_line`, `m_uri`, `m_connection` | `work`, `reset`, the parse functions, `getHttpResponse` | inside a connection's handler |
| `AsyncLog`, `Logger` | current, next, full and spare buffers, `m_running`, `m_flush` | `append`, `flush`, `stop`, `threadFunc`, the FATAL path | all threads and one back end |
| `LogFile`, `FileUtil` | bytes, count, three times | `append`, `flush`, `rollFile` | the log's back end |
| `LogStream`, `Logging`, `timeUtils` | text | formatting | every thread |

What is hard here: a wake-up that must not get lost between a mutex and an
edge-triggered descriptor; a thread's start by two handshakes and its end that
nobody waits for; events reported once; a captured event mask used after a
handler changed the connection; removal that crosses three threads with raw and
shared pointers; descriptors the kernel reuses at once; one timerfd for many
timers, racing with data, and callbacks that change the heap they were taken
from; requests cut at any byte in a buffer that moves and grows; log buffers that
change hands under pressure, and the FATAL path; files rolled by size, by day and
by count at once.  `PROJECT.json` lists these as hazards, each at its line, with
the properties that would show it going wrong.

What makes the parts correct:

* `EventLoop`: a functor handed over is run once, in order, and soon; `quit()` works.
* `EventLoopThread`: `startLoop()` returns, with a loop that exists; whoever finds
  `m_loop` set finds the loop alive.
* `TcpServer` with `TcpConnection`: no use of a freed connection, one removal
  each, `m_channels` consistent with the kernel, the process does not kill
  itself, closed connections are freed, waiting ones are served, keep-alive
  ones end even if new ones keep coming, no input is overlooked.
* `TimerHeap`: each timer runs once, in order, not early, and not too late as far
  as one timerfd can see to that.
* `HttpContext` with `Buffer`: the answer follows from the bytes, wherever they
  were cut; the answers are sent once and in order; the handler returns.
* `AsyncLog`: entries reach the file, once and in order; FATAL entries too.
* `LogFile`: files are rolled and flushed within known bounds.

## 2. Modules

| Module | Models | Used by |
|---|---|---|
| `TaskQueue` | what `queueInLoop`/`runInLoop` promise: an abstract FIFO | refined by `EventLoop` and `EventLoopThread` |
| `EventLoop` | one loop, its owner and its callers, thread by thread | `EventLoopThread` |
| `EventLoopThread` | the loop composed with the thread that makes it, runs it and ends it, and with the thread that starts it | run `loop` |
| `TcpServer` | main loop, I/O loops, connections, channels, epoll, timers, peers | `MCTcpServer` (symmetry), five runs |
| `TimerHeap` | one loop's timers, heap and timerfd | run `timers` |
| `Buffer` | `Buffer` as operators on its value | `HttpContext` |
| `HttpContext` | the parser and its place in a connection's round, on two buffers | runs `http`, `http_incomplete` |
| `AsyncLog` | front-end threads and the back end | runs `log`, `log_fatal` |
| `LogFile` | rolling and flushing | run `logfile` |
| `TaskQueueProofs`, `EventLoopProofs`, `EventLoopThreadProofs`, `TcpServerProofs`, `TimerHeapProofs`, `HttpContextProofs` (with `Buffer`'s), `AsyncLogProofs`, `LogFileProofs` | theorems | TLAPS |

**EventLoop.**  The owner's program counter follows `loop()`: `check`, `poll`,
`dispatch`, `drain` (reading the eventfd), `run` (the functors), `user` (inside
a handler or a functor).  A caller's push and its write to the eventfd are two
steps (`QueueInLoop`, `Wakeup`; `waking` holds the threads in between), because
the mutex is released between them.  `m_quit` is a plain `bool` in the code; it
is read and written as one step.  `PollIO` may leave the ready wake-up channel
for a later call, as `m_events` holds 16 events at first.

**EventLoopThread.**  There are two initial states: the main loop, which `main()`
constructs itself, and a loop whose thread is still to be started.  `spc` follows
the starter through `Thread::start()`, the latch, the wait for `m_loop` and the
destructor; `cpc` follows the new thread through `runInThread()` and
`threadFunc()`, and while it is `"loop"` the actions of `EventLoop` run.  A waiting
thread sleeps until it is signalled or wakes up for no reason.  The second read of
`m_loop`, the store of NULL when `loop()` returns and the destructor's test are
outside the mutex in the code and steps of their own here.  A member call on a loop
that no longer exists is the outcome `"undefined"`; a caller's late write to the
eventfd comes to nothing (the descriptor is closed).  `EventLoopThreadPool::start()`
starts the threads one after the other; they share nothing, so one is modelled.

**TcpServer.**  A connection is a record: fields of `TcpConnection`,
`HttpContext` and `Buffer`, of its `Channel`, and of its socket in the kernel.  A
handler is an operator from record to record that makes the calls of the code in
their order, so that `HandleEvent` is the composition the code makes, and a
handler runs in one step: only the loop that owns a connection touches it, and
all it does to another thread is push one functor.  That a pushed functor is
taken in order is what `EventLoop` is proved to implement, so queues are plain
sequences here.  `lpc` follows each loop through poll, dispatch and functors.
Reading a socket, writing and the parser are abstracted to their results
(`ReadFromFd`, `WriteToFd`, `Work`) and outcomes (`Outcomes`): whether a request
was complete and asked to be kept, and whether the send buffer took all, a part or
nothing of the answer.  The external part is the kernel: readiness (`Mask`, after
`tcp_poll`), the edge-triggered ready list (`edge`, set by an arrival and by
`EPOLL_CTL_ADD`/`MOD`), the lowest free descriptor, the backlog, and peers that
connect, send, read, shut down and reset.  `Freed` stands for the destructor, which
runs where the last of the shared pointers (`Referenced`) goes.  What peers and
kernel may do beyond connecting, sending and reading is chosen by `Faults`
(`FaultKinds`); with `"again"` a peer whose connection is gone opens another one, as
often as it likes.  The step of
`removeChannel()` that is FATAL during event handling is left out:
`connectDestroyed()` is only ever queued.  The uninitialised address length that
`Socket::accept()` passes is the fault `"garbage"`: the kernel rejects it and the
errno is one that ends the process, as are ENFILE, ENOBUFS and ENOMEM (`"nomem"`);
ECONNABORTED, EINTR and EPROTO (`"abort"`) do not.  All keep-alive timers have the same delay, so
the heap is a queue in this module.

**TimerHeap.**  The heap is a sequence with its root at 1, and `PercolateUp`
and `PercolateDown` are the code's loops as recursive functions of a heap and an
index.  `AddTimer`
may happen wherever the loop's thread runs foreign code: in a handler, a functor
or a timer's callback, hence also between the timerfd's expiry, `handleRead()`,
`handleTimeoutEvents()` and `pop()`.  The clock counts half seconds, because the
heap goes by `::time()`, which cuts off the part of a second that the timerfd
does not.

**Buffer** and **HttpContext.**  A buffer is its two indices and its vector.  Bytes
outside the content are `Junk`, so that an index gone wrong shows up in what is
read.  `HttpContext` has two of them.  A line is a text of two symbols and `CR`,
`LF`: a good request line for a page there is or is not, a `Connection: Keep-Alive`
header, another `Connection` header, an empty line, and one with a stray `\r`; the
network cuts the lines at any symbol, a later delivery goes on in the cut line,
ends it, or begins others behind it, and a line without its first or second
symbol is a text the parser does not know.  One step is one turn of the parser's
loop.  A response has two symbols, of which the socket may take one.  The reference
for the answers is a reading of all the bytes of a round at once, by position:
`LineFeeds` are the places where lines end, `LineKind` says what stands in the line
that ends at one, `Reaches` whether a reader gets to it without an error, and
`Complete` and `Asks` follow from these.

**AsyncLog.**  Entries are taken from a finite set, a buffer holds `Capacity` of
them.  A critical section is one step; `m_running` and `m_flush`, which the code
accesses without the mutex, are read and written in steps of their own.
`waitForSeconds()` may end at any time.  `fate` records how the process ended.

**LogFile.**  A file is its size and the second it was opened in.  `append()` reads
the clock twice, for the check and in `rollFile()`, and the clock may go on in
between.  A failing `fwrite()` counts nothing.  `late` and `waiting` are histories:
messages in the file after its day has ended, and messages appended since a flush
was due.

## 3. Runs

`logfile` checks for deadlock.  The other runs use `CHECK_DEADLOCK FALSE`: peers may
stop sending, threads may stop logging, a loop ends, and the bounds on functors,
connections, timers and entries run out.

| Run | Instance | Checks |
|---|---|---|
| `loop` | 3 functors, 2 foreign threads and the owner; the main loop or a started thread | `TypesOK`, `WakeupPromise`, `PublishedIsAlive`, `StartReturnsLoop`, `ImplementsTaskQueue` (with liveness), `DestructorMeetsLoop`, `StartReturns`, `QuitEnds` |
| `server_pool` | 3 connections, 2 I/O loops, 1 delivery each, shutdowns, MAXFD below the last descriptor | `TypeOK`, `NoFatal`, `NoDangling`, `ChannelsConsistent`, `TimeoutAfterData` |
| `server_faults` | 1 connection, 3 deliveries, shutdowns, resets, full send buffer, every error of `accept()` | `OnlyPeersKill`, `RemovedOnce`, `OneTimerEach`, `DataIsWatched`, `HangsOnlyOnResidue`, `ClosedIsFreed` |
| `server_live` | 2 peers that connect again for ever, 1 I/O loop, 2 descriptors | `KeepAliveEnds`, `BacklogIsServed` |
| `timers` | 4 timers of 0, 1 or 2 seconds, a clock of 3 seconds | `TypeOK`, `EachRunsOnce`, `RunInOrder`, `NeverASecondEarly`, `CoveredRuns` |
| `http` | up to 3 lines, cut anywhere, then 2 deliveries that go on in the cut line, end it, or end it and begin one more line; vectors of 6 bytes, reads of 4; answers that may not be sendable | `TypeOK`, `ResponseMatches`, `AnswersInOrder`, `KeptOnRequest`, `RoundEnds` |
| `log` | 2 threads, 4 entries (1 FATAL), buffers of one entry, `stop()` | `TypeOK`, `InOrder`, `RecycleSafe`, `BufferCount`, `EntryIsWritten` |
| `logfile` | messages of 0, 1, 3 and 5 bytes, roll size 4, check every 3, days of 4 seconds, 10 seconds, failing writes | `TypeOK`, `SizeBound`, `DayBound`, `FlushBound` |

Why the bounds suffice.

* `loop`: two foreign threads and three functors let a push fall before, between
  and after the owner's swap while another wake-up is under way; one of the threads
  also starts the loop and destroys it, the other one may have it quit meanwhile.
* `server_*`: two connections are enough for a descriptor to be reused while the
  old connection's removal is still in a queue, and for two timers to share a
  timerfd; the third of `server_pool` gets the descriptor above MAXFD while the
  others close on their loops, by their requests' ends, by shutdowns and by timers
  that race with these; the deliveries of `server_faults` reach a request
  after one whose answer was stuck.  `server_live` does not bound how often a peer
  connects, so timers are added without end.  `Pieces = 2` is
  the least number of writes at which an answer can be sent in part.  Symmetry
  over connections is used only in runs without liveness properties.
* `timers`: four timers are a heap with a grandchild and a node with two children, in
  every order of expiry; three delays give shorter, equal and longer ones than those
  waiting, and the clock lets two timers in a row expire.
* `http`: three lines are the shortest request that asks to be kept (request line,
  header, empty line), and the second round meets every state the first one can
  leave the parser and the buffers in, also when the answer could not be sent; the
  third lets a line be cut in three.
  Nearly every delivery outgrows the vector of 6 bytes; a half-read request makes
  it move its content, and an unsent answer makes the output buffer grow.
* `log`: buffers of one entry make every append meet a full buffer; `MaxBuffers = 2`
  instead of 20 changes nothing, since more than two buffers are never taken
  (proved, see below).
* `logfile`: the sizes are nothing, below, just below and above the roll size; the
  clock passes the end of a day twice.

`NoLostWakeup` and `AtMostOnce` are proved (section 4) and have no place in a run:
TLC checks the stronger `WakeupPromise` and `ImplementsTaskQueue`.

### Where the code does not do what it says

Four runs expect a violation; each is a finding in `PROJECT.json` with the line
quoted.

| Run | What TLC shows |
|---|---|
| `server_reset` | A reset is reported as `EPOLLIN` with `EPOLLERR`: `handleError()` closes the connection, `handleRead()` closes it again, and that is FATAL. |
| `server_backlog` | `accept()` fails for want of a descriptor; the edge is used up, and the waiting connection stays in the backlog after one is free. |
| `http_incomplete` | A request of which only a part has arrived is answered with 400, because `work()` goes on to `getHttpResponse()` whatever the parser returned, while `HttpContext.h:12` says of `NO_REQUEST` "please read more request data". |
| `log_fatal` | `m_flush` is set after the back end took its buffers, so it ends without the FATAL entry; or it signals before the thread waits, and the process never ends. |

`server_pool`, which checks `NoFatal`, therefore leaves out resets and the errors of
`accept()`; `server_faults` has them, checks what holds up to the moment the process
dies, and that nothing else kills it (`OnlyPeersKill`).  `ResponseMatches` leaves open
what an incomplete request is answered: it demands that it does not get a page and
that an error does get 400.

More of what the code does follows from the models; the properties are stated so as
to say exactly how far it goes.

* The first write of an answer that finds no room is treated as the peer's close
  (`TcpConnection.cpp:118`, although the comment at `:125` speaks of a full buffer).
  A kept connection then stays open with the answer unsent and nobody waiting for
  room, and its parser stays in `CHECK_STATE_END`, where the next complete line
  holds the I/O thread for ever.  `HangsOnlyOnResidue` shows that nothing else does,
  and `RoundEnds` is stated up to this case.
* Two buffers that fill within one turn of the back end leave `m_cur_buffer` null
  for the next `append()` (`AsyncLog.cpp:39-40`).  `BufferCount` shows that this is
  the only way to a null buffer.
* `stop()` clears `m_running` first, so that the back end leaves with entries in
  the buffers, while `AsyncLog.h:27` announces that it writes "all data left in
  buffers"; `EntryIsWritten` is therefore stated while `m_running` holds.
* `loop()` clears `m_quit`, so a `quit()` that comes before it, such as the
  destructor's of an `EventLoopThread` just started, is forgotten; `QuitEnds` is
  stated from the entry of `loop()` on.
* If another thread had the loop quit, its thread may end between the destructor's
  test of `m_loop` and its call of `quit()`; `DestructorMeetsLoop` shows that this is
  the only way to a call on a loop that is gone.
* A timer added while a longer one is waiting sets the one timerfd to the shorter
  time, and nothing sets it for the longer one again; a delay of zero disarms it.
  `CoveredRuns` says for which timers the timerfd is good.
* Each new timer sets the timerfd anew, also if all have the same delay
  (`TimerHeap.cpp:93`), so timers that are added before the last expiry, again and
  again, put off all that wait.  For users of `runAfter()` in general nothing ends
  this: timers added for ever keep the waiting ones waiting for ever, and
  `CoveredRuns` promises a run only when the additions end.  In the server they
  are put off too, but not for ever: only keep-alive connections add timers,
  `handleClose()` leaves these alone until their timer has run
  (`TcpConnection.cpp:145`), and so each new one takes a descriptor that none gives
  back before the timerfd expires.  `KeepAliveEnds` is checked with peers that
  connect for ever.  What it does not say is how late: against the "will be
  alive(seconds)" of `TimerHeap.cpp:8`, a connection may be kept for up to 300 seconds
  times the number of descriptors.

### Fairness

* `EventLoop`, `EventLoopThread`: a runnable thread runs on and handlers return
  (weak fairness of the starter, the new thread, the owner's steps and the
  callers' wake-ups).  Nothing relies on input, on spurious wake-ups or on the 30 s
  timeout of `epoll_wait`, and nobody has to call the destructor.  The kernel's
  ready list is FIFO, so a ready wake-up channel is not passed over for ever:
  strong fairness of `PollWake`.
* `TcpServer`: each loop's thread and the clock go on, and a peer that stays
  connected reads what it is sent.  Peers need not connect, send or close.
* `TimerHeap`: the loop's thread and the clock go on.
* `HttpContext`: the thread in a handler goes on, and a peer with an answer half
  sent reads on.
* `AsyncLog`: the back end is scheduled, and a thread that logged a FATAL entry
  goes on to flush and abort.

## 4. Proofs

TLAPS checks, for every value of the constants:

* `EventLoopProofs` for a loop by itself, and `EventLoopThreadProofs` for a loop
  composed with its thread and its starter:
  * `TypeCorrect`: `Spec => []TypeOK`, with the two facts on `doPendingFunctors()`
    in `TypeOK` that make it inductive.
  * `WakeupNeverLost`, `ThreadWakeupNeverLost`: `[](WakeupPromise /\ NoLostWakeup)`.
    `NoLostWakeup` speaks of the owner in `epoll_wait` and is not inductive;
    `WakeupPromise` says the same of every point since the last swap and, with
    `TypeOK`, is.  The step that matters is `PollWake`/`HandleRead`: they consume
    the signal, but lead to the swap before the next poll.
  * `RefinesTaskQueue`, `ThreadRefinesTaskQueue`: the safety part of `TaskQueue`
    under the mapping that appends `pending` to what is left of `functors`.  The
    swap is a stutter because `functors` is empty when it happens.
  * `TaskQueueProofs!RunOnce`, `EachRunOnce`, `ThreadRunsOnce`: no functor runs
    twice; shown of the abstract queue and carried over by the refinement.
  * `LoopIsAlive`, `StartIsSafe`, `DestructorIsSafe`: `PublishedIsAlive`,
    `StartReturnsLoop` and `DestructorMeetsLoop`.  The inductive invariant adds
    `Handshake`, which ties the two program counters to the latch's count, the tid
    and `m_loop`, and `Culprit`: a loop that stopped was told to by the destructor,
    which is then over, or by someone else.
* `TcpServerProofs`, for any number of connections, loops, descriptors and
  deliveries and any set of faults:
  * `ServerIsConsistent`: `Spec => []Inv`.  `ConnOK` says which channel, interest and
    kernel state each stage of a connection's life goes with; `FdsOK` that no two
    live connections share a descriptor; `ChannelsOK` that `m_channels` holds a
    connection from `connectEstablished` to `connectDestroyed` and then no
    longer; `MapOK` the same of `m_connections`; `FunctorsOK` that one queued functor,
    and only one, names a connection that waits to be established or removed, and
    that it waits in the right loop; `TimersOK` the same of timers; `ActiveOK` that a
    captured event mask belongs to a connection that is still open when it is
    handled; `LoopsOK` and `HungOK` tie these to the loops' program counters,
    and `BacklogOK` that a connection waits once.  The parts need each other: a removal
    queued twice, say, would clear the entry of the next owner of the descriptor.
  * `TypeCorrect`, `NothingDangles`, `EachIsRemovedOnce`, `EachHasOneTimer`,
    `ChannelsAgree`, `NoDataIsMissed`, `OnlyResidueHangs`: `TypeOK`, `NoDangling`,
    `RemovedOnce`, `OneTimerEach`, `ChannelsConsistent`, `DataIsWatched` and
    `HangsOnlyOnResidue` follow from `Inv`.
  * `TimeoutsComeLast`: the action property `TimeoutAfterData`.
  * `NeverFatal`: `[]NoFatal` when neither resets nor the garbage length nor ENFILE,
    ENOBUFS, ENOMEM are among the faults, and `NeverItsOwnFault`, `[]OnlyPeersKill`:
    whatever the faults, only SIGPIPE or the second close of a connection that its
    peer has reset, and the fatal errors of `accept()`, end the process.  Full send
    buffers and shutdowns are harmless to it.
  * Underneath are lemmas on the handlers as operators from record to record
    (what each keeps, `HandleEvent` as their composition), on queues, and one lemma
    per action and part of the invariant.
* `TimerHeapProofs`, for any delays and any number of timers: `TypeCorrect`,
  `TimersRunOnce`, `TimersRunInOrder` and the action property `TimersAreNotEarly`
  (`TypeOK`, `EachRunsOnce`, `RunInOrder`, `NeverASecondEarly`).  The percolations are
  recursive functions; `TailRecursion` shows of such a loop that it ends and what it
  returns, `TailInvariant` that it keeps an invariant.  With the order of a heap but
  for one place as invariant, `UpOrders` and `DownOrders` show that both restore it,
  `PushOrders` and `PopOrders` that `push()` and `pop()` keep the heap and its
  timers, `RootIsLeast` that the root expires first.  The inductive invariant adds
  that timers that ran expire no later than any that waits (`Past`) and that the one
  whose callback runs is still the root (`Running`), which is why `pop()` after the
  callback removes the right one.
* `HttpContextProofs`, for vectors and reads of any size and any number of rounds:
  * `AppendAppends`, `ReadAppends`, `WriteTakesFront`: `append()` and `readFromFd()` add
    their bytes behind the content, however often the vector moves and grows, and
    `writeToFd()` takes what was sent from its front; all keep the indices in order.
  * `AnswersKeepOrder`: `Spec => []AnswersInOrder`, from the first and the third and
    the invariant that the output buffer is well formed.
  * `TypeCorrect`, `AnswersMatch`, `KeptWhenAsked`: `TypeOK`, `ResponseMatches`,
    `KeptOnRequest`.  The inductive invariant says of the handler at work that there
    is a position `q` in the bytes of the round at which a line ends, such that the
    lines up to `q` have been read without error and without an empty one
    (`Parsed`) and the content of the buffer is what is behind `q`; within the loop,
    that `m_new_line` is the line behind `q` and the content what is behind that
    (`InHand`); at the response, that parser and reading agree (`Settled`).  `Keeping`
    ties the wish for a kept connection to `m_alive`.
* `AsyncLogProofs`, for any threads, entries and capacities:
  * `BuffersAccounted`, `RecyclingIsSafe`: `BufferCount` and `RecycleSafe`.  The full
    buffers and `m_next_buffer` are one together, or two when `m_cur_buffer` is null,
    and what the back end took and its second spare are two together; hence a spare
    always finds a buffer, and the branch that drops buffers beyond 20 is
    unreachable.
  * `EntriesKeepOrder`, `TypeCorrect`: `InOrder` and `TypeOK`, which need these counts
    (otherwise entries could go with a dropped buffer) and lemmas on flattening the
    at most two buffers that are full or taken.
* `LogFileProofs`: `TypeCorrect`, `FilesAreRolled`, `DaysAreNoticed`,
  `FlushesAreNoticed` (`TypeOK`, `SizeBound`, `DayBound`, `FlushBound`).  The last two are
  bounded by `m_cnt`, which is not reset by a roll for size; the inductive invariant
  says that `late` and `waiting` are at most `cnt`.

The assumptions are `OwnerAssumption` (the owner is not one of the other threads),
`StarterAssumption` (the starter is), and `ServerAssumption`, `TimerAssumption`,
`BufferAssumption`, `HttpAssumption`, `LogAssumption` and `LogFileAssumption` (sizes and
bounds are numbers, positive where the code's are; no connection is the value that
stands for none), evaluated by TLC on every run of these modules.

The induction theorems of the proof library take an operator as a parameter, which
the provers cannot instantiate.  Where a proof needs induction (over the
positions of a content, the turns of a percolation) it is had from the
well-foundedness of `<` on the naturals instead: a non-empty set of numbers, of
counterexamples say, has a least element (`Least`).

Only model-checked: every liveness property (`ImplementsTaskQueue` includes
liveness, of which the proof covers the safety part; `StartReturns`, `QuitEnds`,
`ClosedIsFreed`, `KeepAliveEnds`, `BacklogIsServed`, `CoveredRuns`, `RoundEnds`,
`EntryIsWritten`), because liveness under fairness is outside what the prover
handles.  Every safety invariant and action property of the passing runs is proved.

## 5. Not modelled

* Formatting: `LogStream`, `Logging` beyond the FATAL path, `timeUtils`.
* `main()`, which is the initial state; tests, the client and webbench.
* Failures the code does not handle or ends the process for: `fopen()`,
  `pthread_create()`, `epoll_ctl()`.
* What nobody calls: `shutdown()`, `~TcpServer()` and the pool's destructor (the
  main loop never returns), `clearUselessData()`, `reserve()`, `setContent()`,
  `disableReading()`, `disableWriting()`.
* The undefined `pthread_cond_wait()` on a mutex that is not held is taken as a
  wait.  Clocks are not set back, and the realtime clock is taken to agree with the
  monotonic one.
* The memory of an `EventLoopThread` after its destructor, which its detached thread
  may still write to.  The server destroys none; `test/TimerHeap_test.cpp:43-48` does,
  as its `main()` ends.

## 6. Plan

1. An abstract specification of a connection's life, refined by `TcpServer`: its
   stages are already the cases of `ConnOK`.
2. `LogFile` composed with `AsyncLog`: which entries a crash of the process leaves in
   the file.
3. `LogStream`: the conversion of numbers against a reference.
