----------------------------- MODULE TcpServer -----------------------------
(***************************************************************************)
(* The server: Acceptor and TcpServer on the main loop, TcpConnections,     *)
(* their Channels and TimerHeaps on a pool of I/O loops, and the kernel's   *)
(* sockets and edge-triggered epolls as the code uses them.                 *)
(*                                                                          *)
(* A handler runs to its end in one step: only the loop that owns a         *)
(* connection touches it, and all a handler does to another thread is push  *)
(* one functor.  Loops hand functors to each other through FIFO queues,     *)
(* which is what EventLoop is proved to implement (TaskQueue).  Handlers    *)
(* are written as operators from a connection record to the record they     *)
(* leave, in the order in which the code makes its calls.                   *)
(***************************************************************************)
EXTENDS Naturals, Sequences, FiniteSets, SequencesExt

CONSTANTS Conns,     \* peers, each with one connection at a time
          NoConn,    \* an empty slot of Epoll::m_channels
          NLoops,    \* m_thread_nums of EventLoopThreadPool
          NFds,      \* descriptors the process may open for connections
          MaxFd,     \* Acceptor::MAXFD
          MaxSends,  \* bound: deliveries of data per connection
          Faults     \* what peers and kernel may do: see FaultKinds

\* "fin": a peer shuts down its side.  "rst": a peer resets the connection.
\* "full": a peer does not read, so that a send buffer fills.  "abort":
\* accept() fails with ECONNABORTED, EINTR or EPROTO.  "garbage": the address
\* length accept() is given, which is not initialised, is one the kernel
\* rejects (Socket.cpp:67).  "nomem": accept() fails with ENFILE, ENOBUFS or
\* ENOMEM.  "again": a peer whose connection is gone opens another one, as often
\* as it likes.
FaultKinds == {"fin", "rst", "full", "abort", "garbage", "nomem", "again"}

ASSUME ServerAssumption == /\ NoConn \notin Conns
                           /\ NLoops \in Nat \ {0}
                           /\ NFds \in Nat \ {0}
                           /\ MaxFd \in Nat
                           /\ MaxSends \in Nat
                           /\ Faults \subseteq FaultKinds

Main    == 0
IoLoops == 1..NLoops
Loops   == {Main} \cup IoLoops
Fds     == 1..NFds

VARIABLES
  conn,        \* Conns -> the TcpConnection, its Channel and its socket
  connections, \* TcpServer::m_connections
  nextLoop,    \* EventLoopThreadPool::m_next
  backlog,     \* connections the kernel completed and accept() has not taken
  listenEdge,  \* the listening socket is on the main epoll's ready list
  channels,    \* loop -> Epoll::m_channels of its connections
  active,      \* loop -> connections of m_active_channels not yet handled
  accepting,   \* Acceptor::handleRead() is in its accept loop, or due
  timers,      \* loop -> TimerHeap::m_min_heap in order of expiry
  due,         \* loop -> how many of these have expired
  timerfd,     \* loop -> the timerfd: "idle", "armed" or "expired"
  timerActive, \* loop -> the timer channel is in m_active_channels
  queue,       \* loop -> m_pending_functors
  batch,       \* loop -> the vector of doPendingFunctors()
  called,      \* loop -> how many of batch have been called
  lpc,         \* loop -> where its thread is
  crash        \* why the process died, "no" while it lives

connVars  == <<conn, channels>>
mainVars  == <<connections, nextLoop, backlog, listenEdge, accepting>>
timerVars == <<timers, due, timerfd>>
loopVars  == <<active, timerActive, batch, called, lpc>>
vars == <<conn, connections, nextLoop, backlog, listenEdge, channels, active,
          accepting, timers, due, timerfd, timerActive, queue, batch, called,
          lpc, crash>>

(***************************************************************************)
(* A connection.  The first group of fields is TcpConnection, HttpContext   *)
(* and Buffer, the second its Channel, the third its socket and its entry   *)
(* in the kernel's epoll.  The last group is only used inside a handler.    *)
(***************************************************************************)
NewConn ==
  [st     |-> "idle",   \* m_state, and what precedes and follows the object
   loop   |-> Main,     \* m_loop
   fd     |-> 0,        \* Socket::m_sockfd
   alive  |-> FALSE,    \* m_alive
   tmo    |-> FALSE,    \* m_timeout
   out    |-> 0,        \* pieces of answers in m_output_buffer
   ka     |-> FALSE,    \* HttpContext::isKeepAlive()
   end    |-> FALSE,    \* m_check_state = CHECK_STATE_END
   ev     |-> "none",   \* Channel::m_events
   idx    |-> "kNew",   \* Channel::m_index
   rev    |-> {},       \* Channel::m_revents
   bad    |-> FALSE,    \* a consistency check of Epoll::updateChannel() failed
   reg    |-> "off",    \* the events epoll holds for the socket
   edge   |-> FALSE,    \* the socket is on epoll's ready list
   data   |-> FALSE,    \* received bytes not yet read
   fin    |-> FALSE,    \* the peer shut down its side
   rst    |-> FALSE,    \* the peer reset the connection
   err    |-> FALSE,    \* SO_ERROR is pending
   full   |-> FALSE,    \* the send buffer has no room
   sends  |-> 0,        \* deliveries so far
   slot   |-> NoConn,   \* m_channels[m_fd]
   self   |-> NoConn,   \* this
   post   |-> FALSE,    \* m_close_callback was called
   arm    |-> FALSE,    \* runAfter() was called
   stop   |-> "no"]     \* the process died here, or "hung"

Live(c) == conn[c].st \in {"kConnecting", "kConnected", "kDisconnected"}

FreeFds == Fds \ {conn[c].fd : c \in {d \in Conns : Live(d)}}

Init == /\ conn = [c \in Conns |-> NewConn]
        /\ connections = {}
        /\ nextLoop = 1
        /\ backlog = <<>>
        /\ listenEdge = FALSE
        /\ channels = [l \in IoLoops |-> [f \in Fds |-> NoConn]]
        /\ active = [l \in IoLoops |-> {}]
        /\ accepting = FALSE
        /\ timers = [l \in IoLoops |-> <<>>]
        /\ due = [l \in IoLoops |-> 0]
        /\ timerfd = [l \in IoLoops |-> "idle"]
        /\ timerActive = [l \in IoLoops |-> FALSE]
        /\ queue = [l \in Loops |-> <<>>]
        /\ batch = [l \in Loops |-> <<>>]
        /\ called = [l \in Loops |-> 0]
        /\ lpc = [l \in Loops |-> "poll"]
        /\ crash = "no"

(***************************************************************************)
(* Channel and Epoll                                                        *)
(***************************************************************************)
Running(s) == s.stop = "no"

Fatal(s, why) == [s EXCEPT !.stop = why]

\* Epoll::update(): a failing EPOLL_CTL_ADD or MOD ends the process, a failing
\* DEL is only logged.  ADD and MOD make the kernel look at the socket again.
Update(op, s) ==
  CASE op = "DEL" -> [s EXCEPT !.reg = "off", !.edge = FALSE]
    [] (op = "ADD" /\ s.reg # "off") \/ (op = "MOD" /\ s.reg = "off") ->
         Fatal(s, "epoll_ctl")
    [] OTHER -> [s EXCEPT !.reg = s.ev, !.edge = TRUE]

\* Epoll::updateChannel(); its checks against m_channels only log.
UpdateChannel(s) ==
  LET expected == IF s.idx = "kNew" THEN NoConn ELSE s.self
      checked  == [s EXCEPT !.bad = @ \/ s.slot # expected]
  IN CASE s.idx = "kNew" ->
            Update("ADD", [checked EXCEPT !.slot = s.self, !.idx = "kAdded"])
       [] s.idx = "kDeleted" -> Update("ADD", [checked EXCEPT !.idx = "kAdded"])
       [] s.idx = "kAdded" /\ s.ev = "none" ->
            Update("DEL", [checked EXCEPT !.idx = "kDeleted"])
       [] OTHER -> Update("MOD", checked)

EnableReading(s) == UpdateChannel([s EXCEPT !.ev = "read"])
EnableWriting(s) == UpdateChannel([s EXCEPT !.ev = "write"])
DisableAll(s)    == UpdateChannel([s EXCEPT !.ev = "none"])

\* Mutant: the entry of m_channels is not erased.
RemoveChannelKeepsSlot(s) == [s EXCEPT !.idx = "kNew"]

\* Channel::remove(), which sets kDeleted before Epoll::removeChannel()
RemoveChannel(s) == IF s.slot = s.self /\ s.ev = "none"
                    THEN [s EXCEPT !.slot = NoConn, !.idx = "kNew"]
                    ELSE [s EXCEPT !.idx = "kDeleted"]

\* What epoll_wait would report of a socket (tcp_poll): a reset raises
\* everything, SO_ERROR only until it is read.
Mask(s) == {e \in {"IN", "OUT", "HUP", "ERR"} :
              CASE e = "IN"  -> s.reg = "read" /\ (s.data \/ s.fin \/ s.rst)
                [] e = "OUT" -> s.reg = "write" /\ (~s.full \/ s.rst)
                [] e = "HUP" -> s.rst
                [] e = "ERR" -> s.err}

(***************************************************************************)
(* TcpConnection                                                            *)
(***************************************************************************)
\* What a handler cannot foresee: whether the bytes read hold a Keep-Alive
\* header and a complete request, and how much of the answer the send buffer
\* takes ("part" leaves some) and whether it is then full.
Outcomes == {o \in [ka : BOOLEAN, complete : BOOLEAN, part : BOOLEAN,
                    fills : BOOLEAN] :
               /\ o.part => o.fills
               /\ o.fills => "full" \in Faults}

\* Mutant: the channel is not disabled.
HandleCloseKeepsChannel(s) ==
  CASE ~Running(s) -> s
    [] s.alive /\ ~s.tmo -> s
    [] OTHER -> IF s.st # "kConnected"
                THEN Fatal(s, "handleClose")
                ELSE [s EXCEPT !.st = "kDisconnected", !.post = TRUE]

\* A keep-alive connection is left alone until its timer has fired.
HandleClose(s) ==
  CASE ~Running(s) -> s
    [] s.alive /\ ~s.tmo -> s
    [] OTHER -> IF s.st # "kConnected"
                THEN Fatal(s, "handleClose")
                ELSE [DisableAll([s EXCEPT !.st = "kDisconnected"])
                        EXCEPT !.post = TRUE]

\* getSocketError() clears SO_ERROR.
HandleError(s) ==
  IF Running(s) THEN HandleClose([s EXCEPT !.err = FALSE]) ELSE s

\* Mutant: the parser's state is not reset.
ResetForgets(s) == [s EXCEPT !.ka = TRUE]

\* HttpContext::reset()
Reset(s) == [s EXCEPT !.ka = TRUE, !.end = FALSE]

\* Bound: an answer takes at most this many writes.
Pieces == 2

\* HttpContext::work() as far as the connection depends on it: an answer is
\* always produced, also to an incomplete request.  In CHECK_STATE_END a
\* complete line is never consumed and the parser does not return.
Work(s, o) == IF s.end /\ o.complete
              THEN [s EXCEPT !.stop = "hung"]
              ELSE [s EXCEPT !.ka = @ \/ o.ka, !.end = @ \/ o.complete,
                             !.out = @ + Pieces]

\* Mutant: the connection is not made readable again.
NextRequestUnwatched(s) == Reset(s)

\* A keep-alive connection is made ready for its next request.
NextRequest(s) == EnableReading(Reset(s))

\* Buffer::writeToFd() writes until the answer is sent or there is no room.
\* Writing after a reset whose error was already taken, or that followed a
\* FIN, raises SIGPIPE.
WriteToFd(s) ==
  CASE s.rst /\ (s.fin \/ ~s.err) -> "SIGPIPE"
    [] s.rst /\ ~s.fin /\ s.err -> "error"
    [] ~s.rst /\ (s.out = 0 \/ s.full) -> "none"
    [] OTHER -> "some"

\* The output buffer and the send buffer after some bytes were written
Written(s, o) == IF s.out > 1 /\ o.part
                 THEN [s EXCEPT !.out = @ - 1, !.full = TRUE]
                 ELSE [s EXCEPT !.out = 0, !.full = o.fills]

\* A part of the answer is left, or all is sent.
AfterWrite(s) ==
  CASE s.out > 0 -> EnableWriting(s)
    [] s.out = 0 /\ s.alive /\ ~s.tmo -> NextRequest(s)
    [] OTHER -> HandleClose(s)

\* The branches on the result of writeToFd() and on what is left to send.
HandleWrite(s, o) ==
  IF ~Running(s) THEN s
  ELSE CASE WriteToFd(s) = "some" -> AfterWrite(Written(s, o))
         [] WriteToFd(s) = "none" -> IF s.out = 0 THEN HandleClose(s)
                                                  ELSE HandleError(s)
         [] WriteToFd(s) = "error" -> HandleError([s EXCEPT !.err = FALSE])
         [] OTHER -> Fatal(s, "SIGPIPE")

\* Mutant: every keep-alive request starts a timer.
StartTimerAlways(s) ==
  IF Running(s) /\ s.ka THEN [s EXCEPT !.alive = TRUE, !.arm = TRUE] ELSE s

\* The first keep-alive request starts the connection's one timer.
StartTimer(s) ==
  IF Running(s) /\ ~s.alive /\ s.ka
  THEN [s EXCEPT !.alive = TRUE, !.arm = TRUE]
  ELSE s

\* Mutant: the peer's shutdown is reported as an error as well.
HandleReadFallsThrough(s, o) ==
  CASE ~Running(s) -> s
    [] s.fin \/ s.rst \/ ~s.data ->
         HandleError(HandleClose([s EXCEPT !.data = FALSE, !.err = FALSE]))
    [] OTHER -> HandleWrite(StartTimer(Work([s EXCEPT !.data = FALSE], o)), o)

\* Buffer::readFromFd() reads until nothing is left: bytes followed by the
\* peer's FIN count as none, bytes followed by a reset as an error.
ReadFromFd(s) ==
  CASE s.rst /\ s.err /\ ~s.fin -> "error"
    [] ~s.rst /\ ~s.fin /\ s.data -> "some"
    [] OTHER -> "none"

\* The branches on the result of readFromFd().
HandleRead(s, o) ==
  IF ~Running(s) THEN s
  ELSE LET read == [s EXCEPT !.data = FALSE]
       IN  CASE ReadFromFd(s) = "some" ->
                  HandleWrite(StartTimer(Work(read, o)), o)
             [] ReadFromFd(s) = "none" -> HandleClose(read)
             [] OTHER -> HandleError([read EXCEPT !.err = FALSE])

\* Channel::handleEvent(): up to four handlers, one after the other, chosen
\* by the events seen when epoll_wait returned.
HandleEvent(s, o) ==
  LET closed == IF "HUP" \in s.rev /\ "IN" \notin s.rev THEN HandleClose(s) ELSE s
      failed == IF "ERR" \in s.rev THEN HandleError(closed) ELSE closed
      read   == IF "IN" \in s.rev THEN HandleRead(failed, o) ELSE failed
  IN  IF "OUT" \in s.rev THEN HandleWrite(read, o) ELSE read

ConnectEstablished(s) == EnableReading([s EXCEPT !.st = "kConnected"])

ConnectDestroyed(s) ==
  RemoveChannel(IF s.st = "kConnected"
                THEN DisableAll([s EXCEPT !.st = "kDisconnected"])
                ELSE s)

\* Mutant: m_timeout is not set.
CloseLongConnectionForgets(s) == HandleClose(s)

CloseLongConnection(s) == HandleClose([s EXCEPT !.tmo = TRUE])

(***************************************************************************)
(* A handler of connection c runs on its loop: what it leaves behind.       *)
(***************************************************************************)
Load(c) == [conn[c] EXCEPT !.self = c, !.slot = channels[conn[c].loop][conn[c].fd]]

Save(c, s) ==
  LET l == s.loop IN
  /\ conn' = [conn EXCEPT ![c] = [s EXCEPT !.self = NoConn, !.slot = NoConn,
                                           !.rev = {}, !.post = FALSE,
                                           !.arm = FALSE, !.stop = "no"]]
  /\ channels' = [channels EXCEPT ![l][s.fd] = s.slot]
  /\ queue' = IF s.post THEN [queue EXCEPT ![Main] = Append(@, <<"remove", c>>)]
                        ELSE queue
  /\ crash' = IF s.stop \in {"no", "hung"} THEN crash ELSE s.stop

\* TimerHeap::addTimerInLoop(): setTimer() re-arms the one timerfd, which
\* also withdraws an expiry nobody has read yet.  All delays are equal, so
\* the heap's order is the order of insertion.
AddTimer(l, c) == /\ timers' = [timers EXCEPT ![l] = Append(@, c)]
                  /\ timerfd' = [timerfd EXCEPT ![l] = "armed"]

\* The shared pointers to a TcpConnection: m_connections, the functors bound
\* to it (established is bound to the raw pointer) and its timer.
Referenced(c) ==
  \/ c \in connections
  \/ \E l \in Loops : \E f \in ToSet(queue[l]) \cup ToSet(batch[l]) :
       f[1] \in {"remove", "destroy"} /\ f[2] = c
  \/ \E l \in IoLoops : c \in ToSet(timers[l])

\* ~TcpConnection() with ~Socket(): of the object nothing is left but what it
\* forgot in epoll, and whether a check had failed.
Freed(s) == [NewConn EXCEPT !.st = "freed", !.reg = s.reg, !.bad = s.bad]

\* Where the last reference may be dropped
Reap(next) ==
  LET gone == {c \in Conns : Live(c) /\ ~Referenced(c)'} IN
  /\ conn' = [c \in Conns |-> IF c \in gone THEN Freed(next[c]) ELSE next[c]]
  /\ crash' = IF \E c \in gone : next[c].st # "kDisconnected"
              THEN "destructor" ELSE crash

(***************************************************************************)
(* Peers and the kernel                                                     *)
(***************************************************************************)
Socket(c) == conn[c].st \in {"backlog", "kConnecting", "kConnected",
                             "kDisconnected"}

\* A change of the socket puts it on the ready list if epoll watches it.
Notify(c, s) == conn' = [conn EXCEPT ![c] = [s EXCEPT !.edge = s.reg # "off"]]

\* The peer's first connection, or another one
PeerConnects(c) ==
  /\ \/ conn[c].st = "idle"
     \/ "again" \in Faults /\ conn[c].st \in {"freed", "refused"}
  /\ conn' = [conn EXCEPT ![c] = [NewConn EXCEPT !.st = "backlog"]]
  /\ backlog' = Append(backlog, c)
  /\ listenEdge' = TRUE
  /\ UNCHANGED <<connections, nextLoop, accepting, channels, timerVars,
                 loopVars, queue, crash>>

PeerStep(c) ==
  /\ Socket(c) /\ ~conn[c].rst
  /\ LET s == conn[c] IN
     \/ ~s.fin /\ s.sends < MaxSends
        /\ Notify(c, [s EXCEPT !.data = TRUE, !.sends = @ + 1])
     \/ "fin" \in Faults /\ ~s.fin /\ Notify(c, [s EXCEPT !.fin = TRUE])
     \/ "rst" \in Faults /\ Notify(c, [s EXCEPT !.rst = TRUE, !.err = TRUE])
  /\ UNCHANGED <<channels, mainVars, timerVars, loopVars, queue, crash>>

\* The peer reads what it was sent.
PeerReads(c) ==
  /\ Socket(c) /\ conn[c].full
  /\ Notify(c, [conn[c] EXCEPT !.full = FALSE])
  /\ UNCHANGED <<channels, mainVars, timerVars, loopVars, queue, crash>>

\* Time passes until the next timer of l is due; handleTimeoutEvents() reads
\* the clock once, so none becomes due for it while it runs.
TimerDue(l) ==
  /\ lpc[l] # "timeouts"
  /\ due[l] < Len(timers[l])
  /\ due' = [due EXCEPT ![l] = @ + 1]
  /\ UNCHANGED <<connVars, mainVars, timers, timerfd, loopVars, queue, crash>>

\* The timerfd was armed with the youngest timer's delay, so when it expires
\* all timers are due.
TimerExpires(l) ==
  /\ timerfd[l] = "armed"
  /\ due[l] = Len(timers[l])
  /\ timerfd' = [timerfd EXCEPT ![l] = "expired"]
  /\ UNCHANGED <<connVars, mainVars, timers, due, loopVars, queue, crash>>

(***************************************************************************)
(* I/O loops                                                                *)
(***************************************************************************)
At(l, label) == crash = "no" /\ lpc[l] = label

Ready(l) == {c \in Conns : /\ Live(c) /\ conn[c].loop = l
                           /\ conn[c].reg # "off" /\ conn[c].edge
                           /\ Mask(conn[c]) # {}}

\* Epoll::poll() and fillActiveChannels(); the events are captured here.
PollIo(l) ==
  /\ At(l, "poll")
  /\ Ready(l) # {} \/ timerfd[l] = "expired" \/ queue[l] # <<>>
  /\ conn' = [c \in Conns |->
                IF conn[c].loop # l THEN conn[c]
                ELSE [conn[c] EXCEPT
                        !.edge = FALSE,
                        !.rev = IF c \in Ready(l) THEN Mask(conn[c]) ELSE {}]]
  /\ active' = [active EXCEPT ![l] = Ready(l)]
  /\ timerActive' = [timerActive EXCEPT ![l] = timerfd[l] = "expired"]
  /\ lpc' = [lpc EXCEPT ![l] = "dispatch"]
  /\ UNCHANGED <<channels, mainVars, timerVars, queue, batch, called, crash>>

\* One channel of a connection is handled.
Dispatch(l) ==
  /\ At(l, "dispatch")
  /\ \E c \in active[l] : \E s \in {HandleEvent(Load(c), o) : o \in Outcomes} :
       /\ Save(c, s)
       /\ active' = [active EXCEPT ![l] = @ \ {c}]
       /\ lpc' = [lpc EXCEPT ![l] = IF s.stop = "hung" THEN "hung" ELSE @]
       /\ IF s.arm THEN AddTimer(l, c) ELSE UNCHANGED <<timers, timerfd>>
  /\ UNCHANGED <<mainVars, due, timerActive, batch, called>>

\* Mutant: the timeouts are handled at once (runInLoop).
DispatchTimerInline(l) ==
  /\ At(l, "dispatch")
  /\ timerActive[l]
  /\ timerActive' = [timerActive EXCEPT ![l] = FALSE]
  /\ timerfd' = [timerfd EXCEPT ![l] = IF @ = "expired" THEN "idle" ELSE @]
  /\ lpc' = [lpc EXCEPT ![l] = "timeouts"]
  /\ UNCHANGED <<connVars, mainVars, timers, due, active, queue, batch, called,
                 crash>>

\* TimerHeap::handleRead(): the timerfd is read and the timeouts are queued
\* behind the handlers of this round.
DispatchTimer(l) ==
  /\ At(l, "dispatch")
  /\ timerActive[l]
  /\ timerActive' = [timerActive EXCEPT ![l] = FALSE]
  /\ timerfd' = [timerfd EXCEPT ![l] = IF @ = "expired" THEN "idle" ELSE @]
  /\ queue' = [queue EXCEPT ![l] = Append(@, <<"timeouts", NoConn>>)]
  /\ UNCHANGED <<connVars, mainVars, timers, due, active, batch, called, lpc,
                 crash>>

\* doPendingFunctors() takes the queue once all channels are handled.
TakeFunctors(l) ==
  /\ At(l, "dispatch")
  /\ IF l = Main THEN ~accepting ELSE active[l] = {} /\ ~timerActive[l]
  /\ batch' = [batch EXCEPT ![l] = queue[l]]
  /\ queue' = [queue EXCEPT ![l] = <<>>]
  /\ lpc' = [lpc EXCEPT ![l] = "run"]
  /\ UNCHANGED <<connVars, mainVars, timerVars, active, timerActive, called,
                 crash>>

\* The functor to be called next is a call of f.
Calls(l, f) == /\ At(l, "run")
               /\ called[l] < Len(batch[l])
               /\ batch[l][called[l] + 1][1] = f

CallDone(l) == called' = [called EXCEPT ![l] = @ + 1]

RunConnection(l) ==
  /\ \/ Calls(l, "established")
        /\ LET c == batch[l][called[l] + 1][2] IN Save(c, ConnectEstablished(Load(c)))
     \/ Calls(l, "destroy")
        /\ LET c == batch[l][called[l] + 1][2] IN Save(c, ConnectDestroyed(Load(c)))
  /\ CallDone(l)
  /\ UNCHANGED <<mainVars, timerVars, active, timerActive, batch, lpc>>

\* TimerHeap::handleTimeoutEvents(): its loop, one timer per step ...
RunTimeouts(l) ==
  /\ Calls(l, "timeouts")
  /\ lpc' = [lpc EXCEPT ![l] = "timeouts"]
  /\ UNCHANGED <<connVars, mainVars, timerVars, active, timerActive, queue,
                 batch, called, crash>>

\* Mutant: the expiry time is not compared with the clock.
TimeOutUnchecked(l) ==
  /\ At(l, "timeouts")
  /\ timers[l] # <<>>
  /\ LET c == Head(timers[l]) IN Save(c, CloseLongConnection(Load(c)))
  /\ timers' = [timers EXCEPT ![l] = Tail(@)]
  /\ due' = [due EXCEPT ![l] = @ - 1]
  /\ UNCHANGED <<mainVars, timerfd, loopVars>>

\* ... closes the connection, then pops the timer, which drops its reference
\* (the functor just queued for the main loop holds another) ...
TimeOut(l) ==
  /\ At(l, "timeouts")
  /\ due[l] > 0
  /\ LET c == Head(timers[l]) IN Save(c, CloseLongConnection(Load(c)))
  /\ timers' = [timers EXCEPT ![l] = Tail(@)]
  /\ due' = [due EXCEPT ![l] = @ - 1]
  /\ UNCHANGED <<mainVars, timerfd, loopVars>>

\* ... until the first timer that is not due.  The timerfd is not re-armed.
TimeoutsDone(l) ==
  /\ At(l, "timeouts")
  /\ due[l] = 0
  /\ CallDone(l)
  /\ lpc' = [lpc EXCEPT ![l] = "run"]
  /\ UNCHANGED <<connVars, mainVars, timerVars, active, timerActive, queue,
                 batch, crash>>

\* The vector of functors is destroyed, and with it the references in it.
DropFunctors(l) ==
  /\ At(l, "run")
  /\ called[l] = Len(batch[l])
  /\ batch' = [batch EXCEPT ![l] = <<>>]
  /\ called' = [called EXCEPT ![l] = 0]
  /\ lpc' = [lpc EXCEPT ![l] = "poll"]
  /\ UNCHANGED <<channels, mainVars, timerVars, active, timerActive, queue>>
  /\ Reap(conn)

(***************************************************************************)
(* The main loop: Acceptor and TcpServer                                    *)
(***************************************************************************)
PollMain ==
  /\ At(Main, "poll")
  /\ (listenEdge /\ backlog # <<>>) \/ queue[Main] # <<>>
  /\ accepting' = (listenEdge /\ backlog # <<>>)
  /\ listenEdge' = FALSE
  /\ lpc' = [lpc EXCEPT ![Main] = "dispatch"]
  /\ UNCHANGED <<connVars, connections, nextLoop, backlog, timerVars, active,
                 timerActive, queue, batch, called, crash>>

\* accept() stops the loop: nothing to take, or a failure
AcceptReturns == accepting' = FALSE /\ UNCHANGED <<connections, nextLoop, queue>>

\* EventLoopThreadPool::getNextLoop(): the loop after l, round robin
LoopAfter(l) == (l % NLoops) + 1

NewConnection(c, fd) ==
  /\ conn' = [conn EXCEPT ![c].st = "kConnecting", ![c].fd = fd,
                          ![c].loop = nextLoop]
  /\ connections' = connections \cup {c}
  /\ nextLoop' = LoopAfter(nextLoop)
  /\ queue' = [queue EXCEPT ![nextLoop] = Append(@, <<"established", c>>)]

\* Mutant: one accept() per event.
AcceptOnce ==
  /\ At(Main, "dispatch") /\ accepting
  /\ accepting' = FALSE
  /\ \/ /\ backlog = <<>> \/ FreeFds = {}
        /\ UNCHANGED <<conn, backlog, connections, nextLoop, queue>>
     \/ /\ backlog # <<>> /\ FreeFds # {}
        /\ NewConnection(Head(backlog), Min(FreeFds))
        /\ backlog' = Tail(backlog)
  /\ UNCHANGED <<listenEdge, channels, timerVars, active, timerActive, batch,
                 called, lpc, crash>>

\* Socket::accept() returns no descriptor: nothing is left (EAGAIN) or no
\* descriptor is free (EMFILE); a transient error, which may have consumed the
\* connection; an error that ends the process (an argument the kernel rejects,
\* which is noticed last, or want of memory or files).
SocketAcceptFails ==
  \/ /\ backlog = <<>> \/ FreeFds = {}
     /\ UNCHANGED <<conn, backlog, crash>>
  \/ /\ "abort" \in Faults
     /\ \/ UNCHANGED <<conn, backlog>>
        \/ /\ backlog # <<>>
           /\ conn' = [conn EXCEPT ![Head(backlog)].st = "refused"]
           /\ backlog' = Tail(backlog)
     /\ UNCHANGED crash
  \/ /\ "garbage" \in Faults /\ backlog # <<>> /\ FreeFds # {}
     /\ conn' = [conn EXCEPT ![Head(backlog)].st = "refused"]
     /\ backlog' = Tail(backlog)
     /\ crash' = "accept"
  \/ /\ "nomem" \in Faults
     /\ crash' = "accept"
     /\ UNCHANGED <<conn, backlog>>

\* One turn of Acceptor::handleRead(): accept() fails, or a descriptor above
\* MAXFD is closed, and the loop is left; or there is a new connection.
Accept ==
  /\ At(Main, "dispatch") /\ accepting
  /\ \/ SocketAcceptFails /\ AcceptReturns
     \/ /\ backlog # <<>> /\ FreeFds # {}
        /\ \/ /\ Min(FreeFds) > MaxFd
              /\ conn' = [conn EXCEPT ![Head(backlog)].st = "refused"]
              /\ AcceptReturns
           \/ /\ Min(FreeFds) <= MaxFd
              /\ NewConnection(Head(backlog), Min(FreeFds))
              /\ UNCHANGED accepting
        /\ backlog' = Tail(backlog)
        /\ UNCHANGED crash
  /\ UNCHANGED <<listenEdge, channels, timerVars, active, timerActive, batch,
                 called, lpc>>

\* Mutant: connectDestroyed() is not queued.
RemoveConnectionOnly ==
  /\ Calls(Main, "remove")
  /\ connections' = connections \ {batch[Main][called[Main] + 1][2]}
  /\ CallDone(Main)
  /\ UNCHANGED <<connVars, nextLoop, backlog, listenEdge, accepting, timerVars,
                 active, timerActive, queue, batch, lpc, crash>>

\* Mutant: the connection is not erased from m_connections.
RemoveConnectionKeeps ==
  /\ Calls(Main, "remove")
  /\ LET c == batch[Main][called[Main] + 1][2] IN
     queue' = [queue EXCEPT ![conn[c].loop] = Append(@, <<"destroy", c>>)]
  /\ CallDone(Main)
  /\ UNCHANGED <<connVars, connections, nextLoop, backlog, listenEdge, accepting,
                 timerVars, active, timerActive, batch, lpc, crash>>

\* TcpServer::removeConnectionInLoop()
RemoveConnection ==
  /\ Calls(Main, "remove")
  /\ LET c == batch[Main][called[Main] + 1][2] IN
     /\ connections' = connections \ {c}
     /\ queue' = [queue EXCEPT ![conn[c].loop] = Append(@, <<"destroy", c>>)]
  /\ CallDone(Main)
  /\ UNCHANGED <<connVars, nextLoop, backlog, listenEdge, accepting, timerVars,
                 active, timerActive, batch, lpc, crash>>

IoStep(l) == \/ PollIo(l) \/ Dispatch(l) \/ DispatchTimer(l) \/ TakeFunctors(l)
             \/ RunConnection(l) \/ RunTimeouts(l) \/ TimeOut(l)
             \/ TimeoutsDone(l) \/ DropFunctors(l)

MainStep == \/ PollMain \/ Accept \/ TakeFunctors(Main) \/ RemoveConnection
            \/ DropFunctors(Main)

Clock(l) == TimerDue(l) \/ TimerExpires(l)

Next == \/ MainStep
        \/ \E l \in IoLoops : IoStep(l) \/ Clock(l)
        \/ \E c \in Conns : PeerConnects(c) \/ PeerStep(c) \/ PeerReads(c)

\* Every thread goes on, time passes, and a peer that stays connected reads
\* what it is sent.  Peers need not send, close or reset.
Fairness == /\ WF_vars(MainStep)
            /\ \A l \in IoLoops : WF_vars(IoStep(l)) /\ WF_vars(Clock(l))
            /\ \A c \in Conns : WF_vars(PeerReads(c))

Spec == Init /\ [][Next]_vars /\ Fairness

(***************************************************************************)
(* Properties                                                               *)
(***************************************************************************)
Functors == ({"remove", "destroy", "established"} \X Conns)
            \cup {<<"timeouts", NoConn>>}

States    == {"idle", "backlog", "refused", "kConnecting", "kConnected",
              "kDisconnected", "freed"}
Interests == {"none", "read", "write"}
Indices   == {"kNew", "kAdded", "kDeleted"}
Watches   == Interests \cup {"off"}
Events    == SUBSET {"IN", "OUT", "HUP", "ERR"}

ConnType ==
  [st : States, loop : Loops, fd : 0..NFds, alive : BOOLEAN, tmo : BOOLEAN,
   out : 0..(Pieces * MaxSends), ka : BOOLEAN, end : BOOLEAN, ev : Interests,
   idx : Indices, rev : Events, bad : BOOLEAN, reg : Watches, edge : BOOLEAN,
   data : BOOLEAN, fin : BOOLEAN, rst : BOOLEAN, err : BOOLEAN, full : BOOLEAN,
   sends : 0..MaxSends, slot : {NoConn}, self : {NoConn}, post : {FALSE},
   arm : {FALSE}, stop : {"no"}]

\* Type correctness; an I/O loop's channel list and heap hold only its own
\* connections, and no more timers are due than there are.
TypeOK ==
  /\ conn \in [Conns -> ConnType]
  /\ connections \subseteq Conns
  /\ nextLoop \in IoLoops
  /\ backlog \in Seq(Conns)
  /\ listenEdge \in BOOLEAN
  /\ accepting \in BOOLEAN
  /\ channels \in [IoLoops -> [Fds -> Conns \cup {NoConn}]]
  /\ active \in [IoLoops -> SUBSET Conns]
  /\ timers \in [IoLoops -> Seq(Conns)]
  /\ due \in [IoLoops -> Nat]
  /\ \A l \in IoLoops : due[l] <= Len(timers[l])
  /\ timerfd \in [IoLoops -> {"idle", "armed", "expired"}]
  /\ timerActive \in [IoLoops -> BOOLEAN]
  /\ queue \in [Loops -> Seq(Functors)]
  /\ batch \in [Loops -> Seq(Functors)]
  /\ called \in [Loops -> Nat]
  /\ \A l \in Loops : called[l] <= Len(batch[l])
  /\ lpc \in [Loops -> {"poll", "dispatch", "run", "timeouts", "hung"}]
  /\ \A l \in IoLoops : \A c \in active[l] \cup ToSet(timers[l]) : conn[c].loop = l

\* The functors of loop l, first those doPendingFunctors() has taken, then those
\* pushed since, and where those are that it has still to call
FunctorAt(l, i) == IF i <= Len(batch[l]) THEN batch[l][i]
                                         ELSE queue[l][i - Len(batch[l])]

Uncalled(l) == (called[l] + 1)..(Len(batch[l]) + Len(queue[l]))

\* Nobody holds a raw pointer to a destroyed connection: not the kernel's
\* epoll, m_channels, the channels still to be handled, nor the functor that
\* newConnection() binds to conn.get() (TcpServer.cpp:45).
NoDangling ==
  \A c \in Conns : conn[c].st = "freed" =>
    /\ conn[c].reg = "off"
    /\ \A l \in IoLoops : /\ c \notin active[l]
                          /\ \A f \in Fds : channels[l][f] # c
    /\ \A l \in Loops : \A i \in Uncalled(l) :
         FunctorAt(l, i) # <<"established", c>>

\* The consistency checks of Epoll::updateChannel() never fail, although the
\* kernel gives the descriptor of a closed connection to the next one, on
\* the same loop or another (Epoll.cpp:72-111).
ChannelsConsistent == \A c \in Conns : ~conn[c].bad

\* The process never ends itself: handleClose() is called in a state it
\* accepts, a connection is destroyed only when disconnected, epoll_ctl
\* succeeds and no write hits a broken pipe (TcpConnection.cpp:35,163).
NoFatal == crash = "no"

\* What ends the process comes from outside: a peer that reset a connection that
\* still exists, by SIGPIPE or the second close of TcpConnection.cpp:163-165, or an
\* error of accept() that Socket.cpp:72-78 holds to be fatal.  No order of
\* requests, shutdowns, timeouts and full buffers does, epoll_ctl() never fails
\* (Epoll.cpp:140-152) and no connection is destroyed that is not closed
\* (TcpConnection.cpp:35-37).
OnlyPeersKill ==
  /\ crash \in {"no", "SIGPIPE", "handleClose", "accept"}
  /\ crash \in {"SIGPIPE", "handleClose"} => \E c \in Conns : Live(c) /\ conn[c].rst
  /\ crash = "accept" => Faults \cap {"garbage", "nomem"} # {}

\* The functors of a removal (its two halves) that are under way for c
Removals(c) ==
  {p \in UNION {{l} \X Uncalled(l) : l \in Loops} :
     FunctorAt(p[1], p[2]) \in {<<"remove", c>>, <<"destroy", c>>}}

\* "called only once for one connection" (TcpConnection.h:32-35): a closed
\* connection has exactly one removal under way until its channel is out of
\* the loop, an open one none.
RemovedOnce ==
  \A c \in Conns :
    Cardinality(Removals(c)) =
      IF conn[c].st = "kDisconnected" /\ conn[c].idx = "kDeleted" THEN 1 ELSE 0

\* The timers of c, in whichever heap
TimersOf(c) == {p \in UNION {{l} \X DOMAIN timers[l] : l \in IoLoops} :
                  timers[p[1]][p[2]] = c}

\* A keep-alive connection that is still open has exactly one timer, and no
\* other connection has one (TcpConnection.cpp:83-87,145).
OneTimerEach ==
  \A c \in Conns :
    Cardinality(TimersOf(c)) =
      IF conn[c].st = "kConnected" /\ conn[c].alive THEN 1 ELSE 0

\* "all request data of timeout connectio should be handled before closing the
\* timeout connection" (TimerHeap.cpp:131-132): a connection is not closed by
\* its timer while its loop still has events of it to handle in this round.
TimeoutAfterData ==
  [][\A c \in Conns : (~conn[c].tmo /\ conn'[c].tmo) =>
       active[conn[c].loop] = {}]_vars

\* A closed connection gives its object and its descriptor back, unless the
\* process or its I/O thread is lost meanwhile.
ClosedIsFreed ==
  \A c \in Conns : (conn[c].st = "kDisconnected") ~>
    (conn[c].st = "freed" \/ crash # "no" \/ lpc[conn[c].loop] = "hung")

\* epoll reports an arrival only once, and a connection is watched for reading
\* or for writing, never both.  Still no bytes that arrive on an open connection
\* are overlooked: the loop has the event, or epoll will report it, or the
\* connection waits for room to send and looks again after that
\* (TcpConnection.cpp:124-132).
DataIsWatched ==
  \A c \in Conns :
    LET s == conn[c] IN
    s.st = "kConnected" /\ s.data /\ crash = "no" =>
      \/ c \in active[s.loop]
      \/ s.edge /\ (s.reg = "read" \/ ~s.full)
      \/ s.reg = "write" /\ s.full

\* An I/O thread is caught in the parser's loop (HttpContext.cpp:133-157) in
\* one way only: a keep-alive connection whose answer found no
\* room at its first write is still watched for reading, with the answer in its
\* buffer and its parser in CHECK_STATE_END (TcpConnection.cpp:118-122); every
\* other connection that reads on was reset.
HangsOnlyOnResidue ==
  \A l \in IoLoops : lpc[l] = "hung" =>
    \E c \in Conns : /\ conn[c].loop = l
                     /\ conn[c].alive /\ conn[c].end
                     /\ conn[c].out > 0 /\ conn[c].ev = "read"

\* "a long connection will be alive(seconds)" (TimerHeap.cpp:8): a keep-alive
\* connection is closed and freed in the end, although every new one re-arms the
\* one timerfd (TimerHeap.cpp:93) and peers may open new ones for ever.  What ends the
\* postponing is that handleClose() leaves these connections alone until their
\* timer has run (TcpConnection.cpp:145): each new one takes a descriptor that
\* none gives back meanwhile.  Until then it may last, so the end may come late
\* by as many times 300 seconds as there are descriptors.
\* (m_alive is never reset: it ends with the object.)
KeepAliveEnds == \A c \in Conns : []<>(~conn[c].alive)

\* "When a request of connection is comming, the server will get it to the IO
\* thread" (design.md:14): a connection the kernel completed does not wait for
\* ever while the process has a descriptor for it.
BacklogIsServed ==
  \A c \in Conns : []<>(conn[c].st = "backlog" => FreeFds = {})
=============================================================================
