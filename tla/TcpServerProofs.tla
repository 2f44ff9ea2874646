-------------------------- MODULE TcpServerProofs --------------------------
(***************************************************************************)
(* Theorems about the server, for any number of connections, loops and      *)
(* descriptors.  First what the handlers do to the record of a connection,  *)
(* then the invariant that ties the records to queues, channels and timers. *)
(***************************************************************************)
EXTENDS TcpServer, FiniteSetTheorems, SequenceTheorems, TLAPS

(***************************************************************************)
(* The record of a connection while a handler works on it                   *)
(***************************************************************************)
Ends  == {"no", "hung", "SIGPIPE", "handleClose", "epoll_ctl"}
Slots == Conns \cup {NoConn}
Sends == 0..MaxSends

Records ==
  [st : States, loop : IoLoops, fd : Fds, alive : BOOLEAN, tmo : BOOLEAN,
   out : Nat, ka : BOOLEAN, end : BOOLEAN, ev : Interests, idx : Indices,
   rev : Events, bad : BOOLEAN, reg : Watches, edge : BOOLEAN, data : BOOLEAN,
   fin : BOOLEAN, rst : BOOLEAN, err : BOOLEAN, full : BOOLEAN, sends : Sends,
   slot : Slots, self : Conns, post : BOOLEAN, arm : BOOLEAN, stop : Ends]

\* The output buffer holds at most the answers to the deliveries read so far.
Bounded(s) == s.out + (IF s.data THEN Pieces ELSE 0) <= Pieces * s.sends

Sound(s) == /\ s \in Records
            /\ s.slot = s.self /\ ~s.bad
            /\ ~s.tmo
            /\ Bounded(s)
            /\ s.stop # "epoll_ctl"

\* The connection is open and epoll watches what its channel asks for.
Open(s) == /\ Sound(s)
           /\ s.st = "kConnected" /\ s.idx = "kAdded"
           /\ s.ev \in {"read", "write"} /\ s.reg = s.ev
           /\ ~s.post

\* What is left of an answer is waited for, or else the connection is kept.
Settled(s) == /\ s.ev = "write" => s.out > 0
              /\ s.ev = "read" /\ s.end => s.alive /\ s.out > 0

\* The connection was closed by this handler, which has had it removed.
Shut(s) == /\ Sound(s)
           /\ s.st = "kDisconnected" /\ s.idx = "kDeleted"
           /\ s.ev = "none" /\ s.reg = "off"
           /\ s.post
           /\ ~s.alive

\* How every handler leaves a connection
Kept(s) == (Open(s) /\ Settled(s)) \/ Shut(s)

Same(s, t) == /\ t.loop = s.loop /\ t.fd = s.fd /\ t.self = s.self
              /\ t.sends = s.sends /\ t.rst = s.rst /\ t.fin = s.fin
              /\ t.rev = s.rev /\ (t.err => s.err)

SameTimer(s, t) == t.alive = s.alive /\ t.arm = s.arm

\* t differs from s at most in the bytes received and the pending error.
Alike(s, t) == /\ Same(s, t) /\ SameTimer(s, t)
               /\ t.st = s.st /\ t.idx = s.idx /\ t.ev = s.ev /\ t.reg = s.reg
               /\ t.slot = s.slot /\ t.bad = s.bad /\ t.tmo = s.tmo
               /\ t.out = s.out /\ t.end = s.end /\ t.post = s.post
               /\ t.stop = s.stop /\ t.edge = s.edge /\ t.full = s.full

\* What a handler may do to a connection: at most one timer is started, by the
\* request that makes the connection a kept one.
Handled(s, t) == /\ Same(s, t)
                 /\ s.alive => t.alive
                 /\ t.arm <=> (s.arm \/ (t.alive /\ ~s.alive))

\* No bytes wait that nobody will look at.
Heeded(s) == \/ ~s.data
             \/ s.edge /\ (s.reg = "read" \/ ~s.full)
             \/ s.reg = "write" /\ s.full

\* The values the handlers assign
LEMMA Values ==
  /\ "kConnected" \in States /\ "kDisconnected" \in States
  /\ "none" \in Interests /\ "read" \in Interests /\ "write" \in Interests
  /\ "kNew" \in Indices /\ "kAdded" \in Indices /\ "kDeleted" \in Indices
  /\ "off" \in Watches /\ Interests \subseteq Watches
  /\ "no" \in Ends /\ "hung" \in Ends /\ "SIGPIPE" \in Ends
  /\ "handleClose" \in Ends
  /\ NoConn \in Slots /\ Conns \subseteq Slots
BY DEF States, Interests, Indices, Watches, Ends, Slots

\* A check of updateChannel() that succeeds leaves no trace (Epoll.cpp:72-111).
LEMMA CheckHolds ==
  ASSUME NEW s \in Records, NEW P, P = FALSE
  PROVE  [s EXCEPT !.bad = @ \/ P] = s
<1>1. s.bad \in BOOLEAN
    BY DEF Records
<1>2. (s.bad \/ P) = s.bad
    BY <1>1
<1>3. [s EXCEPT !.bad = @ \/ P] = [s EXCEPT !.bad = s.bad]
    BY <1>2
<1>4. [s EXCEPT !.bad = s.bad] = s
    BY DEF Records
<1> QED
    BY <1>3, <1>4

\* updateChannel() of a channel that was added and wants nothing any more
LEMMA UpdateDisabled ==
  ASSUME NEW s \in Records, s.idx = "kAdded", s.ev = "none", s.slot = s.self
  PROVE  UpdateChannel(s)
           = [s EXCEPT !.idx = "kDeleted", !.reg = "off", !.edge = FALSE]
<1>1. [s EXCEPT !.bad = @ \/ s.slot # s.self] = s
    BY CheckHolds
<1>2. UpdateChannel(s) = Update("DEL", [s EXCEPT !.idx = "kDeleted"])
    BY <1>1 DEF UpdateChannel
<1> QED
    BY <1>2 DEF Update

\* updateChannel() of a channel that was added and wants something
LEMMA UpdateAdded ==
  ASSUME NEW s \in Records, s.idx = "kAdded", s.ev # "none", s.slot = s.self,
         s.reg # "off"
  PROVE  UpdateChannel(s) = [s EXCEPT !.reg = s.ev, !.edge = TRUE]
<1>1. [s EXCEPT !.bad = @ \/ s.slot # s.self] = s
    BY CheckHolds
<1>2. UpdateChannel(s) = Update("MOD", s)
    BY <1>1 DEF UpdateChannel
<1> QED
    BY <1>2 DEF Update, Records

\* handleClose() of an open connection that is not kept, or not any longer
LEMMA CloseOpen ==
  ASSUME NEW s \in Records, s.idx = "kAdded", s.slot = s.self, Running(s),
         ~(s.alive /\ ~s.tmo), s.st = "kConnected"
  PROVE  HandleClose(s)
           = [s EXCEPT !.st = "kDisconnected", !.ev = "none", !.idx = "kDeleted",
                       !.reg = "off", !.edge = FALSE, !.post = TRUE]
<1> DEFINE t == [s EXCEPT !.st = "kDisconnected", !.ev = "none"]
<1>1. t \in Records /\ t.idx = "kAdded" /\ t.ev = "none" /\ t.slot = t.self
    BY Values DEF Records
<1>2. UpdateChannel(t)
        = [t EXCEPT !.idx = "kDeleted", !.reg = "off", !.edge = FALSE]
    BY <1>1, UpdateDisabled
<1>3. HandleClose(s) = [UpdateChannel(t) EXCEPT !.post = TRUE]
    BY DEF HandleClose, DisableAll, Running
<1> QED
    BY <1>2, <1>3

\* handleClose() of an open connection that is not kept
LEMMA CloseShuts ==
  ASSUME NEW s, Open(s), Running(s), ~s.alive
  PROVE  /\ Shut(HandleClose(s)) /\ Running(HandleClose(s))
         /\ Same(s, HandleClose(s)) /\ SameTimer(s, HandleClose(s))
<1> DEFINE t == [s EXCEPT !.st = "kDisconnected", !.ev = "none",
                          !.idx = "kDeleted", !.reg = "off", !.edge = FALSE,
                          !.post = TRUE]
<1>a. s \in Records
    BY DEF Open, Sound
<1>1. s.idx = "kAdded" /\ s.slot = s.self /\ s.st = "kConnected"
    BY DEF Open, Sound
<1>2. HandleClose(s) = t
    BY <1>a, <1>1, CloseOpen
<1>3. t \in Records
    BY <1>a, Values DEF Records
<1>4. /\ t.st = "kDisconnected" /\ t.idx = "kDeleted" /\ t.ev = "none"
      /\ t.reg = "off" /\ t.post
    BY <1>a DEF Records
<1>5. Same(s, t) /\ SameTimer(s, t)
    BY <1>a DEF Records, Same, SameTimer
<1>6. /\ t.slot = s.slot /\ t.bad = s.bad /\ t.tmo = s.tmo
      /\ t.out = s.out /\ t.data = s.data /\ t.stop = s.stop
    BY <1>a DEF Records
<1>7. t.self = s.self /\ t.sends = s.sends /\ t.alive = s.alive
    BY <1>5 DEF Same, SameTimer
<1>8. Sound(t)
    BY <1>3, <1>6, <1>7 DEF Sound, Open, Bounded
<1> QED
    BY <1>2, <1>4, <1>5, <1>6, <1>7, <1>8 DEF Shut, Running

\* Bytes are read or the pending error is taken: the rest stays.
LEMMA AlikeKeeps ==
  ASSUME NEW s, NEW t \in Records, Alike(s, t), t.data => s.data
  PROVE  /\ Open(s) => Open(t)
         /\ Settled(s) => Settled(t)
         /\ Shut(s) => Shut(t)
<1>1. t.sends = s.sends /\ t.self = s.self /\ t.alive = s.alive
    BY DEF Alike, Same, SameTimer
<1>2. Sound(s) => Bounded(t)
  <2>1. t.out = s.out /\ Pieces \in Nat
    BY DEF Alike, Pieces
  <2>2. SUFFICES ASSUME Sound(s) PROVE Bounded(t)
    OBVIOUS
  <2>3. s.out \in Nat /\ s.sends \in Nat
    BY <2>2, ServerAssumption DEF Sound, Records, Sends
  <2>4. Pieces * s.sends \in Nat
    BY <2>3 DEF Pieces
  <2> QED
    BY <1>1, <2>1, <2>2, <2>3, <2>4 DEF Sound, Bounded
<1>3. Sound(s) => Sound(t)
    BY <1>1, <1>2 DEF Sound, Alike
<1> QED
    BY <1>1, <1>3 DEF Open, Settled, Shut, Alike

LEMMA Taken ==
  ASSUME NEW s \in Records
  PROVE  /\ [s EXCEPT !.err = FALSE] \in Records
         /\ Alike(s, [s EXCEPT !.err = FALSE])
         /\ [s EXCEPT !.err = FALSE].data = s.data
         /\ [s EXCEPT !.err = FALSE].err = FALSE
<1> DEFINE t == [s EXCEPT !.err = FALSE]
<1>1. t \in Records /\ t.data = s.data /\ t.err = FALSE
    BY DEF Records
<1>2. Same(s, t) /\ SameTimer(s, t)
    BY DEF Records, Same, SameTimer
<1>3. /\ t.st = s.st /\ t.idx = s.idx /\ t.ev = s.ev /\ t.reg = s.reg
      /\ t.slot = s.slot /\ t.bad = s.bad /\ t.tmo = s.tmo
    BY DEF Records
<1>4. /\ t.out = s.out /\ t.end = s.end /\ t.post = s.post
      /\ t.stop = s.stop /\ t.edge = s.edge /\ t.full = s.full
    BY DEF Records
<1> QED
    BY <1>1, <1>2, <1>3, <1>4 DEF Alike

LEMMA Emptied ==
  ASSUME NEW s \in Records
  PROVE  /\ [s EXCEPT !.data = FALSE] \in Records
         /\ Alike(s, [s EXCEPT !.data = FALSE])
         /\ [s EXCEPT !.data = FALSE].data = FALSE
         /\ [s EXCEPT !.data = FALSE].err = s.err
<1> DEFINE t == [s EXCEPT !.data = FALSE]
<1>1. t \in Records /\ t.data = FALSE /\ t.err = s.err
    BY DEF Records
<1>2. Same(s, t) /\ SameTimer(s, t)
    BY DEF Records, Same, SameTimer
<1>3. /\ t.st = s.st /\ t.idx = s.idx /\ t.ev = s.ev /\ t.reg = s.reg
      /\ t.slot = s.slot /\ t.bad = s.bad /\ t.tmo = s.tmo
    BY DEF Records
<1>4. /\ t.out = s.out /\ t.end = s.end /\ t.post = s.post
      /\ t.stop = s.stop /\ t.edge = s.edge /\ t.full = s.full
    BY DEF Records
<1> QED
    BY <1>1, <1>2, <1>3, <1>4 DEF Alike

\* The process is ended, or the thread caught, in the middle of a handler.
LEMMA Ended ==
  ASSUME NEW s \in Records, NEW why \in {"hung", "SIGPIPE", "handleClose"}
  PROVE  LET t == [s EXCEPT !.stop = why]
         IN  /\ t.stop = why /\ t.data = s.data /\ t.err = s.err
             /\ Same(s, t) /\ SameTimer(s, t)
             /\ t.ev = s.ev /\ t.out = s.out /\ t.end = s.end
             /\ Open(s) => Open(t)
             /\ Settled(s) => Settled(t)
             /\ Shut(s) => Shut(t)
<1> DEFINE t == [s EXCEPT !.stop = why]
<1>1. why \in Ends /\ why # "epoll_ctl"
    BY DEF Ends
<1>2. t \in Records /\ t.stop = why /\ t.data = s.data /\ t.err = s.err
    BY <1>1 DEF Records
<1>3. Same(s, t) /\ SameTimer(s, t)
    BY DEF Records, Same, SameTimer
<1>4. /\ t.st = s.st /\ t.idx = s.idx /\ t.ev = s.ev /\ t.reg = s.reg
      /\ t.slot = s.slot /\ t.bad = s.bad /\ t.tmo = s.tmo
    BY DEF Records
<1>5. t.out = s.out /\ t.end = s.end /\ t.post = s.post
    BY DEF Records
<1>6. t.self = s.self /\ t.sends = s.sends /\ t.alive = s.alive
    BY <1>3 DEF Same, SameTimer
<1>7. Sound(s) => Sound(t)
    BY <1>1, <1>2, <1>4, <1>5, <1>6 DEF Sound, Bounded
<1>8. /\ Open(s) => Open(t)
      /\ Settled(s) => Settled(t)
      /\ Shut(s) => Shut(t)
    BY <1>4, <1>5, <1>6, <1>7 DEF Open, Settled, Shut
<1> QED
    BY <1>2, <1>3, <1>4, <1>5, <1>8

\* handleClose(): a kept connection stays as it is, another is closed, and
\* the process ends if it was closed already.
LEMMA CloseKeeps ==
  ASSUME NEW s, Shut(s) \/ (Open(s) /\ (s.alive => Settled(s))), Running(s)
  PROVE  LET t == HandleClose(s)
         IN  /\ Kept(t) /\ Same(s, t) /\ SameTimer(s, t)
             /\ s.alive => t = s
             /\ Open(s) => Running(t)
             /\ ~s.alive => Shut(t)
             /\ Shut(s) => t.stop = "handleClose"
<1> DEFINE t == HandleClose(s)
<1>1. CASE Open(s) /\ s.alive
  <2>1. t = s
    BY <1>1 DEF HandleClose, Open, Sound
  <2>2. ~Shut(s)
    BY <1>1 DEF Shut
  <2> QED
    BY <1>1, <2>1, <2>2 DEF Kept, Same, SameTimer, Shut
<1>2. CASE Open(s) /\ ~s.alive
  <2>1. ~Shut(s)
    BY <1>2 DEF Open, Shut
  <2> QED
    BY <1>2, <2>1, CloseShuts DEF Kept
<1>3. CASE Shut(s)
  <2>1. s \in Records /\ ~s.alive /\ ~Open(s)
    BY <1>3 DEF Shut, Sound, Open
  <2>2. t = [s EXCEPT !.stop = "handleClose"]
    BY <1>3 DEF HandleClose, Shut, Fatal
  <2> QED
    BY <1>3, <2>1, <2>2, Ended DEF Kept
<1> QED
    BY <1>1, <1>2, <1>3

\* A part of the answer or all of it was written.
LEMMA WrittenOpen ==
  ASSUME NEW s, Open(s), s.out > 0, NEW o \in Outcomes
  PROVE  LET t == Written(s, o)
         IN  /\ Open(t) /\ Same(s, t) /\ SameTimer(s, t)
             /\ t.stop = s.stop /\ t.data = s.data
             /\ t.out > 0 => t.full
<1> DEFINE t == Written(s, o)
<1>a. s \in Records /\ s.out \in Nat
    BY DEF Open, Sound, Records
<1>b. s.sends \in Nat /\ Pieces = 2 /\ Bounded(s)
    BY ServerAssumption DEF Open, Sound, Records, Sends, Pieces
<1>1. PICK n \in Nat, b \in BOOLEAN : /\ t = [s EXCEPT !.out = n, !.full = b]
                                      /\ n <= s.out /\ (n > 0 => b)
  <2>1. CASE s.out > 1 /\ o.part
    <3>1. t = [s EXCEPT !.out = s.out - 1, !.full = TRUE]
      BY <2>1 DEF Written
    <3>2. s.out - 1 \in Nat /\ s.out - 1 <= s.out
      BY <1>a, <2>1
    <3> QED
      BY <3>1, <3>2
  <2>2. CASE ~(s.out > 1 /\ o.part)
    <3>1. o.fills \in BOOLEAN
      BY DEF Outcomes
    <3>2. t = [s EXCEPT !.out = 0, !.full = o.fills]
      BY <2>2 DEF Written
    <3>3. 0 \in Nat /\ 0 <= s.out /\ ~(0 > 0)
      BY <1>a
    <3> QED
      BY <3>1, <3>2, <3>3
  <2> QED
    BY <2>1, <2>2
<1> HIDE DEF t
<1> DEFINE w == [s EXCEPT !.out = n, !.full = b]
<1>2. w \in Records /\ w.out = n /\ w.full = b
    BY <1>a DEF Records
<1>3. Same(s, w) /\ SameTimer(s, w)
    BY <1>a DEF Records, Same, SameTimer
<1>4. /\ w.st = s.st /\ w.idx = s.idx /\ w.ev = s.ev /\ w.reg = s.reg
      /\ w.slot = s.slot /\ w.bad = s.bad /\ w.tmo = s.tmo
    BY <1>a DEF Records
<1>5. w.data = s.data /\ w.post = s.post /\ w.stop = s.stop
    BY <1>a DEF Records
<1>6. w.self = s.self /\ w.sends = s.sends /\ w.alive = s.alive
    BY <1>3 DEF Same, SameTimer
<1> HIDE DEF w
<1>7. Bounded(w)
    BY <1>a, <1>b, <1>1, <1>2, <1>5, <1>6 DEF Bounded
<1>8. Open(w)
    BY <1>2, <1>4, <1>5, <1>6, <1>7 DEF Open, Sound
<1> QED
    BY <1>1, <1>2, <1>3, <1>5, <1>8 DEF t, w

\* enableWriting() of an open connection with something left to send
LEMMA WritingOpen ==
  ASSUME NEW s, Open(s), s.out > 0
  PROVE  LET t == EnableWriting(s)
         IN  /\ Open(t) /\ Settled(t) /\ Same(s, t) /\ SameTimer(s, t)
             /\ t.stop = s.stop /\ t.reg = "write" /\ t.full = s.full
<1> DEFINE r == [s EXCEPT !.ev = "write"]
           t == [r EXCEPT !.reg = "write", !.edge = TRUE]
<1>a. s \in Records /\ s.idx = "kAdded" /\ s.slot = s.self /\ s.reg # "off"
    BY DEF Open, Sound
<1>b. s \in Records
    BY <1>a
<1>1. r \in Records /\ r.ev = "write" /\ r.idx = s.idx /\ r.reg = s.reg
    BY <1>b, Values DEF Records
<1>2. r.slot = s.slot /\ r.self = s.self
    BY <1>b DEF Records
<1>3. EnableWriting(s) = t
    BY <1>a, <1>1, <1>2, UpdateAdded DEF EnableWriting
<1>4. t \in Records /\ t.ev = "write" /\ t.reg = "write"
    BY <1>b, Values DEF Records
<1>5. Same(s, t) /\ SameTimer(s, t)
    BY <1>b DEF Records, Same, SameTimer
<1>6. /\ t.st = s.st /\ t.idx = s.idx /\ t.out = s.out /\ t.data = s.data
      /\ t.slot = s.slot /\ t.bad = s.bad /\ t.tmo = s.tmo
    BY <1>b DEF Records
<1>7. t.full = s.full /\ t.post = s.post /\ t.stop = s.stop
    BY <1>b DEF Records
<1>8. t.self = s.self /\ t.sends = s.sends /\ t.alive = s.alive
    BY <1>5 DEF Same, SameTimer
<1> HIDE DEF t
<1>9. Open(t)
    BY <1>4, <1>6, <1>7, <1>8 DEF Open, Sound, Bounded
<1> QED
    BY <1>3, <1>4, <1>5, <1>6, <1>7, <1>9 DEF Settled

\* An open connection is made ready for its next request.
LEMMA ReadyOpen ==
  ASSUME NEW s, Open(s)
  PROVE  LET t == NextRequest(s)
         IN  /\ Open(t) /\ Settled(t) /\ Same(s, t) /\ SameTimer(s, t)
             /\ t.stop = s.stop /\ t.reg = "read" /\ t.edge
<1> DEFINE r == [s EXCEPT !.ka = TRUE, !.end = FALSE, !.ev = "read"]
           t == [r EXCEPT !.reg = "read", !.edge = TRUE]
<1>a. s \in Records /\ s.idx = "kAdded" /\ s.slot = s.self /\ s.reg # "off"
    BY DEF Open, Sound
<1>b. s \in Records
    BY <1>a
<1>1. r \in Records /\ r.ev = "read" /\ r.idx = s.idx /\ r.reg = s.reg
    BY <1>b, Values DEF Records
<1>2. r.slot = s.slot /\ r.self = s.self
    BY <1>b DEF Records
<1>3. NextRequest(s) = t
    BY <1>a, <1>1, <1>2, UpdateAdded DEF NextRequest, Reset, EnableReading
<1>4. t \in Records /\ t.ev = "read" /\ t.reg = "read" /\ t.edge /\ ~t.end
    BY <1>b, Values DEF Records
<1>5. Same(s, t) /\ SameTimer(s, t)
    BY <1>b DEF Records, Same, SameTimer
<1>6. /\ t.st = s.st /\ t.idx = s.idx /\ t.out = s.out /\ t.data = s.data
      /\ t.slot = s.slot /\ t.bad = s.bad /\ t.tmo = s.tmo
    BY <1>b DEF Records
<1>7. t.post = s.post /\ t.stop = s.stop
    BY <1>b DEF Records
<1>8. t.self = s.self /\ t.sends = s.sends /\ t.alive = s.alive
    BY <1>5 DEF Same, SameTimer
<1> HIDE DEF t
<1>9. Open(t)
    BY <1>4, <1>6, <1>7, <1>8 DEF Open, Sound, Bounded
<1> QED
    BY <1>3, <1>4, <1>5, <1>7, <1>9 DEF Settled

\* handleError() of a connection is handleClose() of what is left.
LEMMA ErrorKeeps ==
  ASSUME NEW s, Shut(s) \/ (Open(s) /\ (s.alive => Settled(s))), Running(s)
  PROVE  LET t == HandleError(s)
         IN  /\ Kept(t) /\ Same(s, t) /\ SameTimer(s, t)
             /\ Open(s) => Running(t)
             /\ Shut(s) => t.stop = "handleClose"
             /\ Open(t) => Alike(s, t) /\ t.data = s.data /\ ~t.err
<1> DEFINE r == [s EXCEPT !.err = FALSE]
<1>1. s \in Records
    BY DEF Open, Shut, Sound
<1>2. r \in Records /\ Alike(s, r) /\ r.data = s.data /\ ~r.err
    BY <1>1, Taken
<1>3. HandleError(s) = HandleClose(r)
    BY DEF HandleError
<1> HIDE DEF r
<1>4. /\ Open(s) => Open(r)
      /\ Settled(s) => Settled(r)
      /\ Shut(s) => Shut(r)
    BY <1>2, AlikeKeeps
<1>5. r.alive = s.alive /\ r.arm = s.arm /\ r.stop = s.stop /\ Same(s, r)
    BY <1>2 DEF Alike, SameTimer
<1>6. Running(r)
    BY <1>5 DEF Running
<1>7. LET t == HandleClose(r)
      IN  /\ Kept(t) /\ Same(r, t) /\ SameTimer(r, t)
          /\ r.alive => t = r
          /\ Open(r) => Running(t)
          /\ ~r.alive => Shut(t)
          /\ Shut(r) => t.stop = "handleClose"
    BY <1>4, <1>5, <1>6, CloseKeeps
<1>8. Open(HandleClose(r)) => HandleClose(r) = r
    BY <1>7 DEF Open, Shut, Kept
<1>9. Same(s, HandleClose(r)) /\ SameTimer(s, HandleClose(r))
    BY <1>5, <1>7 DEF Same, SameTimer
<1> QED
    BY <1>2, <1>3, <1>4, <1>7, <1>8, <1>9

\* handleWrite() of an open connection that was not reset
LEMMA WriteOpen ==
  ASSUME NEW s, Open(s), Running(s), s.out > 0, ~s.rst, NEW o \in Outcomes
  PROVE  LET t == HandleWrite(s, o)
         IN  /\ Kept(t) /\ Running(t) /\ Same(s, t) /\ SameTimer(s, t)
             /\ Open(t) /\ (s.ev = "write" \/ ~s.data) => Heeded(t)
<1>a. s \in Records /\ s.out \in Nat
    BY DEF Open, Sound, Records
<1>1. CASE s.full
  <2>1. HandleWrite(s, o) = HandleError(s)
    BY <1>1, <1>a DEF HandleWrite, WriteToFd
  <2>2. s.alive => Settled(s)
    BY DEF Settled
  <2> DEFINE t == HandleError(s)
  <2>3. /\ Kept(t) /\ Same(s, t) /\ SameTimer(s, t) /\ Running(t)
        /\ Open(t) => Alike(s, t) /\ t.data = s.data
    BY <2>2, ErrorKeeps
  <2>4. Open(t) => t.reg = s.ev /\ t.full /\ t.data = s.data
    BY <1>1, <2>3 DEF Alike, Open
  <2> QED
    BY <2>1, <2>3, <2>4 DEF Heeded
<1>2. CASE ~s.full
  <2> DEFINE w == Written(s, o)
             t == AfterWrite(w)
  <2>1. HandleWrite(s, o) = t
    BY <1>2, <1>a DEF HandleWrite, WriteToFd
  <2>2. /\ Open(w) /\ Same(s, w) /\ SameTimer(s, w)
        /\ w.stop = s.stop /\ w.data = s.data
        /\ w.out > 0 => w.full
    BY WrittenOpen
  <2> HIDE DEF w
  <2>3. w.out \in Nat /\ Running(w) /\ ~w.tmo
    BY <2>2 DEF Open, Sound, Records, Running
  <2>4. CASE w.out > 0
    <3>1. t = EnableWriting(w)
      BY <2>4 DEF AfterWrite
    <3>2. /\ Open(t) /\ Settled(t) /\ Same(w, t) /\ SameTimer(w, t)
          /\ t.stop = w.stop /\ t.reg = "write" /\ t.full = w.full
      BY <2>2, <2>4, <3>1, WritingOpen
    <3> QED
      BY <2>1, <2>2, <2>3, <2>4, <3>2
      DEF Kept, Heeded, Running, Same, SameTimer
  <2>5. CASE w.out = 0 /\ w.alive
    <3>1. t = NextRequest(w)
      BY <2>3, <2>5 DEF AfterWrite
    <3>2. /\ Open(t) /\ Settled(t) /\ Same(w, t) /\ SameTimer(w, t)
          /\ t.stop = w.stop /\ t.reg = "read" /\ t.edge
      BY <2>2, <3>1, ReadyOpen
    <3> QED
      BY <2>1, <2>2, <2>3, <3>2 DEF Kept, Heeded, Running, Same, SameTimer
  <2>6. CASE w.out = 0 /\ ~w.alive
    <3>1. t = HandleClose(w)
      BY <2>6 DEF AfterWrite
    <3>2. Shut(t) /\ Running(t) /\ Same(w, t) /\ SameTimer(w, t)
      BY <2>2, <2>3, <2>6, <3>1, CloseShuts
    <3>3. ~Open(t)
      BY <3>2 DEF Open, Shut
    <3> QED
      BY <2>1, <2>2, <3>2, <3>3 DEF Kept, Same, SameTimer
  <2> QED
    BY <2>3, <2>4, <2>5, <2>6
<1> QED
    BY <1>1, <1>2

\* handleWrite() of a connection that was reset: it writes nothing.
LEMMA WriteReset ==
  ASSUME NEW s, Kept(s), Running(s), s.rst, NEW o \in Outcomes
  PROVE  LET t == HandleWrite(s, o)
         IN  /\ Kept(t) /\ Same(s, t) /\ SameTimer(s, t)
             /\ t.stop # "hung"
             /\ Running(t) => Open(s)
             /\ Running(t) /\ Open(t) => s.err /\ t.edge = s.edge /\ t.reg = s.reg
<1>a. s \in Records
    BY DEF Kept, Open, Shut, Sound
<1>1. CASE s.err /\ ~s.fin
  <2> DEFINE r == [s EXCEPT !.err = FALSE]
             t == HandleError(r)
  <2>1. HandleWrite(s, o) = t
    BY <1>1 DEF HandleWrite, WriteToFd
  <2>2. r \in Records /\ Alike(s, r) /\ r.data = s.data
    BY <1>a, Taken
  <2> HIDE DEF r
  <2>3. /\ Open(s) => Open(r)
        /\ Settled(s) => Settled(r)
        /\ Shut(s) => Shut(r)
    BY <2>2, AlikeKeeps
  <2>4. Running(r) /\ Same(s, r) /\ SameTimer(s, r) /\ r.edge = s.edge
        /\ r.reg = s.reg
    BY <2>2 DEF Alike, Running
  <2>5. /\ Kept(t) /\ Same(r, t) /\ SameTimer(r, t)
        /\ Open(r) => Running(t)
        /\ Shut(r) => t.stop = "handleClose"
        /\ Open(t) => Alike(r, t)
    BY <2>3, <2>4, ErrorKeeps DEF Kept
  <2>6. t.stop # "hung" /\ (Running(t) => Open(s))
    BY <2>3, <2>5 DEF Kept, Running
  <2>7. Open(t) => t.edge = s.edge /\ t.reg = s.reg
    BY <2>4, <2>5 DEF Alike
  <2>8. Same(s, t) /\ SameTimer(s, t)
    BY <2>4, <2>5 DEF Same, SameTimer
  <2> QED
    BY <1>1, <2>1, <2>5, <2>6, <2>7, <2>8
<1>2. CASE ~(s.err /\ ~s.fin)
  <2> DEFINE t == [s EXCEPT !.stop = "SIGPIPE"]
  <2>1. HandleWrite(s, o) = t
    BY <1>2 DEF HandleWrite, WriteToFd, Fatal
  <2>2. /\ t.stop = "SIGPIPE" /\ Same(s, t) /\ SameTimer(s, t)
        /\ Open(s) => Open(t)
        /\ Settled(s) => Settled(t)
        /\ Shut(s) => Shut(t)
    BY <1>a, Ended
  <2> QED
    BY <2>1, <2>2 DEF Kept, Running
<1> QED
    BY <1>1, <1>2

\* An answer is appended to the output buffer.
LEMMA AnswerOpen ==
  ASSUME NEW s, Open(s), ~s.data, s.out + 2 <= 2 * s.sends,
         NEW o \in Outcomes, ~(s.end /\ o.complete)
  PROVE  LET t == Work(s, o)
         IN  /\ Open(t) /\ Same(s, t) /\ SameTimer(s, t)
             /\ t.stop = s.stop /\ t.ev = s.ev /\ ~t.data /\ t.out > 0
<1>a. s \in Records /\ s.out \in Nat
    BY DEF Open, Sound, Records
<1>1. PICK a \in BOOLEAN, b \in BOOLEAN :
        Work(s, o) = [s EXCEPT !.ka = a, !.end = b, !.out = s.out + 2]
  <2>1. Work(s, o) = [s EXCEPT !.ka = s.ka \/ o.ka, !.end = s.end \/ o.complete,
                               !.out = s.out + 2]
    BY DEF Work, Pieces
  <2>2. (s.ka \/ o.ka) \in BOOLEAN /\ (s.end \/ o.complete) \in BOOLEAN
    OBVIOUS
  <2> QED
    BY <2>1, <2>2
<1> DEFINE n == s.out + 2
<1>b. n \in Nat /\ n > 0
    BY <1>a
<1> HIDE DEF n
<1> DEFINE t == [s EXCEPT !.ka = a, !.end = b, !.out = n]
<1>2. t \in Records /\ t.out = n
    BY <1>a, <1>b, ZenonT(30) DEF Records
<1>3. Same(s, t) /\ SameTimer(s, t)
    BY <1>a DEF Records, Same, SameTimer
<1>4. /\ t.st = s.st /\ t.idx = s.idx /\ t.ev = s.ev /\ t.reg = s.reg
      /\ t.slot = s.slot /\ t.bad = s.bad /\ t.tmo = s.tmo
    BY <1>a DEF Records
<1>5. t.data = s.data /\ t.post = s.post /\ t.stop = s.stop
    BY <1>a DEF Records
<1>6. t.self = s.self /\ t.sends = s.sends /\ t.alive = s.alive
    BY <1>3 DEF Same, SameTimer
<1>7. t = Work(s, o)
    BY <1>1 DEF n
<1> HIDE DEF t
<1>8. n + 0 <= 2 * s.sends
    BY <1>a DEF n
<1>9. Bounded(t)
    BY <1>2, <1>5, <1>6, <1>8 DEF Bounded, Pieces
<1>10. Open(t)
    BY <1>2, <1>4, <1>5, <1>6, <1>9 DEF Open, Sound
<1> QED
    BY <1>b, <1>2, <1>3, <1>4, <1>5, <1>7, <1>10

\* The first request of a kept connection starts its timer.
LEMMA TimerOpen ==
  ASSUME NEW s, Open(s)
  PROVE  LET t == StartTimer(s)
         IN  /\ Open(t) /\ Handled(s, t)
             /\ t.stop = s.stop /\ t.ev = s.ev /\ t.data = s.data /\ t.out = s.out
<1>a. s \in Records /\ s.alive \in BOOLEAN /\ s.arm \in BOOLEAN
    BY DEF Open, Sound, Records
<1>1. CASE Running(s) /\ ~s.alive /\ s.ka
  <2> DEFINE t == [s EXCEPT !.alive = TRUE, !.arm = TRUE]
  <2>1. StartTimer(s) = t
    BY <1>1 DEF StartTimer
  <2>2. t \in Records /\ t.alive = TRUE /\ t.arm = TRUE
    BY <1>a DEF Records
  <2>3. Same(s, t)
    BY <1>a DEF Records, Same
  <2>4. /\ t.st = s.st /\ t.idx = s.idx /\ t.ev = s.ev /\ t.reg = s.reg
        /\ t.slot = s.slot /\ t.bad = s.bad /\ t.tmo = s.tmo
    BY <1>a DEF Records
  <2>5. t.data = s.data /\ t.post = s.post /\ t.stop = s.stop /\ t.out = s.out
    BY <1>a DEF Records
  <2>6. t.self = s.self /\ t.sends = s.sends
    BY <2>3 DEF Same
  <2> HIDE DEF t
  <2>7. Open(t)
    BY <2>2, <2>4, <2>5, <2>6 DEF Open, Sound, Bounded
  <2>8. Handled(s, t)
    BY <1>1, <2>2, <2>3 DEF Handled
  <2> QED
    BY <2>1, <2>4, <2>5, <2>7, <2>8
<1>2. CASE ~(Running(s) /\ ~s.alive /\ s.ka)
  <2>1. StartTimer(s) = s
    BY <1>2 DEF StartTimer
  <2>2. Handled(s, s)
    BY <1>a DEF Handled, Same
  <2> QED
    BY <2>1, <2>2
<1> QED
    BY <1>1, <1>2

\* handleRead() of an open connection that was not reset
LEMMA ReadOpen ==
  ASSUME NEW s, Open(s), Settled(s), Running(s), s.ev = "read", ~s.rst,
         NEW o \in Outcomes
  PROVE  LET t == HandleRead(s, o)
         IN  /\ Kept(t) /\ Handled(s, t)
             /\ t.stop \in {"no", "hung"}
             /\ Open(t) => Heeded(t)
             /\ t.stop = "hung" => /\ Open(t)
                                   /\ t.alive /\ t.end /\ t.out > 0 /\ t.ev = "read"
<1> DEFINE r == [s EXCEPT !.data = FALSE]
<1>a. s \in Records /\ s.out \in Nat /\ s.sends \in Nat /\ Bounded(s)
    BY ServerAssumption DEF Open, Sound, Records, Sends
<1>b. s.alive \in BOOLEAN /\ s.arm \in BOOLEAN
    BY DEF Open, Sound, Records
<1>1. r \in Records /\ Alike(s, r) /\ ~r.data
    BY <1>a, Emptied
<1>c. HandleRead(s, o) =
        IF ~s.fin /\ s.data THEN HandleWrite(StartTimer(Work(r, o)), o)
                            ELSE HandleClose(r)
    BY DEF HandleRead, ReadFromFd
<1> HIDE DEF r
<1>2. Open(r) /\ Settled(r)
    BY <1>1, AlikeKeeps
<1>3. /\ Running(r) /\ Same(s, r) /\ r.ev = "read" /\ r.rst = s.rst
      /\ r.alive = s.alive /\ r.arm = s.arm /\ r.out = s.out /\ r.sends = s.sends
    BY <1>1 DEF Alike, Running, Same, SameTimer
<1>4. CASE ~(~s.fin /\ s.data)
  <2> DEFINE t == HandleClose(r)
  <2>1. HandleRead(s, o) = t
    BY <1>c, <1>4
  <2>2. /\ Kept(t) /\ Same(r, t) /\ SameTimer(r, t) /\ Running(t)
        /\ r.alive => t = r
        /\ ~r.alive => Shut(t)
    BY <1>2, <1>3, CloseKeeps
  <2>3. Open(t) => t = r
    BY <2>2 DEF Open, Shut
  <2>4. Open(t) => Heeded(t)
    BY <2>3, <1>1 DEF Heeded
  <2>5. Handled(s, t)
    BY <1>b, <1>3, <2>2 DEF Handled, Same, SameTimer
  <2> QED
    BY <2>1, <2>2, <2>4, <2>5 DEF Running
<1>5. CASE ~s.fin /\ s.data /\ r.end /\ o.complete
  <2> DEFINE t == [r EXCEPT !.stop = "hung"]
  <2>1. Work(r, o) = t
    BY <1>5 DEF Work
  <2>2. /\ t.stop = "hung" /\ t.data = r.data
        /\ Same(r, t) /\ SameTimer(r, t)
        /\ t.ev = r.ev /\ t.out = r.out /\ t.end = r.end
        /\ Open(t) /\ Settled(t)
    BY <1>1, <1>2, Ended
  <2> HIDE DEF t
  <2>3. StartTimer(t) = t /\ HandleWrite(t, o) = t
    BY <2>2 DEF StartTimer, HandleWrite, Running
  <2>4. HandleRead(s, o) = t
    BY <1>5, <1>c, <2>1, <2>3
  <2>5. Handled(s, t)
    BY <1>b, <1>3, <2>2 DEF Handled, Same, SameTimer
  <2>6. Heeded(t)
    BY <1>1, <2>2 DEF Heeded
  <2>7. t.ev = "read" /\ t.end
    BY <1>3, <1>5, <2>2
  <2> QED
    BY <2>2, <2>4, <2>5, <2>6, <2>7 DEF Kept, Settled
<1>6. CASE ~s.fin /\ s.data /\ ~(r.end /\ o.complete)
  <2> DEFINE w == Work(r, o)
             u == StartTimer(w)
             t == HandleWrite(u, o)
  <2>1. HandleRead(s, o) = t
    BY <1>6, <1>c
  <2>2. r.out + 2 <= 2 * r.sends
    BY <1>a, <1>3, <1>6 DEF Bounded, Pieces
  <2>3. /\ Open(w) /\ Same(r, w) /\ SameTimer(r, w)
        /\ w.stop = r.stop /\ w.ev = r.ev /\ ~w.data /\ w.out > 0
    BY <1>1, <1>2, <1>6, <2>2, AnswerOpen
  <2> HIDE DEF w
  <2>4. /\ Open(u) /\ Handled(w, u)
        /\ u.stop = w.stop /\ u.ev = w.ev /\ u.data = w.data /\ u.out = w.out
    BY <2>3, TimerOpen
  <2> HIDE DEF u
  <2>5. Running(u) /\ ~u.rst /\ u.out > 0 /\ ~u.data
    BY <1>3, <2>3, <2>4 DEF Running, Handled, Same
  <2>6. /\ Kept(t) /\ Running(t) /\ Same(u, t) /\ SameTimer(u, t)
        /\ Open(t) => Heeded(t)
    BY <2>4, <2>5, WriteOpen
  <2> HIDE DEF t
  <2>7. Same(s, t)
    BY <1>3, <2>3, <2>4, <2>6 DEF Handled, Same
  <2>8. Handled(s, t)
    BY <1>b, <1>3, <2>3, <2>4, <2>6, <2>7 DEF Handled, SameTimer
  <2> QED
    BY <2>1, <2>6, <2>8 DEF Running
<1> QED
    BY <1>4, <1>5, <1>6

\* handleRead() of a connection that was reset: it answers nothing.
LEMMA ReadReset ==
  ASSUME NEW s, Kept(s), Running(s), s.rst, NEW o \in Outcomes
  PROVE  LET t == HandleRead(s, o)
         IN  /\ Kept(t) /\ Same(s, t) /\ SameTimer(s, t)
             /\ t.stop # "hung"
             /\ Open(t) => ~t.data
<1> DEFINE r == [s EXCEPT !.data = FALSE]
           q == [r EXCEPT !.err = FALSE]
<1>a. s \in Records
    BY DEF Kept, Open, Shut, Sound
<1>1. r \in Records /\ Alike(s, r) /\ ~r.data
    BY <1>a, Emptied
<1>b. HandleRead(s, o) = IF s.err /\ ~s.fin THEN HandleError(q) ELSE HandleClose(r)
    BY DEF HandleRead, ReadFromFd
<1> HIDE DEF r
<1>2. q \in Records /\ Alike(r, q) /\ ~q.data
    BY <1>1, Taken
<1> HIDE DEF q
<1>3. /\ Open(s) => Open(r) /\ Open(q)
      /\ Settled(s) => Settled(r) /\ Settled(q)
      /\ Shut(s) => Shut(r) /\ Shut(q)
    BY <1>1, <1>2, AlikeKeeps
<1>4. /\ Running(r) /\ Same(s, r) /\ SameTimer(s, r)
      /\ Running(q) /\ Same(s, q) /\ SameTimer(s, q)
    BY <1>1, <1>2 DEF Alike, Running, Same, SameTimer
<1>5. CASE s.err /\ ~s.fin
  <2> DEFINE t == HandleError(q)
  <2>1. /\ Kept(t) /\ Same(q, t) /\ SameTimer(q, t)
        /\ Open(q) => Running(t)
        /\ Shut(q) => t.stop = "handleClose"
        /\ Open(t) => t.data = q.data
    BY <1>3, <1>4, ErrorKeeps DEF Kept
  <2>2. t.stop # "hung"
    BY <1>3, <2>1 DEF Kept, Running
  <2>3. Same(s, t) /\ SameTimer(s, t)
    BY <1>4, <2>1 DEF Same, SameTimer
  <2> QED
    BY <1>b, <1>2, <1>5, <2>1, <2>2, <2>3
<1>6. CASE ~(s.err /\ ~s.fin)
  <2> DEFINE t == HandleClose(r)
  <2>1. /\ Kept(t) /\ Same(r, t) /\ SameTimer(r, t)
        /\ r.alive => t = r
        /\ Open(r) => Running(t)
        /\ ~r.alive => Shut(t)
        /\ Shut(r) => t.stop = "handleClose"
    BY <1>3, <1>4, CloseKeeps DEF Kept
  <2>2. t.stop # "hung"
    BY <1>3, <2>1 DEF Kept, Running
  <2>3. Same(s, t) /\ SameTimer(s, t)
    BY <1>4, <2>1 DEF Same, SameTimer
  <2>4. Open(t) => ~t.data
    BY <1>1, <2>1 DEF Open, Shut
  <2> QED
    BY <1>b, <1>6, <2>1, <2>2, <2>3, <2>4
<1> QED
    BY <1>5, <1>6

\* A connection whose events were captured, as handleEvent() finds it; a reset
\* that came later has put the socket back on epoll's ready list.
Captured(s) == /\ "IN" \in s.rev => s.ev = "read"
               /\ "OUT" \in s.rev => s.ev = "write"
               /\ "IN" \in s.rev \/ "OUT" \in s.rev
               /\ "HUP" \in s.rev \/ "ERR" \in s.rev => s.rst
               /\ s.err /\ "ERR" \notin s.rev => s.edge

\* Channel::handleEvent(): the handlers it calls one after the other leave the
\* connection open and watched, or closed once.
LEMMA EventKeeps ==
  ASSUME NEW s, Open(s), Settled(s), Running(s), Captured(s), NEW o \in Outcomes
  PROVE  LET t == HandleEvent(s, o)
         IN  /\ Kept(t) /\ Handled(s, t)
             /\ t.stop \in {"no", "hung"} /\ Open(t) => Heeded(t)
             /\ t.stop = "hung" => /\ Open(t)
                                   /\ t.alive /\ t.end /\ t.out > 0 /\ t.ev = "read"
             /\ ~s.rst => t.stop \in {"no", "hung"}
<1>a. s \in Records /\ s.alive \in BOOLEAN /\ s.arm \in BOOLEAN
    BY DEF Open, Sound, Records
<1>b. \A t : Same(s, t) /\ SameTimer(s, t) => Handled(s, t)
    BY <1>a DEF Handled, SameTimer
<1>c. Same(s, s) /\ SameTimer(s, s) /\ Kept(s)
    BY DEF Same, SameTimer, Kept
<1>1. CASE ~s.rst /\ "IN" \in s.rev
  <2>1. HandleEvent(s, o) = HandleRead(s, o)
    BY <1>1 DEF HandleEvent, Captured
  <2>2. s.ev = "read"
    BY <1>1 DEF Captured
  <2> QED
    BY <1>1, <2>1, <2>2, ReadOpen
<1>2. CASE ~s.rst /\ "IN" \notin s.rev
  <2> DEFINE t == HandleWrite(s, o)
  <2>1. HandleEvent(s, o) = t
    BY <1>2 DEF HandleEvent, Captured
  <2>2. s.ev = "write" /\ s.out > 0
    BY <1>2 DEF Captured, Settled
  <2>3. /\ Kept(t) /\ Running(t) /\ Same(s, t) /\ SameTimer(s, t)
        /\ Open(t) => Heeded(t)
    BY <1>2, <2>2, WriteOpen
  <2> QED
    BY <1>b, <2>1, <2>3 DEF Running
<1>3. CASE s.rst /\ "IN" \in s.rev
  <2> DEFINE f == IF "ERR" \in s.rev THEN HandleError(s) ELSE s
             t == HandleRead(f, o)
  <2>1. HandleEvent(s, o) = t
    BY <1>3 DEF HandleEvent, Captured
  <2>2. Kept(f) /\ Running(f) /\ Same(s, f) /\ SameTimer(s, f)
    BY <1>c, ErrorKeeps
  <2> HIDE DEF f
  <2>3. f.rst
    BY <1>3, <2>2 DEF Same
  <2>4. /\ Kept(t) /\ Same(f, t) /\ SameTimer(f, t)
        /\ t.stop # "hung"
        /\ Open(t) => ~t.data
    BY <2>2, <2>3, ReadReset
  <2>5. Same(s, t) /\ SameTimer(s, t)
    BY <2>2, <2>4 DEF Same, SameTimer
  <2> QED
    BY <1>b, <1>3, <2>1, <2>4, <2>5 DEF Heeded
<1>4. CASE s.rst /\ "IN" \notin s.rev
  <2> DEFINE k == IF "HUP" \in s.rev THEN HandleClose(s) ELSE s
             f == IF "ERR" \in s.rev THEN HandleError(k) ELSE k
             t == HandleWrite(f, o)
  <2>1. HandleEvent(s, o) = t
    BY <1>4 DEF HandleEvent, Captured
  <2>2. s.ev = "write"
    BY <1>4 DEF Captured
  <2>3. /\ Kept(k) /\ Running(k) /\ Same(s, k) /\ SameTimer(s, k)
        /\ Open(k) => k = s
    <3>1. CASE "HUP" \in s.rev
      <4>1. /\ Kept(k) /\ Running(k) /\ Same(s, k) /\ SameTimer(s, k)
            /\ s.alive => k = s
            /\ ~s.alive => Shut(k)
        BY <3>1, CloseKeeps
      <4> QED
        BY <4>1 DEF Open, Shut
    <3>2. CASE "HUP" \notin s.rev
      BY <1>c, <3>2
    <3> QED
      BY <3>1, <3>2
  <2> HIDE DEF k
  <2>4. /\ Kept(f) /\ Same(k, f) /\ SameTimer(k, f)
        /\ f.stop # "hung"
        /\ Running(f) /\ Open(f) /\ f.err => f = s /\ "ERR" \notin s.rev
    <3>1. CASE "ERR" \in s.rev
      <4>1. /\ Kept(f) /\ Same(k, f) /\ SameTimer(k, f)
            /\ Open(k) => Running(f)
            /\ Shut(k) => f.stop = "handleClose"
            /\ Open(f) => ~f.err
        BY <2>3, <3>1, ErrorKeeps DEF Kept
      <4>2. f.stop # "hung"
        BY <2>3, <4>1 DEF Kept, Running
      <4> QED
        BY <4>1, <4>2
    <3>2. CASE "ERR" \notin s.rev
      <4>1. f = k
        BY <3>2
      <4>2. Same(k, k) /\ SameTimer(k, k) /\ k.stop # "hung"
        BY <2>3 DEF Same, SameTimer, Running
      <4> QED
        BY <2>3, <3>2, <4>1, <4>2
    <3> QED
      BY <3>1, <3>2
  <2> HIDE DEF f
  <2>5. Same(s, f) /\ SameTimer(s, f) /\ f.rst
    BY <1>4, <2>3, <2>4 DEF Same, SameTimer
  <2>6. CASE Running(f)
    <3>1. /\ Kept(t) /\ Same(f, t) /\ SameTimer(f, t)
          /\ t.stop # "hung"
          /\ Running(t) => Open(f)
          /\ Running(t) /\ Open(t) => f.err /\ t.edge = f.edge /\ t.reg = f.reg
      BY <2>4, <2>5, <2>6, WriteReset
    <3>2. Running(t) /\ Open(t) => t.edge /\ t.reg = "write"
      <4>1. SUFFICES ASSUME Running(t), Open(t) PROVE t.edge /\ t.reg = "write"
        OBVIOUS
      <4>2. f.err /\ f = s /\ "ERR" \notin s.rev
        BY <2>4, <2>6, <3>1, <4>1
      <4>3. s.edge
        BY <4>2 DEF Captured
      <4>4. s.reg = "write"
        BY <2>2 DEF Open
      <4> QED
        BY <3>1, <4>1, <4>2, <4>3, <4>4
    <3>3. Running(t) /\ Open(t) => Heeded(t)
      BY <3>2 DEF Heeded
    <3>4. Same(s, t) /\ SameTimer(s, t)
      BY <2>5, <3>1 DEF Same, SameTimer
    <3> QED
      BY <1>b, <1>4, <2>1, <3>1, <3>3, <3>4 DEF Running
  <2>7. CASE ~Running(f)
    <3>1. t = f
      BY <2>7 DEF HandleWrite
    <3> QED
      BY <1>b, <1>4, <2>1, <2>4, <2>5, <2>7, <3>1 DEF Running
  <2> QED
    BY <2>6, <2>7
<1> QED
  BY <1>1, <1>2, <1>3, <1>4

(***************************************************************************)
(* The invariant                                                            *)
(***************************************************************************)
Early == {"idle", "backlog", "refused", "kConnecting"}

\* Each connection by itself
ConnOK(s) ==
  /\ ~s.bad /\ Bounded(s) /\ (s.err => s.rst)
  /\ s.st \in Early => /\ s.idx = "kNew" /\ s.ev = "none" /\ s.reg = "off"
                       /\ ~s.alive /\ ~s.tmo /\ ~s.end
  /\ s.st = "kConnected" => /\ s.idx = "kAdded" /\ s.ev \in {"read", "write"}
                            /\ s.reg = s.ev /\ ~s.tmo /\ Settled(s)
  /\ s.st = "kDisconnected" => /\ s.idx \in {"kDeleted", "kNew"}
                               /\ s.ev = "none" /\ s.reg = "off"
  /\ s.st = "freed" => s.idx = "kNew" /\ s.reg = "off"
  /\ s.st \in {"kConnecting", "kConnected", "kDisconnected"} =>
       s.loop \in IoLoops /\ s.fd \in Fds

\* Its removal is under way ...
Leaving(s) == s.st = "kDisconnected" /\ s.idx = "kDeleted"

\* ... and until then its loop's m_channels holds its channel.
Listed(s) == s.st = "kConnected" \/ Leaving(s)

ConnsOK == \A c \in Conns : ConnOK(conn[c])

FdsOK == \A c, d \in Conns :
           Live(c) /\ Live(d) /\ conn[c].fd = conn[d].fd => c = d

ChannelsOK ==
  /\ \A c \in Conns : Listed(conn[c]) => channels[conn[c].loop][conn[c].fd] = c
  /\ \A l \in IoLoops : \A f \in Fds : channels[l][f] \in Conns =>
       LET s == conn[channels[l][f]] IN Listed(s) /\ s.loop = l /\ s.fd = f

BacklogOK ==
  \A i \in DOMAIN backlog :
    /\ conn[backlog[i]].st = "backlog"
    /\ \A j \in DOMAIN backlog : backlog[i] = backlog[j] => i = j

MapOK ==
  \A c \in Conns :
    /\ c \in connections => conn[c].st = "kConnecting" \/ Listed(conn[c])
    /\ conn[c].st \in {"kConnecting", "kConnected"} => c \in connections

\* What a functor of loop l that is still to be called says of its connection
FunctorOK(l, f) ==
  f[2] \in Conns =>
    LET s == conn[f[2]] IN
    /\ f[1] = "established" => s.st = "kConnecting" /\ s.loop = l
    /\ f[1] = "remove" => Leaving(s) /\ l = Main /\ f[2] \in connections
    /\ f[1] = "destroy" => Leaving(s) /\ s.loop = l /\ f[2] \notin connections

\* A connection is established by one functor and removed by one, which it
\* has for as long as it waits for them.
FunctorsOK ==
  /\ \A l \in Loops : \A i \in Uncalled(l) : FunctorOK(l, FunctorAt(l, i))
  /\ \A l, m \in Loops : \A i \in Uncalled(l), j \in Uncalled(m) :
       FunctorAt(l, i)[2] = FunctorAt(m, j)[2] /\ FunctorAt(l, i)[2] \in Conns
         => l = m /\ i = j
  /\ \A c \in Conns : conn[c].st = "kConnecting" \/ Leaving(conn[c]) =>
       \E l \in Loops : \E i \in Uncalled(l) : FunctorAt(l, i)[2] = c

TimersOK ==
  /\ \A l \in IoLoops : \A i \in DOMAIN timers[l] :
       LET s == conn[timers[l][i]] IN
       /\ s.loop = l /\ s.st = "kConnected" /\ s.alive
       /\ \A j \in DOMAIN timers[l] : timers[l][i] = timers[l][j] => i = j
  /\ \A c \in Conns : conn[c].st = "kConnected" /\ conn[c].alive =>
       \E i \in DOMAIN timers[conn[c].loop] : timers[conn[c].loop][i] = c

LoopsOK ==
  /\ \A l \in Loops :
       /\ lpc[l] \notin {"run", "timeouts"} => batch[l] = <<>> /\ called[l] = 0
       /\ lpc[l] = "timeouts" => /\ called[l] < Len(batch[l])
                                 /\ batch[l][called[l] + 1][1] = "timeouts"
  /\ \A l \in IoLoops : active[l] # {} => lpc[l] \in {"dispatch", "hung"}

ActiveOK ==
  \A l \in IoLoops : \A c \in active[l] :
    conn[c].loop = l /\ conn[c].st = "kConnected" /\ Captured(conn[c])

HungOK ==
  \A l \in IoLoops : lpc[l] = "hung" =>
    \E c \in Conns : /\ conn[c].loop = l /\ conn[c].st = "kConnected"
                     /\ conn[c].alive /\ conn[c].end
                     /\ conn[c].out > 0 /\ conn[c].ev = "read"

Inv == /\ TypeOK
       /\ ConnsOK
       /\ FdsOK
       /\ ChannelsOK
       /\ BacklogOK
       /\ MapOK
       /\ FunctorsOK
       /\ TimersOK
       /\ LoopsOK
       /\ ActiveOK
       /\ HungOK
       /\ DataIsWatched

(***************************************************************************)
(* From the connection to the record a handler works on, and back           *)
(***************************************************************************)
\* The record as Save() stores it
Stored(s) == [s EXCEPT !.self = NoConn, !.slot = NoConn, !.rev = {},
                       !.post = FALSE, !.arm = FALSE, !.stop = "no"]

Kin(s, t) == /\ t.st = s.st /\ t.loop = s.loop /\ t.fd = s.fd /\ t.idx = s.idx
             /\ t.ev = s.ev /\ t.reg = s.reg /\ t.bad = s.bad /\ t.tmo = s.tmo
             /\ t.alive = s.alive /\ t.out = s.out /\ t.end = s.end
             /\ t.data = s.data /\ t.sends = s.sends /\ t.fin = s.fin
             /\ t.rst = s.rst /\ t.err = s.err /\ t.edge = s.edge
             /\ t.full = s.full

LEMMA KinKeeps ==
  ASSUME NEW s, NEW t, Kin(s, t)
  PROVE  /\ Settled(t) = Settled(s)
         /\ Bounded(t) = Bounded(s)
         /\ Heeded(t) = Heeded(s)
         /\ ConnOK(t) = ConnOK(s)
<1>1. Settled(t) = Settled(s) /\ Bounded(t) = Bounded(s) /\ Heeded(t) = Heeded(s)
    BY DEF Kin, Settled, Bounded, Heeded
<1> QED
    BY <1>1 DEF Kin, ConnOK

LEMMA StoredRecord ==
  ASSUME NEW s \in Records, Bounded(s)
  PROVE  /\ Stored(s) \in ConnType
         /\ Kin(s, Stored(s))
         /\ Stored(s).rev = {}
<1> DEFINE t == Stored(s)
<1>1. /\ s.loop \in Loops /\ s.fd \in 0..NFds /\ {} \in Events
      /\ s.out \in 0..(Pieces * MaxSends)
  <2>1. s.loop \in IoLoops /\ s.fd \in Fds /\ s.sends \in 0..MaxSends
        /\ s.out \in Nat
    BY DEF Records, Sends
  <2>2. s.out <= 2 * s.sends
    BY <2>1, ServerAssumption DEF Bounded, Pieces
  <2>3. s.out \in 0..(2 * MaxSends)
    BY <2>1, <2>2, ServerAssumption
  <2> QED
    BY <2>1, <2>3, ServerAssumption DEF Loops, Fds, Events, Pieces
<1>2. t \in ConnType
    BY <1>1 DEF Records, ConnType, Stored, Sends
<1>3. /\ t.st = s.st /\ t.loop = s.loop /\ t.fd = s.fd /\ t.idx = s.idx
      /\ t.ev = s.ev /\ t.reg = s.reg /\ t.bad = s.bad /\ t.tmo = s.tmo
    BY DEF Records, Stored
<1>4. /\ t.alive = s.alive /\ t.out = s.out /\ t.end = s.end
      /\ t.data = s.data /\ t.sends = s.sends /\ t.fin = s.fin
    BY DEF Records, Stored
<1>5. /\ t.rst = s.rst /\ t.err = s.err /\ t.edge = s.edge
      /\ t.full = s.full /\ t.rev = {}
    BY DEF Records, Stored
<1> QED
    BY <1>2, <1>3, <1>4, <1>5 DEF Kin

LEMMA LoadedRecord ==
  ASSUME TypeOK, NEW c \in Conns, conn[c].loop \in IoLoops, conn[c].fd \in Fds
  PROVE  LET s == Load(c)
         IN  /\ s \in Records
             /\ Kin(conn[c], s)
             /\ s.rev = conn[c].rev /\ s.self = c
             /\ s.slot = channels[conn[c].loop][conn[c].fd]
             /\ Running(s) /\ ~s.post /\ ~s.arm
<1> DEFINE r == conn[c]
           x == channels[r.loop][r.fd]
           t == [r EXCEPT !.self = c, !.slot = x]
<1>1. r \in ConnType
    BY DEF TypeOK
<1>2. x \in Slots
    BY DEF TypeOK, Slots
<1>4. Load(c) = t
    BY DEF Load
<1>a. r.loop \in IoLoops /\ r.fd \in Fds
    OBVIOUS
<1> HIDE DEF r, x
<1>b. r.out \in 0..(Pieces * MaxSends)
    BY <1>1 DEF ConnType
<1>3. r.out \in Nat
    BY <1>b, ServerAssumption DEF Pieces
<1>5. t \in Records
    BY <1>a, <1>1, <1>2, <1>3, Values DEF ConnType, Records, Sends
<1>6. /\ t.st = r.st /\ t.loop = r.loop /\ t.fd = r.fd /\ t.idx = r.idx
      /\ t.ev = r.ev /\ t.reg = r.reg /\ t.bad = r.bad /\ t.tmo = r.tmo
    BY <1>1 DEF ConnType
<1>7. /\ t.alive = r.alive /\ t.out = r.out /\ t.end = r.end
      /\ t.data = r.data /\ t.sends = r.sends /\ t.fin = r.fin
    BY <1>1 DEF ConnType
<1>8. /\ t.rst = r.rst /\ t.err = r.err /\ t.edge = r.edge
      /\ t.full = r.full /\ t.rev = r.rev
    BY <1>1 DEF ConnType
<1>9. t.self = c /\ t.slot = x /\ t.post = FALSE /\ t.arm = FALSE /\ t.stop = "no"
    BY <1>1 DEF ConnType
<1>10. Kin(r, t)
    BY <1>6, <1>7, <1>8 DEF Kin
<1> QED
    BY <1>4, <1>5, <1>8, <1>9, <1>10 DEF r, x, Running

\* What the handlers below leave alone
Beside(s, t) == /\ t.loop = s.loop /\ t.fd = s.fd /\ t.self = s.self
                /\ t.alive = s.alive /\ t.out = s.out /\ t.end = s.end
                /\ t.data = s.data /\ t.sends = s.sends /\ t.rst = s.rst
                /\ t.err = s.err /\ t.bad = s.bad /\ t.arm = s.arm
                /\ t.stop = s.stop

\* connectEstablished() of a connection whose descriptor is in no channel
LEMMA EstablishRecord ==
  ASSUME NEW s \in Records, s.idx = "kNew", s.reg = "off", s.slot = NoConn
  PROVE  LET t == ConnectEstablished(s)
         IN  /\ t \in Records /\ Beside(s, t)
             /\ t.st = "kConnected" /\ t.idx = "kAdded" /\ t.ev = "read"
             /\ t.reg = "read" /\ t.edge /\ t.slot = s.self /\ t.tmo = s.tmo
             /\ t.post = s.post
<1> DEFINE r == [s EXCEPT !.st = "kConnected", !.ev = "read"]
           t == [r EXCEPT !.slot = s.self, !.idx = "kAdded", !.reg = "read",
                          !.edge = TRUE]
<1>1. r \in Records /\ r.ev = "read" /\ r.self = s.self
    BY Values DEF Records
<1>2. r.idx = "kNew" /\ r.reg = "off" /\ r.slot = NoConn
    BY DEF Records
<1>3. ConnectEstablished(s) = UpdateChannel(r)
    BY DEF ConnectEstablished, EnableReading
<1> HIDE DEF r
<1>4. [r EXCEPT !.bad = @ \/ r.slot # NoConn] = r
    BY <1>1, <1>2, CheckHolds
<1> DEFINE q == [r EXCEPT !.slot = r.self, !.idx = "kAdded"]
<1>5. UpdateChannel(r) = Update("ADD", q)
    BY <1>2, <1>4 DEF UpdateChannel
<1>6. q.reg = "off" /\ q.ev = "read"
    BY <1>1, <1>2 DEF Records
<1>7. Update("ADD", q) = [q EXCEPT !.reg = "read", !.edge = TRUE]
    BY <1>6 DEF Update
<1>8. ConnectEstablished(s) = t
    BY <1>1, <1>3, <1>5, <1>7
<1>9. t \in Records
    BY Values DEF Records, r
<1>10. /\ t.st = "kConnected" /\ t.idx = "kAdded" /\ t.ev = "read"
       /\ t.reg = "read" /\ t.edge /\ t.slot = s.self /\ t.tmo = s.tmo
       /\ t.post = s.post
    BY DEF Records, r
<1>11. /\ t.loop = s.loop /\ t.fd = s.fd /\ t.self = s.self
       /\ t.alive = s.alive /\ t.out = s.out /\ t.end = s.end
    BY DEF Records, r
<1>12. /\ t.data = s.data /\ t.sends = s.sends /\ t.rst = s.rst
       /\ t.err = s.err /\ t.bad = s.bad /\ t.arm = s.arm
       /\ t.stop = s.stop
    BY DEF Records, r
<1> QED
    BY <1>8, <1>9, <1>10, <1>11, <1>12 DEF Beside

\* connectDestroyed() of a closed connection
LEMMA DestroyRecord ==
  ASSUME NEW s \in Records, s.st = "kDisconnected", s.ev = "none",
         s.slot = s.self
  PROVE  LET t == ConnectDestroyed(s)
         IN  /\ t \in Records /\ Beside(s, t)
             /\ t.st = s.st /\ t.idx = "kNew" /\ t.ev = s.ev /\ t.reg = s.reg
             /\ t.slot = NoConn /\ t.tmo = s.tmo /\ t.post = s.post
<1> DEFINE t == [s EXCEPT !.slot = NoConn, !.idx = "kNew"]
<1>1. ConnectDestroyed(s) = t
    BY DEF ConnectDestroyed, RemoveChannel
<1>2. t \in Records
    BY Values DEF Records
<1>3. /\ t.st = s.st /\ t.idx = "kNew" /\ t.ev = s.ev /\ t.reg = s.reg
      /\ t.slot = NoConn /\ t.tmo = s.tmo /\ t.post = s.post
    BY DEF Records
<1>4. /\ t.loop = s.loop /\ t.fd = s.fd /\ t.self = s.self
      /\ t.alive = s.alive /\ t.out = s.out /\ t.end = s.end
    BY DEF Records
<1>5. /\ t.data = s.data /\ t.sends = s.sends /\ t.rst = s.rst
      /\ t.err = s.err /\ t.bad = s.bad /\ t.arm = s.arm
      /\ t.stop = s.stop
    BY DEF Records
<1> QED
    BY <1>1, <1>2, <1>3, <1>4, <1>5 DEF Beside

\* closeLongConnection() of an open connection
LEMMA TimeoutRecord ==
  ASSUME NEW s \in Records, s.idx = "kAdded", s.slot = s.self, Running(s),
         s.st = "kConnected"
  PROVE  LET t == CloseLongConnection(s)
         IN  /\ t \in Records /\ Beside(s, t)
             /\ t.st = "kDisconnected" /\ t.idx = "kDeleted" /\ t.ev = "none"
             /\ t.reg = "off" /\ t.slot = s.slot /\ t.tmo /\ t.post
<1> DEFINE r == [s EXCEPT !.tmo = TRUE]
           t == [r EXCEPT !.st = "kDisconnected", !.ev = "none",
                          !.idx = "kDeleted", !.reg = "off", !.edge = FALSE,
                          !.post = TRUE]
<1>1. r \in Records /\ r.idx = "kAdded" /\ r.slot = r.self
    BY DEF Records
<1>2. r.tmo = TRUE /\ r.st = "kConnected" /\ r.stop = s.stop
    BY DEF Records
<1>3. HandleClose(r) = t
    BY <1>1, <1>2, CloseOpen DEF Running
<1>4. CloseLongConnection(s) = t
    BY <1>3 DEF CloseLongConnection
<1>5. t \in Records
    BY Values DEF Records
<1>6. /\ t.st = "kDisconnected" /\ t.idx = "kDeleted" /\ t.ev = "none"
      /\ t.reg = "off" /\ t.slot = s.slot /\ t.tmo /\ t.post
    BY DEF Records
<1>7. /\ t.loop = s.loop /\ t.fd = s.fd /\ t.self = s.self
      /\ t.alive = s.alive /\ t.out = s.out /\ t.end = s.end
    BY DEF Records
<1>8. /\ t.data = s.data /\ t.sends = s.sends /\ t.rst = s.rst
      /\ t.err = s.err /\ t.bad = s.bad /\ t.arm = s.arm
      /\ t.stop = s.stop
    BY DEF Records
<1> QED
    BY <1>4, <1>5, <1>6, <1>7, <1>8 DEF Beside

(***************************************************************************)
(* The functors still to be called: those of the vector b behind the k that *)
(* were called, and those of the queue q                                    *)
(***************************************************************************)
Nth(b, q, i) == IF i <= Len(b) THEN b[i] ELSE q[i - Len(b)]

Places(k, b, q) == (k + 1)..(Len(b) + Len(q))

LEMMA PlaceTypes ==
  ASSUME NEW S, NEW b \in Seq(S), NEW q \in Seq(S), NEW k \in Nat,
         NEW i \in Places(k, b, q)
  PROVE  i \in Nat /\ Nth(b, q, i) \in S
<1>1. Len(b) \in Nat /\ Len(q) \in Nat
    BY LenProperties
<1>2. i \in Nat /\ i > 0 /\ i <= Len(b) + Len(q)
    BY <1>1 DEF Places
<1>3. CASE i <= Len(b)
  <2>1. i \in 1..Len(b)
    BY <1>1, <1>2, <1>3
  <2> QED
    BY <1>2, <1>3, <2>1, ElementOfSeq DEF Nth
<1>4. CASE ~(i <= Len(b))
  <2>1. i - Len(b) \in 1..Len(q)
    BY <1>1, <1>2, <1>4
  <2> QED
    BY <1>2, <1>4, <2>1, ElementOfSeq DEF Nth
<1> QED
    BY <1>3, <1>4

\* A functor is queued behind all others.
LEMMA PlacesPush ==
  ASSUME NEW S, NEW b \in Seq(S), NEW q \in Seq(S), NEW f \in S,
         NEW k \in Nat, k <= Len(b)
  PROVE  LET n == Len(b) + Len(q) + 1
             r == Append(q, f)
         IN  /\ n \in Nat /\ n \notin Places(k, b, q)
             /\ Places(k, b, r) = Places(k, b, q) \cup {n}
             /\ Nth(b, r, n) = f
             /\ \A i \in Places(k, b, q) : Nth(b, r, i) = Nth(b, q, i)
<1> DEFINE n == Len(b) + Len(q) + 1
           r == Append(q, f)
<1>1. Len(b) \in Nat /\ Len(q) \in Nat
    BY LenProperties
<1>2. /\ Len(r) = Len(q) + 1 /\ r[Len(q) + 1] = f
      /\ \A i \in 1..Len(q) : r[i] = q[i]
    BY AppendProperties
<1> HIDE DEF r
<1>3. n \in Nat /\ n \notin Places(k, b, q)
    BY <1>1 DEF Places
<1>4. Places(k, b, r) = Places(k, b, q) \cup {n}
    BY <1>1, <1>2 DEF Places
<1>5. Nth(b, r, n) = f
  <2>1. ~(n <= Len(b)) /\ n - Len(b) = Len(q) + 1
    BY <1>1
  <2> QED
    BY <1>2, <2>1 DEF Nth
<1>6. ASSUME NEW i \in Places(k, b, q) PROVE Nth(b, r, i) = Nth(b, q, i)
  <2>1. CASE i <= Len(b)
    BY <2>1 DEF Nth
  <2>2. CASE ~(i <= Len(b))
    <3>1. i - Len(b) \in 1..Len(q)
      BY <1>1, <2>2 DEF Places
    <3> QED
      BY <1>2, <2>2, <3>1 DEF Nth
  <2> QED
    BY <2>1, <2>2
<1> QED
    BY <1>3, <1>4, <1>5, <1>6 DEF r

\* The next functor is called.
LEMMA PlacesCall ==
  ASSUME NEW S, NEW b \in Seq(S), NEW q \in Seq(S), NEW k \in Nat, k < Len(b)
  PROVE  /\ k + 1 \in Places(k, b, q)
         /\ Nth(b, q, k + 1) = b[k + 1]
         /\ b[k + 1] \in S
         /\ Places(k + 1, b, q) = Places(k, b, q) \ {k + 1}
<1>1. Len(b) \in Nat /\ Len(q) \in Nat
    BY LenProperties
<1>2. k + 1 \in 1..Len(b) /\ k + 1 <= Len(b)
    BY <1>1
<1>3. k + 1 \in Places(k, b, q)
    BY <1>1 DEF Places
<1>4. Places(k + 1, b, q) = Places(k, b, q) \ {k + 1}
    BY <1>1 DEF Places
<1> QED
    BY <1>2, <1>3, <1>4, ElementOfSeq DEF Nth

\* The queue becomes the vector.
LEMMA PlacesTake ==
  ASSUME NEW S, NEW q \in Seq(S)
  PROVE  /\ Places(0, q, <<>>) = Places(0, <<>>, q)
         /\ \A i \in Places(0, q, <<>>) : Nth(q, <<>>, i) = Nth(<<>>, q, i)
<1>1. Len(q) \in Nat /\ Len(<<>>) = 0
    BY LenProperties, EmptySeq
<1>2. Places(0, q, <<>>) = Places(0, <<>>, q) /\ Places(0, q, <<>>) = 1..Len(q)
    BY <1>1 DEF Places
<1>3. ASSUME NEW i \in 1..Len(q) PROVE Nth(q, <<>>, i) = Nth(<<>>, q, i)
    BY <1>1 DEF Nth
<1> QED
    BY <1>2, <1>3

\* The vector is dropped once all its functors were called.
LEMMA PlacesDrop ==
  ASSUME NEW S, NEW b \in Seq(S), NEW q \in Seq(S)
  PROVE  /\ Len(b) \in Nat
         /\ \A i \in Places(0, <<>>, q) :
              /\ i \in 1..Len(q) /\ i + Len(b) \in Places(Len(b), b, q)
              /\ Nth(<<>>, q, i) = Nth(b, q, i + Len(b))
              /\ Nth(<<>>, q, i) = q[i]
         /\ \A j \in Places(Len(b), b, q) : /\ j - Len(b) \in Places(0, <<>>, q)
                                            /\ j = (j - Len(b)) + Len(b)
<1>1. Len(b) \in Nat /\ Len(q) \in Nat /\ Len(<<>>) = 0
    BY LenProperties, EmptySeq
<1>2. ASSUME NEW i \in Places(0, <<>>, q)
      PROVE  /\ i \in 1..Len(q) /\ i + Len(b) \in Places(Len(b), b, q)
             /\ Nth(<<>>, q, i) = Nth(b, q, i + Len(b))
             /\ Nth(<<>>, q, i) = q[i]
  <2>1. i \in 1..Len(q)
    BY <1>1, <1>2 DEF Places
  <2>2. i + Len(b) \in Places(Len(b), b, q)
    BY <1>1, <2>1 DEF Places
  <2>3. ~(i <= 0) /\ i - 0 = i /\ ~(i + Len(b) <= Len(b)) /\ (i + Len(b)) - Len(b) = i
    BY <1>1, <2>1
  <2> QED
    BY <1>1, <2>1, <2>2, <2>3 DEF Nth
<1>3. ASSUME NEW j \in Places(Len(b), b, q)
      PROVE  /\ j - Len(b) \in Places(0, <<>>, q)
             /\ j = (j - Len(b)) + Len(b)
    BY <1>1 DEF Places
<1> QED
    BY <1>1, <1>2, <1>3

\* A functor names a connection, or is the one that handles the timeouts.
LEMMA FunctorParts ==
  ASSUME NEW f \in Functors
  PROVE  /\ f = <<f[1], f[2]>>
         /\ \/ f[2] \in Conns /\ f[1] \in {"remove", "destroy", "established"}
            \/ f[2] = NoConn /\ f[1] = "timeouts"
BY DEF Functors

\* In terms of the variables
LEMMA QueueTypes ==
  ASSUME TypeOK, NEW l \in Loops
  PROVE  /\ queue[l] \in Seq(Functors) /\ batch[l] \in Seq(Functors)
         /\ called[l] \in Nat /\ called[l] <= Len(batch[l])
         /\ Uncalled(l) = Places(called[l], batch[l], queue[l])
         /\ \A i \in Uncalled(l) : i \in Nat /\ FunctorAt(l, i) \in Functors
         /\ \A i : FunctorAt(l, i) = Nth(batch[l], queue[l], i)
<1>1. /\ queue[l] \in Seq(Functors) /\ batch[l] \in Seq(Functors)
      /\ called[l] \in Nat /\ called[l] <= Len(batch[l])
    BY DEF TypeOK
<1>2. Uncalled(l) = Places(called[l], batch[l], queue[l])
    BY DEF Uncalled, Places
<1>3. \A i : FunctorAt(l, i) = Nth(batch[l], queue[l], i)
    BY DEF FunctorAt, Nth
<1> QED
    BY <1>1, <1>2, <1>3, PlaceTypes

(***************************************************************************)
(* Steps that keep FunctorsOK                                               *)
(***************************************************************************)
\* The connection has a functor to wait for.
Waiting(s) == s.st = "kConnecting" \/ Leaving(s)

\* A step leaves the connection in its stage of life ...
Steady(c) == /\ conn'[c].st = conn[c].st /\ conn'[c].idx = conn[c].idx
             /\ conn'[c].loop = conn[c].loop
             /\ c \in connections' <=> c \in connections

\* ... or takes it to another one in which, as before, no functor is needed.
Idle(c) == ~Waiting(conn[c]) /\ ~Waiting(conn'[c])

LEMMA Mentioned ==
  ASSUME TypeOK, FunctorsOK, NEW l \in Loops, NEW i \in Uncalled(l),
         FunctorAt(l, i)[2] \in Conns
  PROVE  Waiting(conn[FunctorAt(l, i)[2]])
<1>1. FunctorAt(l, i) \in Functors /\ FunctorOK(l, FunctorAt(l, i))
    BY QueueTypes DEF FunctorsOK
<1>2. FunctorAt(l, i)[1] \in {"remove", "destroy", "established"}
    BY <1>1, FunctorParts, ServerAssumption
<1> QED
    BY <1>1, <1>2 DEF FunctorOK, Waiting

\* What FunctorOK says depends on the stage of life alone.
LEMMA SteadyFunctor ==
  ASSUME NEW l \in Loops, NEW f, FunctorOK(l, f), f[2] \in Conns => Steady(f[2])
  PROVE  FunctorOK(l, f)'
BY DEF FunctorOK, Steady, Leaving

LEMMA SteadyWaits ==
  ASSUME NEW c, Steady(c)
  PROVE  Waiting(conn'[c]) <=> Waiting(conn[c])
BY DEF Steady, Waiting, Leaving

LEMMA FunctorsStay ==
  ASSUME TypeOK, FunctorsOK,
         \A l \in Loops : /\ Uncalled(l)' = Uncalled(l)
                          /\ \A i \in Uncalled(l) :
                               FunctorAt(l, i)' = FunctorAt(l, i),
         \A c \in Conns : Steady(c) \/ Idle(c)
  PROVE  FunctorsOK'
<1>1. ASSUME NEW l \in Loops, NEW i \in Uncalled(l)'
      PROVE  FunctorOK(l, FunctorAt(l, i))'
  <2>1. i \in Uncalled(l) /\ FunctorAt(l, i)' = FunctorAt(l, i)
    BY <1>1
  <2>2. FunctorAt(l, i)[2] \in Conns => Steady(FunctorAt(l, i)[2])
    BY <2>1, Mentioned DEF Idle
  <2>3. PICK f : f = FunctorAt(l, i)
    OBVIOUS
  <2>4. FunctorOK(l, f)
    BY <2>1, <2>3 DEF FunctorsOK
  <2>5. FunctorOK(l, f)'
    BY <2>2, <2>3, <2>4, SteadyFunctor
  <2> QED
    BY <2>1, <2>3, <2>5
<1>2. ASSUME NEW l \in Loops, NEW m \in Loops, NEW i \in Uncalled(l)',
             NEW j \in Uncalled(m)', FunctorAt(l, i)'[2] = FunctorAt(m, j)'[2],
             FunctorAt(l, i)'[2] \in Conns
      PROVE  l = m /\ i = j
    BY <1>2 DEF FunctorsOK
<1>3. ASSUME NEW c \in Conns, Waiting(conn'[c])
      PROVE  \E l \in Loops : \E i \in Uncalled(l)' : FunctorAt(l, i)'[2] = c
  <2>1. Waiting(conn[c])
    BY <1>3, SteadyWaits DEF Idle
  <2>2. PICK l \in Loops : \E i \in Uncalled(l) : FunctorAt(l, i)[2] = c
    BY <2>1 DEF FunctorsOK, Waiting
  <2> QED
    BY <2>2
<1> QED
    BY <1>1, <1>2, <1>3 DEF FunctorsOK, Waiting

LEMMA SameQueue ==
  ASSUME NEW l, batch'[l] = batch[l], queue'[l] = queue[l]
  PROVE  /\ \A i : FunctorAt(l, i)' = FunctorAt(l, i)
         /\ called'[l] = called[l] => Uncalled(l)' = Uncalled(l)
BY DEF FunctorAt, Uncalled

\* A functor is queued for a connection that no functor mentions.
LEMMA FunctorsPush ==
  ASSUME TypeOK, FunctorsOK, NEW m \in Loops, NEW f \in Functors,
         queue' = [queue EXCEPT ![m] = Append(@, f)], UNCHANGED <<batch, called>>,
         f[2] \in Conns => ~Waiting(conn[f[2]]),
         FunctorOK(m, f)',
         \A c \in Conns : c # f[2] => Steady(c) \/ Idle(c)
  PROVE  FunctorsOK'
<1> DEFINE b == batch[m]
           q == queue[m]
           k == called[m]
<1>1. PICK n \in Nat : /\ n \notin Uncalled(m)
                       /\ Uncalled(m)' = Uncalled(m) \cup {n}
                       /\ FunctorAt(m, n)' = f
                       /\ \A i \in Uncalled(m) : FunctorAt(m, i)' = FunctorAt(m, i)
  <2>1. /\ q \in Seq(Functors) /\ b \in Seq(Functors) /\ k \in Nat /\ k <= Len(b)
        /\ Uncalled(m) = Places(k, b, q)
        /\ \A i : FunctorAt(m, i) = Nth(b, q, i)
    BY QueueTypes
  <2> DEFINE r == Append(q, f)
  <2>2. queue'[m] = r /\ batch'[m] = b /\ called'[m] = k
    BY DEF TypeOK
  <2> HIDE DEF b, q, k, r
  <2>3. Uncalled(m)' = Places(k, b, r)
    BY <2>2 DEF Uncalled, Places
  <2>4. \A i : FunctorAt(m, i)' = Nth(b, r, i)
    BY ONLY <2>2 DEF FunctorAt, Nth
  <2> QED
    BY <2>1, <2>3, <2>4, PlacesPush DEF r
<1>2. \A l \in Loops : l # m => /\ Uncalled(l)' = Uncalled(l)
                                /\ \A i : FunctorAt(l, i)' = FunctorAt(l, i)
    BY DEF TypeOK, Uncalled, FunctorAt
<1>3. \A l \in Loops : \A i \in Uncalled(l)' :
         \/ i \in Uncalled(l) /\ FunctorAt(l, i)' = FunctorAt(l, i)
         \/ l = m /\ i = n /\ FunctorAt(l, i)' = f
    BY <1>1, <1>2
<1>4. \A l \in Loops : \A i \in Uncalled(l) :
         FunctorAt(l, i)[2] \in Conns => FunctorAt(l, i)[2] # f[2]
    BY Mentioned
<1>5. ASSUME NEW l \in Loops, NEW i \in Uncalled(l)'
      PROVE  FunctorOK(l, FunctorAt(l, i))'
  <2>1. CASE l = m /\ i = n /\ FunctorAt(l, i)' = f
    BY <2>1
  <2>2. CASE i \in Uncalled(l) /\ FunctorAt(l, i)' = FunctorAt(l, i)
    <3>1. FunctorAt(l, i)[2] \in Conns => Steady(FunctorAt(l, i)[2])
      BY <1>4, <2>2, Mentioned DEF Idle
    <3>2. PICK g : g = FunctorAt(l, i)
      OBVIOUS
    <3>3. FunctorOK(l, g)
      BY <2>2, <3>2 DEF FunctorsOK
    <3>4. FunctorOK(l, g)'
      BY <3>1, <3>2, <3>3, SteadyFunctor
    <3> QED
      BY <2>2, <3>2, <3>4
  <2> QED
    BY <1>3, <2>1, <2>2
<1>6. ASSUME NEW l \in Loops, NEW o \in Loops, NEW i \in Uncalled(l)',
             NEW j \in Uncalled(o)', FunctorAt(l, i)'[2] = FunctorAt(o, j)'[2],
             FunctorAt(l, i)'[2] \in Conns
      PROVE  l = o /\ i = j
  <2>1. CASE i \in Uncalled(l) /\ FunctorAt(l, i)' = FunctorAt(l, i)
    <3>1. j \in Uncalled(o) /\ FunctorAt(o, j)' = FunctorAt(o, j)
      BY <1>3, <1>4, <1>6, <2>1
    <3> QED
      BY <1>6, <2>1, <3>1 DEF FunctorsOK
  <2>2. CASE l = m /\ i = n /\ FunctorAt(l, i)' = f
    BY <1>3, <1>4, <1>6, <2>2
  <2> QED
    BY <1>3, <2>1, <2>2
<1>7. ASSUME NEW c \in Conns, Waiting(conn'[c])
      PROVE  \E l \in Loops : \E i \in Uncalled(l)' : FunctorAt(l, i)'[2] = c
  <2>1. CASE c = f[2]
    BY <1>1, <2>1
  <2>2. CASE c # f[2]
    <3>1. Waiting(conn[c])
      BY <1>7, <2>2, SteadyWaits DEF Idle
    <3>2. PICK l \in Loops : \E i \in Uncalled(l) : FunctorAt(l, i)[2] = c
      BY <3>1 DEF FunctorsOK, Waiting
    <3> QED
      BY <1>1, <1>2, <3>2
  <2> QED
    BY <2>1, <2>2
<1> QED
    BY <1>5, <1>6, <1>7 DEF FunctorsOK, Waiting

\* The functor the loop calls next
Due(l) == batch[l][called[l] + 1]

LEMMA DueFacts ==
  ASSUME TypeOK, NEW l \in Loops, called[l] < Len(batch[l])
  PROVE  /\ called[l] + 1 \in Uncalled(l)
         /\ FunctorAt(l, called[l] + 1) = Due(l)
         /\ Due(l) \in Functors
<1>1. /\ queue[l] \in Seq(Functors) /\ batch[l] \in Seq(Functors)
      /\ called[l] \in Nat
      /\ Uncalled(l) = Places(called[l], batch[l], queue[l])
      /\ \A i : FunctorAt(l, i) = Nth(batch[l], queue[l], i)
    BY QueueTypes
<1> QED
    BY <1>1, PlacesCall DEF Due

\* The next functor is called and, unless it is a timeout, leaves its
\* connection with nothing to wait for.
LEMMA FunctorsCall ==
  ASSUME TypeOK, FunctorsOK, NEW l \in Loops, called[l] < Len(batch[l]),
         called' = [called EXCEPT ![l] = @ + 1], UNCHANGED <<batch, queue>>,
         Due(l)[2] \in Conns => ~Waiting(conn'[Due(l)[2]]),
         \A c \in Conns : c # Due(l)[2] => Steady(c)
  PROVE  FunctorsOK'
<1>1. PICK n : n = called[l] + 1
    OBVIOUS
<1>2. n \in Uncalled(l) /\ FunctorAt(l, n) = Due(l)
    BY <1>1, DueFacts
<1>3. Uncalled(l)' = Uncalled(l) \ {n}
  <2>1. /\ queue[l] \in Seq(Functors) /\ batch[l] \in Seq(Functors)
        /\ called[l] \in Nat
        /\ Uncalled(l) = Places(called[l], batch[l], queue[l])
    BY QueueTypes
  <2>2. queue'[l] = queue[l] /\ batch'[l] = batch[l] /\ called'[l] = called[l] + 1
    BY DEF TypeOK
  <2>3. Uncalled(l)' = Places(called[l] + 1, batch[l], queue[l])
    BY <2>2 DEF Uncalled, Places
  <2> QED
    BY <1>1, <2>1, <2>3, PlacesCall
<1>4. \A m \in Loops : m # l => Uncalled(m)' = Uncalled(m)
    BY DEF TypeOK, Uncalled
<1>5. \A m \in Loops : \A i : FunctorAt(m, i)' = FunctorAt(m, i)
    BY DEF FunctorAt
<1>6. \A m \in Loops : \A i \in Uncalled(m)' : i \in Uncalled(m) /\ ~(m = l /\ i = n)
    BY <1>3, <1>4
<1>7. ASSUME NEW m \in Loops, NEW i \in Uncalled(m)', FunctorAt(m, i)[2] \in Conns
      PROVE  FunctorAt(m, i)[2] # Due(l)[2]
    BY <1>2, <1>6, <1>7 DEF FunctorsOK
<1>8. ASSUME NEW m \in Loops, NEW i \in Uncalled(m)'
      PROVE  FunctorOK(m, FunctorAt(m, i))'
  <2>1. FunctorAt(m, i)[2] \in Conns => Steady(FunctorAt(m, i)[2])
    BY <1>7
  <2>2. PICK g : g = FunctorAt(m, i)
    OBVIOUS
  <2>3. FunctorOK(m, g)
    BY <1>6, <2>2 DEF FunctorsOK
  <2>4. FunctorOK(m, g)'
    BY <2>1, <2>2, <2>3, SteadyFunctor
  <2> QED
    BY <1>5, <2>2, <2>4
<1>9. ASSUME NEW m \in Loops, NEW o \in Loops, NEW i \in Uncalled(m)',
             NEW j \in Uncalled(o)', FunctorAt(m, i)'[2] = FunctorAt(o, j)'[2],
             FunctorAt(m, i)'[2] \in Conns
      PROVE  m = o /\ i = j
    BY <1>5, <1>6, <1>9 DEF FunctorsOK
<1>10. ASSUME NEW c \in Conns, Waiting(conn'[c])
       PROVE  \E m \in Loops : \E i \in Uncalled(m)' : FunctorAt(m, i)'[2] = c
  <2>1. c # Due(l)[2]
    BY <1>10
  <2>2. Waiting(conn[c])
    BY <1>10, <2>1, SteadyWaits
  <2>3. PICK m \in Loops : \E i \in Uncalled(m) : FunctorAt(m, i)[2] = c
    BY <2>2 DEF FunctorsOK, Waiting
  <2>4. PICK i \in Uncalled(m) : FunctorAt(m, i)[2] = c
    BY <2>3
  <2>5. ~(m = l /\ i = n)
    BY <1>2, <2>1, <2>4
  <2>6. i \in Uncalled(m)'
    BY <1>3, <1>4, <2>5
  <2> QED
    BY <1>5, <2>4, <2>6
<1> QED
    BY <1>8, <1>9, <1>10 DEF FunctorsOK, Waiting

\* The vector of functors is dropped.
LEMMA FunctorsDrop ==
  ASSUME TypeOK, FunctorsOK, NEW l \in Loops, called[l] = Len(batch[l]),
         batch' = [batch EXCEPT ![l] = <<>>], called' = [called EXCEPT ![l] = 0],
         UNCHANGED queue,
         \A c \in Conns : Steady(c) \/ Idle(c)
  PROVE  FunctorsOK'
<1>1. PICK b, q : b = batch[l] /\ q = queue[l]
    OBVIOUS
<1> DEFINE n == Len(b)
           D(m) == IF m = l THEN n ELSE 0
<1>2. /\ q \in Seq(Functors) /\ b \in Seq(Functors) /\ called[l] = n
      /\ Uncalled(l) = Places(n, b, q)
      /\ \A i : FunctorAt(l, i) = Nth(b, q, i)
    BY <1>1, QueueTypes
<1>3. batch'[l] = <<>> /\ queue'[l] = q /\ called'[l] = 0
    BY <1>1 DEF TypeOK
<1>4. Uncalled(l)' = Places(0, <<>>, q)
    BY ONLY <1>3 DEF Uncalled, Places
<1>5. \A i : FunctorAt(l, i)' = Nth(<<>>, q, i)
    BY ONLY <1>3 DEF FunctorAt, Nth
<1>6. /\ n \in Nat
      /\ \A i \in Uncalled(l)' : /\ i \in Nat /\ i + n \in Uncalled(l)
                                 /\ FunctorAt(l, i)' = FunctorAt(l, i + n)
      /\ \A j \in Uncalled(l) : \E i \in Uncalled(l)' : j = i + n
    BY <1>2, <1>4, <1>5, PlacesDrop
<1>7. \A m \in Loops : m # l =>
        /\ Uncalled(m)' = Uncalled(m)
        /\ \A i \in Uncalled(m) : i \in Nat /\ FunctorAt(m, i)' = FunctorAt(m, i)
  <2>1. ASSUME NEW m \in Loops, m # l
        PROVE  batch'[m] = batch[m] /\ queue'[m] = queue[m] /\ called'[m] = called[m]
    BY <2>1 DEF TypeOK
  <2> QED
    BY <2>1, QueueTypes, SameQueue
<1>8. /\ \A m \in Loops : \A i \in Uncalled(m)' :
           /\ i \in Nat /\ i + D(m) \in Uncalled(m)
           /\ FunctorAt(m, i)' = FunctorAt(m, i + D(m))
      /\ \A m \in Loops : \A j \in Uncalled(m) : \E i \in Uncalled(m)' : j = i + D(m)
  <2>1. ASSUME NEW m \in Loops
        PROVE  /\ \A i \in Uncalled(m)' :
                    /\ i \in Nat /\ i + D(m) \in Uncalled(m)
                    /\ FunctorAt(m, i)' = FunctorAt(m, i + D(m))
               /\ \A j \in Uncalled(m) : \E i \in Uncalled(m)' : j = i + D(m)
    <3>1. CASE m = l
      BY <1>6, <3>1
    <3>2. CASE m # l
      <4>1. \A i \in Nat : i + 0 = i
        OBVIOUS
      <4> QED
        BY <1>7, <3>2, <4>1
    <3> QED
      BY <3>1, <3>2
  <2> QED
    BY <2>1
<1>9. \A m \in Loops : D(m) \in Nat
    BY <1>6
<1> HIDE DEF D
<1>10. ASSUME NEW m \in Loops, NEW i \in Uncalled(m)'
       PROVE  FunctorOK(m, FunctorAt(m, i))'
  <2>1. PICK g : g = FunctorAt(m, i + D(m))
    OBVIOUS
  <2>2. i + D(m) \in Uncalled(m) /\ FunctorAt(m, i)' = g
    BY <1>8, <2>1
  <2>3. g[2] \in Conns => Steady(g[2])
    BY <2>1, <2>2, Mentioned DEF Idle
  <2>4. FunctorOK(m, g)
    BY <2>1, <2>2 DEF FunctorsOK
  <2>5. FunctorOK(m, g)'
    BY <2>3, <2>4, SteadyFunctor
  <2> QED
    BY <2>2, <2>5
<1>11. ASSUME NEW m \in Loops, NEW o \in Loops, NEW i \in Uncalled(m)',
              NEW j \in Uncalled(o)', FunctorAt(m, i)'[2] = FunctorAt(o, j)'[2],
              FunctorAt(m, i)'[2] \in Conns
       PROVE  m = o /\ i = j
  <2>1. /\ i \in Nat /\ i + D(m) \in Uncalled(m) /\ j \in Nat /\ j + D(o) \in Uncalled(o)
        /\ FunctorAt(m, i)' = FunctorAt(m, i + D(m))
        /\ FunctorAt(o, j)' = FunctorAt(o, j + D(o))
    BY <1>8, <1>11
  <2>2. m = o /\ i + D(m) = j + D(o)
    BY <1>11, <2>1 DEF FunctorsOK
  <2>3. D(m) \in Nat
    BY <1>9
  <2> QED
    BY <2>1, <2>2, <2>3
<1>12. ASSUME NEW c \in Conns, Waiting(conn'[c])
       PROVE  \E m \in Loops : \E i \in Uncalled(m)' : FunctorAt(m, i)'[2] = c
  <2>1. Waiting(conn[c])
    BY <1>12, SteadyWaits DEF Idle
  <2>2. PICK m \in Loops : \E i \in Uncalled(m) : FunctorAt(m, i)[2] = c
    BY <2>1 DEF FunctorsOK, Waiting
  <2>3. PICK j \in Uncalled(m) : FunctorAt(m, j)[2] = c
    BY <2>2
  <2>4. PICK i \in Uncalled(m)' : j = i + D(m)
    BY <1>8
  <2> QED
    BY <1>8, <2>3, <2>4
<1> QED
    BY <1>10, <1>11, <1>12 DEF FunctorsOK, Waiting

\* removeConnectionInLoop() is called and queues connectDestroyed().
LEMMA FunctorsRemove ==
  ASSUME TypeOK, FunctorsOK, called[Main] < Len(batch[Main]),
         Due(Main)[1] = "remove", NEW c \in Conns, Due(Main)[2] = c,
         conn[c].loop \in IoLoops,
         called' = [called EXCEPT ![Main] = @ + 1],
         queue' = [queue EXCEPT ![conn[c].loop] = Append(@, <<"destroy", c>>)],
         connections' = connections \ {c}, UNCHANGED <<batch, conn>>
  PROVE  FunctorsOK'
<1> DEFINE f == <<"destroy", c>>
<1>1. PICK m : m = conn[c].loop
    OBVIOUS
<1>2. m \in Loops /\ Main \in Loops /\ m # Main /\ f \in Functors
    BY <1>1, ServerAssumption DEF Loops, IoLoops, Main, Functors
<1>3. PICK k : k = called[Main] + 1
    OBVIOUS
<1>4. k \in Uncalled(Main) /\ FunctorAt(Main, k) = Due(Main)
    BY <1>2, <1>3, DueFacts
<1>5. Uncalled(Main)' = Uncalled(Main) \ {k}
  <2>1. /\ queue[Main] \in Seq(Functors) /\ batch[Main] \in Seq(Functors)
        /\ called[Main] \in Nat
        /\ Uncalled(Main) = Places(called[Main], batch[Main], queue[Main])
    BY <1>2, QueueTypes
  <2>2. /\ queue'[Main] = queue[Main] /\ batch'[Main] = batch[Main]
        /\ called'[Main] = called[Main] + 1
    BY <1>1, <1>2 DEF TypeOK
  <2>3. Uncalled(Main)' = Places(called[Main] + 1, batch[Main], queue[Main])
    BY ONLY <2>2 DEF Uncalled, Places
  <2> QED
    BY <1>3, <2>1, <2>3, PlacesCall
<1>6. PICK n \in Nat : /\ n \notin Uncalled(m)
                       /\ Uncalled(m)' = Uncalled(m) \cup {n}
                       /\ FunctorAt(m, n)' = f
                       /\ \A i \in Uncalled(m) : FunctorAt(m, i)' = FunctorAt(m, i)
  <2>1. PICK b, q, j, r : b = batch[m] /\ q = queue[m] /\ j = called[m]
                          /\ r = Append(q, f)
    OBVIOUS
  <2>2. /\ q \in Seq(Functors) /\ b \in Seq(Functors) /\ j \in Nat /\ j <= Len(b)
        /\ Uncalled(m) = Places(j, b, q)
        /\ \A i : FunctorAt(m, i) = Nth(b, q, i)
    BY <1>2, <2>1, QueueTypes
  <2>3. queue'[m] = r /\ batch'[m] = b /\ called'[m] = j
    BY <1>1, <1>2, <2>1 DEF TypeOK
  <2>4. Uncalled(m)' = Places(j, b, r)
    BY ONLY <2>3 DEF Uncalled, Places
  <2>5. \A i : FunctorAt(m, i)' = Nth(b, r, i)
    BY ONLY <2>3 DEF FunctorAt, Nth
  <2>6. f \in Functors /\ r = Append(q, f)
    BY <1>2, <2>1
  <2> HIDE DEF f
  <2> QED
    BY <2>2, <2>4, <2>5, <2>6, PlacesPush, SMTT(30)
<1>7. \A l \in Loops : l # m =>
        /\ \A i : FunctorAt(l, i)' = FunctorAt(l, i)
        /\ l # Main => Uncalled(l)' = Uncalled(l)
  <2>1. ASSUME NEW l \in Loops, l # m
        PROVE  batch'[l] = batch[l] /\ queue'[l] = queue[l]
               /\ (l # Main => called'[l] = called[l])
    BY <1>1, <1>2, <2>1 DEF TypeOK
  <2> QED
    BY <2>1, SameQueue
<1>8. \A l \in Loops : \A i \in Uncalled(l)' :
         \/ /\ i \in Uncalled(l) /\ FunctorAt(l, i)' = FunctorAt(l, i)
            /\ ~(l = Main /\ i = k)
         \/ l = m /\ i = n /\ FunctorAt(l, i)' = f
    BY <1>2, <1>5, <1>6, <1>7
<1>9. \A l \in Loops : \A i \in Uncalled(l) :
         FunctorAt(l, i)[2] = c => l = Main /\ i = k
    BY <1>2, <1>4 DEF FunctorsOK
<1>10. \A d \in Conns : d # c => Steady(d)
    BY DEF Steady
<1>11. FunctorOK(Main, Due(Main))
    BY <1>2, <1>4 DEF FunctorsOK
<1>12. Leaving(conn[c])
    BY <1>11 DEF FunctorOK
<1>13. FunctorOK(m, f)'
    BY <1>1, <1>12 DEF FunctorOK, Leaving
<1>14. ASSUME NEW l \in Loops, NEW i \in Uncalled(l)'
       PROVE  FunctorOK(l, FunctorAt(l, i))'
  <2>1. CASE l = m /\ i = n /\ FunctorAt(l, i)' = f
    BY <1>13, <2>1
  <2>2. CASE /\ i \in Uncalled(l) /\ FunctorAt(l, i)' = FunctorAt(l, i)
             /\ ~(l = Main /\ i = k)
    <3>1. FunctorAt(l, i)[2] \in Conns => Steady(FunctorAt(l, i)[2])
      BY <1>9, <1>10, <2>2
    <3>2. PICK g : g = FunctorAt(l, i)
      OBVIOUS
    <3>3. FunctorOK(l, g)
      BY <2>2, <3>2 DEF FunctorsOK
    <3>4. FunctorOK(l, g)'
      BY <3>1, <3>2, <3>3, SteadyFunctor
    <3> QED
      BY <2>2, <3>2, <3>4
  <2> QED
    BY <1>8, <2>1, <2>2
<1>15. ASSUME NEW l \in Loops, NEW o \in Loops, NEW i \in Uncalled(l)',
              NEW j \in Uncalled(o)', FunctorAt(l, i)'[2] = FunctorAt(o, j)'[2],
              FunctorAt(l, i)'[2] \in Conns
       PROVE  l = o /\ i = j
  <2>1. CASE /\ i \in Uncalled(l) /\ FunctorAt(l, i)' = FunctorAt(l, i)
             /\ ~(l = Main /\ i = k)
    <3>1. j \in Uncalled(o) /\ FunctorAt(o, j)' = FunctorAt(o, j)
      BY <1>8, <1>9, <1>15, <2>1
    <3> QED
      BY <1>15, <2>1, <3>1 DEF FunctorsOK
  <2>2. CASE l = m /\ i = n /\ FunctorAt(l, i)' = f
    <3>1. FunctorAt(o, j)'[2] = c
      BY <1>15, <2>2
    <3> QED
      BY <1>8, <1>9, <2>2, <3>1
  <2> QED
    BY <1>8, <2>1, <2>2
<1>16. ASSUME NEW d \in Conns, Waiting(conn'[d])
       PROVE  \E l \in Loops : \E i \in Uncalled(l)' : FunctorAt(l, i)'[2] = d
  <2>1. CASE d = c
    BY <1>2, <1>6, <2>1
  <2>2. CASE d # c
    <3>1. PICK l \in Loops : \E i \in Uncalled(l) : FunctorAt(l, i)[2] = d
      BY <1>16 DEF FunctorsOK, Waiting
    <3>2. PICK i \in Uncalled(l) : FunctorAt(l, i)[2] = d
      BY <3>1
    <3>3. ~(l = Main /\ i = k)
      BY <1>4, <2>2, <3>2
    <3>4. i \in Uncalled(l)' /\ FunctorAt(l, i)' = FunctorAt(l, i)
      BY <1>2, <1>5, <1>6, <1>7, <3>3
    <3> QED
      BY <3>2, <3>4
  <2> QED
    BY <2>1, <2>2
<1> QED
    BY <1>14, <1>15, <1>16 DEF FunctorsOK, Waiting

(***************************************************************************)
(* Steps that change no connection, or only what its peer sent              *)
(***************************************************************************)
\* TypeOK without what ActiveOK and TimersOK say
Types ==
  /\ conn \in [Conns -> ConnType]
  /\ connections \subseteq Conns
  /\ nextLoop \in IoLoops
  /\ backlog \in Seq(Conns)
  /\ listenEdge \in BOOLEAN
  /\ accepting \in BOOLEAN
  /\ channels \in [IoLoops -> [Fds -> Conns \cup {NoConn}]]
  /\ active \in [IoLoops -> SUBSET Conns]
  /\ timers \in [IoLoops -> Seq(Conns)]
  /\ due \in [IoLoops -> Nat]
  /\ \A l \in IoLoops : due[l] <= Len(timers[l])
  /\ timerfd \in [IoLoops -> {"idle", "armed", "expired"}]
  /\ timerActive \in [IoLoops -> BOOLEAN]
  /\ queue \in [Loops -> Seq(Functors)]
  /\ batch \in [Loops -> Seq(Functors)]
  /\ called \in [Loops -> Nat]
  /\ \A l \in Loops : called[l] <= Len(batch[l])
  /\ lpc \in [Loops -> {"poll", "dispatch", "run", "timeouts", "hung"}]

LEMMA TypesSuffice == Types /\ ActiveOK /\ TimersOK => TypeOK
<1> SUFFICES ASSUME Types, ActiveOK, TimersOK PROVE TypeOK
    OBVIOUS
<1>1. ASSUME NEW l \in IoLoops, NEW c \in active[l] \cup ToSet(timers[l])
      PROVE  conn[c].loop = l
  <2>1. CASE c \in active[l]
    BY <2>1 DEF ActiveOK
  <2>2. CASE c \in ToSet(timers[l])
    <3>1. PICK i \in DOMAIN timers[l] : timers[l][i] = c
      BY <2>2 DEF ToSet
    <3> QED
      BY <3>1 DEF TimersOK
  <2> QED
    BY <1>1, <2>1, <2>2
<1> QED
    BY <1>1 DEF Types, TypeOK

LEMMA TypesNext == Types' /\ ActiveOK' /\ TimersOK' => TypeOK'
BY TypesSuffice, PTL

LEMMA TypesHold == TypeOK => Types
BY DEF TypeOK, Types

Calm(c) == /\ conn'[c].st = conn[c].st /\ conn'[c].idx = conn[c].idx
           /\ conn'[c].loop = conn[c].loop /\ conn'[c].fd = conn[c].fd
           /\ conn'[c].alive = conn[c].alive /\ conn'[c].end = conn[c].end
           /\ conn'[c].out = conn[c].out /\ conn'[c].ev = conn[c].ev

\* What only its timer and its peer change
Marks(c) == conn'[c].tmo = conn[c].tmo /\ conn'[c].rst = conn[c].rst

\* A step that sets neither
Unmarked(c) == (conn'[c].tmo => conn[c].tmo) /\ (conn'[c].rst => conn[c].rst)

LEMMA CalmKeeps ==
  ASSUME Inv, \A c \in Conns : Calm(c)
  PROVE  /\ FdsOK'
         /\ UNCHANGED channels => ChannelsOK'
         /\ UNCHANGED backlog => BacklogOK'
         /\ UNCHANGED connections => MapOK'
         /\ UNCHANGED timers => TimersOK'
         /\ UNCHANGED <<connections, queue, batch, called>> => FunctorsOK'
         /\ (\A l \in IoLoops : lpc'[l] = "hung" => lpc[l] = "hung") => HungOK'
<1>a. TypeOK
    BY DEF Inv
<1>1. FdsOK'
    BY DEF Inv, FdsOK, Live, Calm
<1>2. ASSUME UNCHANGED channels PROVE ChannelsOK'
  <2>1. \A c \in Conns : Listed(conn'[c]) <=> Listed(conn[c])
    BY DEF Listed, Leaving, Calm
  <2> QED
    BY <1>2, <2>1 DEF Inv, ChannelsOK, Calm
<1>3. ASSUME UNCHANGED backlog PROVE BacklogOK'
  <2>1. \A i \in DOMAIN backlog : backlog[i] \in Conns
    BY <1>a, ElementOfSeq DEF TypeOK
  <2> QED
    BY <1>3, <2>1 DEF Inv, BacklogOK, Calm
<1>4. ASSUME UNCHANGED connections PROVE MapOK'
    BY <1>4 DEF Inv, MapOK, Listed, Leaving, Calm
<1>5. ASSUME UNCHANGED timers PROVE TimersOK'
  <2>1. \A l \in IoLoops : \A i \in DOMAIN timers[l] : timers[l][i] \in Conns
    BY <1>a, ElementOfSeq DEF TypeOK
  <2> QED
    BY <1>5, <2>1 DEF Inv, TimersOK, Calm
<1>6. ASSUME UNCHANGED <<connections, queue, batch, called>> PROVE FunctorsOK'
  <2>1. \A l \in Loops : /\ Uncalled(l)' = Uncalled(l)
                         /\ \A i \in Uncalled(l) : FunctorAt(l, i)' = FunctorAt(l, i)
    BY <1>6, SameQueue
  <2>2. \A c \in Conns : Steady(c)
    BY <1>6 DEF Calm, Steady
  <2> QED
    BY <1>a, <2>1, <2>2, FunctorsStay DEF Inv
<1>7. ASSUME \A l \in IoLoops : lpc'[l] = "hung" => lpc[l] = "hung" PROVE HungOK'
    BY <1>7 DEF Inv, HungOK, Calm
<1> QED
    BY <1>1, <1>2, <1>3, <1>4, <1>5, <1>6, <1>7

LEMMA SameConns ==
  ASSUME Inv, UNCHANGED conn
  PROVE  /\ ConnsOK' /\ \A c \in Conns : Calm(c)
         /\ UNCHANGED active => ActiveOK'
         /\ UNCHANGED active /\ (crash' = "no" => crash = "no") => DataIsWatched'
<1>1. ConnsOK'
    BY DEF Inv, ConnsOK
<1>2. \A c \in Conns : Calm(c)
    BY DEF Calm
<1>3. ASSUME UNCHANGED active PROVE ActiveOK'
    BY <1>3 DEF Inv, ActiveOK
<1>4. ASSUME UNCHANGED active, crash' = "no" => crash = "no" PROVE DataIsWatched'
    BY <1>4 DEF Inv, DataIsWatched
<1> QED
    BY <1>1, <1>2, <1>3, <1>4

LEMMA LoopFacts ==
  /\ Main \in Loops /\ IoLoops \subseteq Loops /\ Main \notin IoLoops
BY ServerAssumption DEF Main, Loops, IoLoops

LEMMA ClockKeeps ==
  ASSUME Inv, NEW l \in IoLoops, Clock(l)
  PROVE  Inv'
<1>0. Types
    BY TypesHold DEF Inv
<1>1. /\ UNCHANGED <<conn, channels, connections, nextLoop, backlog, listenEdge,
                     accepting, timers, active, timerActive, batch, called, lpc,
                     queue, crash>>
    BY DEF Clock, TimerDue, TimerExpires, connVars, mainVars, loopVars
<1>2. Types'
  <2>1. CASE TimerDue(l)
    <3>1. /\ due' \in [IoLoops -> Nat] /\ UNCHANGED timerfd
          /\ \A m \in IoLoops : due'[m] <= Len(timers[m])
      <4>1. \A m \in IoLoops : due[m] \in Nat /\ Len(timers[m]) \in Nat
        BY <1>0, LenProperties DEF Types
      <4> QED
        BY <1>0, <2>1, <4>1 DEF Types, TimerDue
    <3> QED
      BY <1>0, <1>1, <3>1 DEF Types
  <2>2. CASE TimerExpires(l)
    <3>1. UNCHANGED due /\ timerfd' \in [IoLoops -> {"idle", "armed", "expired"}]
      BY <1>0, <2>2 DEF Types, TimerExpires
    <3> QED
      BY <1>0, <1>1, <3>1 DEF Types
  <2> QED
    BY <2>1, <2>2 DEF Clock
<1>3. ConnsOK' /\ ActiveOK' /\ DataIsWatched' /\ \A c \in Conns : Calm(c)
    BY <1>1, SameConns
<1>4. /\ FdsOK' /\ ChannelsOK' /\ BacklogOK' /\ MapOK' /\ TimersOK' /\ FunctorsOK'
      /\ HungOK'
    BY <1>1, <1>3, CalmKeeps
<1>5. LoopsOK'
    BY <1>1 DEF Inv, LoopsOK
<1>6. TypeOK'
    BY <1>2, <1>3, <1>4, TypesNext
<1> QED
    BY <1>3, <1>4, <1>5, <1>6 DEF Inv

\* The main loop's poll
LEMMA PollMainKeeps ==
  ASSUME Inv, PollMain
  PROVE  Inv'
<1>0. Types
    BY TypesHold DEF Inv
<1>1. /\ UNCHANGED <<conn, channels, connections, nextLoop, backlog, timers, due,
                     timerfd, active, timerActive, queue, batch, called, crash>>
      /\ lpc[Main] = "poll" /\ lpc' = [lpc EXCEPT ![Main] = "dispatch"]
    BY DEF PollMain, At, connVars, timerVars
<1>2. /\ lpc' \in [Loops -> {"poll", "dispatch", "run", "timeouts", "hung"}]
      /\ listenEdge' \in BOOLEAN /\ accepting' \in BOOLEAN
    BY <1>0, <1>1 DEF Types, PollMain
<1>3. Types'
    BY <1>0, <1>1, <1>2 DEF Types
<1>4. \A l \in Loops : IF l = Main THEN lpc'[l] = "dispatch" ELSE lpc'[l] = lpc[l]
    BY <1>0, <1>1 DEF Types
<1>5. ConnsOK' /\ ActiveOK' /\ DataIsWatched' /\ \A c \in Conns : Calm(c)
    BY <1>1, SameConns
<1>6. /\ FdsOK' /\ ChannelsOK' /\ BacklogOK' /\ MapOK' /\ TimersOK' /\ FunctorsOK'
      /\ HungOK'
    BY <1>1, <1>4, <1>5, CalmKeeps, LoopFacts
<1>7. LoopsOK'
    BY <1>1, <1>4, LoopFacts DEF Inv, LoopsOK
<1>8. TypeOK'
    BY <1>3, <1>5, <1>6, TypesNext
<1> QED
    BY <1>5, <1>6, <1>7, <1>8 DEF Inv

\* The timeouts are queued.
LEMMA DispatchTimerKeeps ==
  ASSUME Inv, NEW l \in IoLoops, DispatchTimer(l)
  PROVE  Inv'
<1> DEFINE f == <<"timeouts", NoConn>>
<1>0. Types /\ TypeOK /\ FunctorsOK
    BY TypesHold DEF Inv
<1>1. /\ UNCHANGED <<conn, channels, connections, nextLoop, backlog, listenEdge,
                     accepting, timers, due, active, batch, called, lpc, crash>>
      /\ queue' = [queue EXCEPT ![l] = Append(@, f)]
      /\ timerActive' = [timerActive EXCEPT ![l] = FALSE]
      /\ timerfd' = [timerfd EXCEPT ![l] = IF @ = "expired" THEN "idle" ELSE @]
    BY DEF DispatchTimer, connVars, mainVars
<1>2. l \in Loops /\ f \in Functors /\ f[2] = NoConn /\ NoConn \notin Conns
    BY LoopFacts, ServerAssumption DEF Functors
<1> HIDE DEF f
<1>3. Types'
  <2>1. queue[l] \in Seq(Functors) /\ Append(queue[l], f) \in Seq(Functors)
    BY <1>0, <1>2, AppendProperties DEF Types
  <2>2. /\ queue' \in [Loops -> Seq(Functors)]
        /\ timerActive' \in [IoLoops -> BOOLEAN]
        /\ timerfd' \in [IoLoops -> {"idle", "armed", "expired"}]
    BY <1>0, <1>1, <2>1 DEF Types
  <2> QED
    BY <1>0, <1>1, <2>2 DEF Types
<1>4. ConnsOK' /\ ActiveOK' /\ DataIsWatched' /\ \A c \in Conns : Calm(c)
    BY <1>1, SameConns
<1>5. /\ FdsOK' /\ ChannelsOK' /\ BacklogOK' /\ MapOK' /\ TimersOK'
      /\ HungOK'
    BY <1>1, <1>4, CalmKeeps
<1>6. FunctorsOK'
  <2>1. FunctorOK(l, f)'
    BY <1>2 DEF FunctorOK
  <2>2. \A c \in Conns : Steady(c)
    BY <1>1 DEF Steady
  <2> QED
    BY <1>0, <1>1, <1>2, <2>1, <2>2, FunctorsPush
<1>7. LoopsOK'
    BY <1>1 DEF Inv, LoopsOK
<1>8. TypeOK'
    BY <1>3, <1>4, <1>5, TypesNext
<1> QED
    BY <1>4, <1>5, <1>6, <1>7, <1>8 DEF Inv

\* doPendingFunctors() takes the queue.
LEMMA TakeFunctorsKeeps ==
  ASSUME Inv, NEW l \in Loops, TakeFunctors(l)
  PROVE  Inv'
<1>0. Types /\ TypeOK /\ FunctorsOK
    BY TypesHold DEF Inv
<1>1. /\ UNCHANGED <<conn, channels, connections, nextLoop, backlog, listenEdge,
                     accepting, timers, due, timerfd, active, timerActive, called,
                     crash>>
      /\ lpc[l] = "dispatch" /\ (l # Main => active[l] = {})
      /\ batch' = [batch EXCEPT ![l] = queue[l]]
      /\ queue' = [queue EXCEPT ![l] = <<>>]
      /\ lpc' = [lpc EXCEPT ![l] = "run"]
    BY DEF TakeFunctors, At, connVars, mainVars, timerVars
<1>2. batch[l] = <<>> /\ called[l] = 0
    BY <1>1 DEF Inv, LoopsOK
<1>3. queue[l] \in Seq(Functors) /\ <<>> \in Seq(Functors) /\ Len(queue[l]) \in Nat
    BY <1>0, LenProperties, EmptySeq DEF Types
<1>4. /\ batch'[l] = queue[l] /\ queue'[l] = <<>> /\ lpc'[l] = "run"
      /\ \A m \in Loops : m # l => /\ batch'[m] = batch[m] /\ queue'[m] = queue[m]
                                   /\ lpc'[m] = lpc[m]
    BY <1>0, <1>1 DEF Types
<1>5. Types'
  <2>1. /\ lpc' \in [Loops -> {"poll", "dispatch", "run", "timeouts", "hung"}]
        /\ queue' \in [Loops -> Seq(Functors)] /\ batch' \in [Loops -> Seq(Functors)]
    BY <1>0, <1>1, <1>3 DEF Types
  <2>2. \A m \in Loops : called'[m] <= Len(batch'[m])
    BY <1>0, <1>1, <1>2, <1>3, <1>4 DEF Types
  <2> QED
    BY <1>0, <1>1, <2>1, <2>2 DEF Types
<1>6. ConnsOK' /\ ActiveOK' /\ DataIsWatched' /\ \A c \in Conns : Calm(c)
    BY <1>1, SameConns
<1>7. /\ FdsOK' /\ ChannelsOK' /\ BacklogOK' /\ MapOK' /\ TimersOK'
      /\ HungOK'
    BY <1>1, <1>4, <1>6, CalmKeeps, LoopFacts
<1>8. FunctorsOK'
  <2>1. ASSUME NEW m \in Loops
        PROVE  /\ Uncalled(m)' = Uncalled(m)
               /\ \A i \in Uncalled(m) : FunctorAt(m, i)' = FunctorAt(m, i)
    <3>1. CASE m # l
      BY <1>1, <1>4, <3>1, SameQueue
    <3>2. CASE m = l
      <4>1. PICK q : q = queue[l]
        OBVIOUS
      <4>2. /\ Uncalled(l) = Places(0, <<>>, q)
            /\ \A i : FunctorAt(l, i) = Nth(<<>>, q, i)
        BY <1>0, <1>2, <4>1, QueueTypes
      <4>3. batch'[l] = q /\ queue'[l] = <<>> /\ called'[l] = 0
        BY <1>1, <1>2, <1>4, <4>1
      <4>4. Uncalled(l)' = Places(0, q, <<>>)
        BY ONLY <4>3 DEF Uncalled, Places
      <4>5. \A i : FunctorAt(l, i)' = Nth(q, <<>>, i)
        BY ONLY <4>3 DEF FunctorAt, Nth
      <4> QED
        BY <1>3, <3>2, <4>1, <4>2, <4>4, <4>5, PlacesTake
    <3> QED
      BY <3>1, <3>2
  <2>2. \A c \in Conns : Steady(c)
    BY <1>1 DEF Steady
  <2> QED
    BY <1>0, <2>1, <2>2, FunctorsStay
<1>9. LoopsOK'
    BY <1>1, <1>4, LoopFacts DEF Inv, LoopsOK
<1>10. TypeOK'
    BY <1>5, <1>6, <1>7, TypesNext
<1> QED
    BY <1>6, <1>7, <1>8, <1>9, <1>10 DEF Inv

\* handleTimeoutEvents() is called.
LEMMA RunTimeoutsKeeps ==
  ASSUME Inv, NEW l \in IoLoops, RunTimeouts(l)
  PROVE  Inv'
<1>0. Types
    BY TypesHold DEF Inv
<1>1. /\ UNCHANGED <<conn, channels, connections, nextLoop, backlog, listenEdge,
                     accepting, timers, due, timerfd, active, timerActive, queue,
                     batch, called, crash>>
      /\ lpc[l] = "run" /\ lpc' = [lpc EXCEPT ![l] = "timeouts"]
      /\ called[l] < Len(batch[l]) /\ batch[l][called[l] + 1][1] = "timeouts"
    BY DEF RunTimeouts, Calls, At, connVars, mainVars, timerVars
<1>2. /\ l \in Loops /\ lpc'[l] = "timeouts"
      /\ \A m \in Loops : m # l => lpc'[m] = lpc[m]
    BY <1>0, <1>1, LoopFacts DEF Types
<1>3. Types'
  <2>1. lpc' \in [Loops -> {"poll", "dispatch", "run", "timeouts", "hung"}]
    BY <1>0, <1>1 DEF Types
  <2> QED
    BY <1>0, <1>1, <2>1 DEF Types
<1>4. ConnsOK' /\ ActiveOK' /\ DataIsWatched' /\ \A c \in Conns : Calm(c)
    BY <1>1, SameConns
<1>5. /\ FdsOK' /\ ChannelsOK' /\ BacklogOK' /\ MapOK' /\ TimersOK' /\ FunctorsOK'
      /\ HungOK'
    BY <1>1, <1>2, <1>4, CalmKeeps, LoopFacts
<1>6. LoopsOK'
  <2>1. LoopsOK
    BY DEF Inv
  <2>2. active[l] = {}
    BY <1>1, <2>1 DEF LoopsOK
  <2> QED
    BY <1>1, <1>2, <2>1, <2>2, LoopFacts DEF LoopsOK
<1>7. TypeOK'
    BY <1>3, <1>4, <1>5, TypesNext
<1> QED
    BY <1>4, <1>5, <1>6, <1>7 DEF Inv

\* One more functor of loop l was called.
LEMMA CalledTypes ==
  ASSUME Types, NEW l \in Loops, called[l] < Len(batch[l]),
         called' = [called EXCEPT ![l] = @ + 1], UNCHANGED batch
  PROVE  /\ called' \in [Loops -> Nat]
         /\ \A m \in Loops : called'[m] <= Len(batch'[m])
         /\ \A m \in Loops : m # l => called'[m] = called[m]
<1>1. \A m \in Loops : called[m] \in Nat /\ Len(batch[m]) \in Nat
    BY LenProperties DEF Types
<1> QED
    BY <1>1 DEF Types

\* handleTimeoutEvents() returns.
LEMMA TimeoutsDoneKeeps ==
  ASSUME Inv, NEW l \in IoLoops, TimeoutsDone(l)
  PROVE  Inv'
<1>0. Types /\ TypeOK /\ FunctorsOK
    BY TypesHold DEF Inv
<1>1. /\ UNCHANGED <<conn, channels, connections, nextLoop, backlog, listenEdge,
                     accepting, timers, due, timerfd, active, timerActive, queue,
                     batch, crash>>
      /\ lpc[l] = "timeouts" /\ lpc' = [lpc EXCEPT ![l] = "run"]
      /\ called' = [called EXCEPT ![l] = @ + 1]
    BY DEF TimeoutsDone, CallDone, At, connVars, mainVars, timerVars
<1>2. /\ l \in Loops /\ lpc'[l] = "run"
      /\ \A m \in Loops : m # l => lpc'[m] = lpc[m]
    BY <1>0, <1>1, LoopFacts DEF Types
<1>3. called[l] < Len(batch[l]) /\ Due(l)[1] = "timeouts"
    BY <1>1, <1>2 DEF Inv, LoopsOK, Due
<1>4. /\ called' \in [Loops -> Nat]
      /\ \A m \in Loops : called'[m] <= Len(batch'[m])
      /\ \A m \in Loops : m # l => called'[m] = called[m]
    BY <1>0, <1>1, <1>2, <1>3, CalledTypes
<1>5. Types'
  <2>1. lpc' \in [Loops -> {"poll", "dispatch", "run", "timeouts", "hung"}]
    BY <1>0, <1>1 DEF Types
  <2> QED
    BY <1>0, <1>1, <1>4, <2>1 DEF Types
<1>6. ConnsOK' /\ ActiveOK' /\ DataIsWatched' /\ \A c \in Conns : Calm(c)
    BY <1>1, SameConns
<1>7. /\ FdsOK' /\ ChannelsOK' /\ BacklogOK' /\ MapOK' /\ TimersOK'
      /\ HungOK'
    BY <1>1, <1>2, <1>6, CalmKeeps, LoopFacts
<1>8. FunctorsOK'
  <2>1. Due(l)[2] \notin Conns
    BY <1>0, <1>2, <1>3, DueFacts, FunctorParts, ServerAssumption
  <2>2. \A c \in Conns : Steady(c)
    BY <1>1 DEF Steady
  <2> QED
    BY <1>0, <1>1, <1>2, <1>3, <2>1, <2>2, FunctorsCall
<1>9. LoopsOK'
  <2>1. LoopsOK
    BY DEF Inv
  <2>2. active[l] = {}
    BY <1>1, <2>1 DEF LoopsOK
  <2> QED
    BY <1>1, <1>2, <1>4, <2>1, <2>2, LoopFacts DEF LoopsOK
<1>10. TypeOK'
    BY <1>5, <1>6, <1>7, TypesNext
<1> QED
    BY <1>6, <1>7, <1>8, <1>9, <1>10 DEF Inv

\* removeConnectionInLoop()
LEMMA RemovalKeeps ==
  ASSUME Inv, RemoveConnection
  PROVE  Inv'
<1>0. Types /\ TypeOK /\ FunctorsOK
    BY TypesHold DEF Inv
<1>a. Main \in Loops /\ Main \notin IoLoops /\ IoLoops \subseteq Loops
    BY LoopFacts
<1>1. /\ UNCHANGED <<conn, channels, nextLoop, backlog, listenEdge,
                     accepting, timers, due, timerfd, active, timerActive,
                     batch, lpc, crash>>
      /\ lpc[Main] = "run" /\ called' = [called EXCEPT ![Main] = @ + 1]
      /\ called[Main] < Len(batch[Main]) /\ Due(Main)[1] = "remove"
    BY DEF RemoveConnection, Calls, CallDone, At, Due, connVars, timerVars
<1>2. PICK c \in Conns : c = Due(Main)[2]
    BY <1>a, <1>0, <1>1, DueFacts, FunctorParts
<1>b. /\ connections' = connections \ {c}
      /\ queue' = [queue EXCEPT ![conn[c].loop] = Append(@, <<"destroy", c>>)]
    BY <1>2 DEF RemoveConnection, Due
<1>3. FunctorOK(Main, Due(Main))
    BY <1>0, <1>1, <1>a, DueFacts DEF FunctorsOK
<1>4. Leaving(conn[c]) /\ c \in connections
    BY <1>1, <1>2, <1>3 DEF FunctorOK
<1>5. conn[c].loop \in IoLoops
    BY <1>4 DEF Inv, ConnsOK, ConnOK, Leaving
<1>6. /\ called' \in [Loops -> Nat]
      /\ \A m \in Loops : called'[m] <= Len(batch'[m])
      /\ \A m \in Loops : m # Main => called'[m] = called[m]
    BY <1>0, <1>1, <1>a, CalledTypes
<1>7. Types'
  <2>1. PICK m \in Loops, f \in Functors : m = conn[c].loop /\ f = <<"destroy", c>>
    BY <1>5, <1>a DEF Functors
  <2>2. queue[m] \in Seq(Functors) /\ Append(queue[m], f) \in Seq(Functors)
    BY <1>0, AppendProperties DEF Types
  <2>3. queue' = [queue EXCEPT ![m] = Append(queue[m], f)]
    BY <1>b, <2>1
  <2>4. queue' \in [Loops -> Seq(Functors)] /\ connections' \subseteq Conns
    BY <1>0, <1>b, <2>2, <2>3 DEF Types
  <2> QED
    BY <1>0, <1>1, <1>6, <2>4 DEF Types
<1>8. ConnsOK' /\ ActiveOK' /\ DataIsWatched' /\ \A d \in Conns : Calm(d)
    BY <1>1, SameConns
<1>9. /\ FdsOK' /\ ChannelsOK' /\ BacklogOK' /\ TimersOK'
      /\ HungOK'
    BY <1>1, <1>8, CalmKeeps
<1>10. MapOK'
    BY <1>1, <1>b, <1>4 DEF Inv, MapOK, Leaving
<1>11. FunctorsOK'
    BY <1>0, <1>1, <1>2, <1>b, <1>5, FunctorsRemove
<1>12. LoopsOK'
    BY <1>1, <1>6, <1>a DEF Inv, LoopsOK
<1>13. TypeOK'
    BY <1>7, <1>8, <1>9, TypesNext
<1> QED
    BY <1>8, <1>9, <1>10, <1>11, <1>12, <1>13 DEF Inv

(***************************************************************************)
(* What peers do                                                            *)
(***************************************************************************)
\* The socket's state has changed and the ready list tells of it.
Noticed(s, t) ==
  /\ t \in ConnType
  /\ t.st = s.st /\ t.loop = s.loop /\ t.fd = s.fd /\ t.alive = s.alive
  /\ t.end = s.end /\ t.out = s.out /\ t.ev = s.ev /\ t.idx = s.idx
  /\ t.reg = s.reg /\ t.bad = s.bad /\ t.tmo = s.tmo /\ t.rev = s.rev
  /\ t.edge = (s.reg # "off")
  /\ Bounded(t)
  /\ t.err => t.rst
  /\ s.rst => t.rst

LEMMA PeerRecord ==
  ASSUME NEW s \in ConnType, Bounded(s), s.err => s.rst,
         NEW t, \/ s.sends < MaxSends
                   /\ t = [s EXCEPT !.data = TRUE, !.sends = @ + 1]
                \/ t = [s EXCEPT !.fin = TRUE]
                \/ t = [s EXCEPT !.rst = TRUE, !.err = TRUE]
                \/ t = [s EXCEPT !.full = FALSE]
  PROVE  Noticed(s, [t EXCEPT !.edge = t.reg # "off"])
<1>a. s.sends \in 0..MaxSends /\ s.out \in 0..(Pieces * MaxSends)
    BY DEF ConnType
<1>b. s.data \in BOOLEAN /\ s.rst \in BOOLEAN /\ s.err \in BOOLEAN
    BY DEF ConnType
<1>c. s.sends \in Nat /\ s.out \in Nat /\ MaxSends \in Nat
    BY <1>a, ServerAssumption DEF Pieces
<1>1. CASE s.sends < MaxSends /\ t = [s EXCEPT !.data = TRUE, !.sends = @ + 1]
  <2> DEFINE n == s.sends + 1
  <2>1. n \in 0..MaxSends
    BY <1>1, <1>c
  <2>2. s.out + 2 <= 2 * n
    BY <1>c DEF Bounded, Pieces
  <2> HIDE DEF n
  <2>3. t = [s EXCEPT !.data = TRUE, !.sends = n]
    BY <1>1 DEF n
  <2>4. t.reg = s.reg
    BY <2>3 DEF ConnType
  <2> DEFINE u == [s EXCEPT !.data = TRUE, !.sends = n, !.edge = s.reg # "off"]
  <2>5. [t EXCEPT !.edge = t.reg # "off"] = u
    BY <2>3, <2>4
  <2>6. u \in ConnType
    BY <2>1 DEF ConnType
  <2>7. /\ u.st = s.st /\ u.loop = s.loop /\ u.fd = s.fd /\ u.alive = s.alive
        /\ u.end = s.end /\ u.out = s.out /\ u.ev = s.ev /\ u.idx = s.idx
    BY DEF ConnType
  <2>8. /\ u.reg = s.reg /\ u.bad = s.bad /\ u.tmo = s.tmo /\ u.rev = s.rev
        /\ u.edge = (s.reg # "off") /\ u.err = s.err /\ u.rst = s.rst
        /\ u.sends = n
    BY DEF ConnType
  <2> HIDE DEF u
  <2>9. Bounded(u)
    BY <1>c, <2>1, <2>2, <2>7, <2>8, ServerAssumption DEF Bounded, Pieces
  <2> QED
    BY <2>5, <2>6, <2>7, <2>8, <2>9 DEF Noticed
<1>2. CASE t = [s EXCEPT !.fin = TRUE]
  <2>1. t.reg = s.reg
    BY <1>2 DEF ConnType
  <2> DEFINE u == [s EXCEPT !.fin = TRUE, !.edge = s.reg # "off"]
  <2>2. [t EXCEPT !.edge = t.reg # "off"] = u
    BY <1>2, <2>1
  <2>3. u \in ConnType
    BY DEF ConnType
  <2>4. /\ u.st = s.st /\ u.loop = s.loop /\ u.fd = s.fd /\ u.alive = s.alive
        /\ u.end = s.end /\ u.out = s.out /\ u.ev = s.ev /\ u.idx = s.idx
    BY DEF ConnType
  <2>5. /\ u.reg = s.reg /\ u.bad = s.bad /\ u.tmo = s.tmo /\ u.rev = s.rev
        /\ u.edge = (s.reg # "off") /\ u.err = s.err /\ u.rst = s.rst
        /\ u.sends = s.sends /\ u.data = s.data
    BY DEF ConnType
  <2> HIDE DEF u
  <2>6. Bounded(u)
    BY <2>4, <2>5 DEF Bounded
  <2> QED
    BY <2>2, <2>3, <2>4, <2>5, <2>6 DEF Noticed
<1>3. CASE t = [s EXCEPT !.rst = TRUE, !.err = TRUE]
  <2>1. t.reg = s.reg
    BY <1>3 DEF ConnType
  <2> DEFINE u == [s EXCEPT !.rst = TRUE, !.err = TRUE, !.edge = s.reg # "off"]
  <2>2. [t EXCEPT !.edge = t.reg # "off"] = u
    BY <1>3, <2>1
  <2>3. u \in ConnType
    BY DEF ConnType
  <2>4. /\ u.st = s.st /\ u.loop = s.loop /\ u.fd = s.fd /\ u.alive = s.alive
        /\ u.end = s.end /\ u.out = s.out /\ u.ev = s.ev /\ u.idx = s.idx
    BY DEF ConnType
  <2>5. /\ u.reg = s.reg /\ u.bad = s.bad /\ u.tmo = s.tmo /\ u.rev = s.rev
        /\ u.edge = (s.reg # "off") /\ u.rst = TRUE
        /\ u.sends = s.sends /\ u.data = s.data
    BY DEF ConnType
  <2> HIDE DEF u
  <2>6. Bounded(u)
    BY <2>4, <2>5 DEF Bounded
  <2> QED
    BY <2>2, <2>3, <2>4, <2>5, <2>6 DEF Noticed
<1>4. CASE t = [s EXCEPT !.full = FALSE]
  <2>1. t.reg = s.reg
    BY <1>4 DEF ConnType
  <2> DEFINE u == [s EXCEPT !.full = FALSE, !.edge = s.reg # "off"]
  <2>2. [t EXCEPT !.edge = t.reg # "off"] = u
    BY <1>4, <2>1
  <2>3. u \in ConnType
    BY ZenonT(30) DEF ConnType
  <2>4. /\ u.st = s.st /\ u.loop = s.loop /\ u.fd = s.fd /\ u.alive = s.alive
        /\ u.end = s.end /\ u.out = s.out /\ u.ev = s.ev /\ u.idx = s.idx
    BY DEF ConnType
  <2>5. /\ u.reg = s.reg /\ u.bad = s.bad /\ u.tmo = s.tmo /\ u.rev = s.rev
        /\ u.edge = (s.reg # "off") /\ u.err = s.err /\ u.rst = s.rst
        /\ u.sends = s.sends /\ u.data = s.data
    BY DEF ConnType
  <2> HIDE DEF u
  <2>6. Bounded(u)
    BY <2>4, <2>5 DEF Bounded
  <2> QED
    BY <2>2, <2>3, <2>4, <2>5, <2>6 DEF Noticed
<1> QED
    BY <1>1, <1>2, <1>3, <1>4

LEMMA NoticedConn ==
  ASSUME NEW s, NEW t, Noticed(s, t), ConnOK(s)
  PROVE  /\ ConnOK(t)
         /\ s.st = "kConnected" => t.edge /\ Heeded(t)
         /\ s.st = "kConnected" /\ Captured(s) => Captured(t)
<1>1. Settled(t) <=> Settled(s)
    BY DEF Noticed, Settled
<1>2. ConnOK(t)
    BY <1>1 DEF Noticed, ConnOK
<1>3. s.st = "kConnected" => t.edge /\ t.reg \in {"read", "write"}
    BY DEF Noticed, ConnOK
<1>4. t.full \in BOOLEAN
    BY DEF Noticed, ConnType
<1>5. s.st = "kConnected" => Heeded(t)
    BY <1>3, <1>4 DEF Heeded
<1>6. s.st = "kConnected" /\ Captured(s) => Captured(t)
    BY <1>3 DEF Noticed, Captured
<1> QED
    BY <1>2, <1>3, <1>5, <1>6

LEMMA PeerKeeps ==
  ASSUME Inv, NEW c \in Conns, PeerStep(c) \/ PeerReads(c)
  PROVE  Inv'
<1>0. Types
    BY TypesHold DEF Inv
<1> DEFINE s == conn[c]
<1>1. /\ UNCHANGED <<channels, connections, nextLoop, backlog, listenEdge,
                     accepting, timers, due, timerfd, active, timerActive, batch,
                     called, lpc, queue, crash>>
    BY DEF PeerStep, PeerReads, mainVars, timerVars, loopVars
<1>2. s \in ConnType /\ ConnOK(s)
    BY <1>0 DEF Types, Inv, ConnsOK
<1>3. PICK t : /\ \/ s.sends < MaxSends
                     /\ t = [s EXCEPT !.data = TRUE, !.sends = @ + 1]
                  \/ t = [s EXCEPT !.fin = TRUE]
                  \/ t = [s EXCEPT !.rst = TRUE, !.err = TRUE]
                  \/ t = [s EXCEPT !.full = FALSE]
               /\ conn' = [conn EXCEPT ![c] = [t EXCEPT !.edge = t.reg # "off"]]
    BY DEF PeerStep, PeerReads, Notify
<1>4. Noticed(s, [t EXCEPT !.edge = t.reg # "off"])
    BY <1>2, <1>3, PeerRecord DEF ConnOK
<1> HIDE DEF s
<1>5. PICK u : u = [t EXCEPT !.edge = t.reg # "off"]
    OBVIOUS
<1>6. conn' = [conn EXCEPT ![c] = u] /\ Noticed(s, u)
    BY <1>3, <1>4, <1>5
<1>7. u \in ConnType
    BY <1>6 DEF Noticed
<1>8. /\ conn' \in [Conns -> ConnType] /\ conn'[c] = u
      /\ \A d \in Conns : d # c => conn'[d] = conn[d]
    BY <1>0, <1>6, <1>7 DEF Types
<1>9. \A d \in Conns : Calm(d)
    BY <1>6, <1>8 DEF Calm, Noticed, s
<1>10. /\ ConnOK(u)
       /\ s.st = "kConnected" => Heeded(u)
       /\ s.st = "kConnected" /\ Captured(s) => Captured(u)
    BY <1>2, <1>6, NoticedConn
<1>11. ConnsOK'
    BY <1>8, <1>10 DEF Inv, ConnsOK
<1>12. ActiveOK'
    BY <1>1, <1>6, <1>8, <1>10 DEF Inv, ActiveOK, Noticed, s
<1>13. DataIsWatched'
  <2>1. u.st = s.st
    BY <1>6 DEF Noticed
  <2> QED
    BY <1>1, <1>8, <1>10, <2>1 DEF Inv, DataIsWatched, Heeded
<1>14. /\ FdsOK' /\ ChannelsOK' /\ BacklogOK' /\ MapOK' /\ TimersOK' /\ FunctorsOK'
       /\ HungOK'
    BY <1>1, <1>9, CalmKeeps
<1>15. LoopsOK'
    BY <1>1 DEF Inv, LoopsOK
<1>16. Types'
    BY <1>0, <1>1, <1>8 DEF Types
<1>17. TypeOK'
    BY <1>12, <1>14, <1>16, TypesNext
<1> QED
    BY <1>11, <1>12, <1>13, <1>14, <1>15, <1>17 DEF Inv

\* A connection nobody has seen yet, and one the kernel has completed
LEMMA NewRecord ==
  /\ NewConn \in ConnType /\ ConnOK(NewConn)
  /\ NewConn.st = "idle" /\ ~NewConn.tmo /\ ~NewConn.rst
<1>1. /\ 0 \in 0..NFds /\ 0 \in 0..(Pieces * MaxSends) /\ 0 \in 0..MaxSends
      /\ Main \in Loops /\ {} \in Events
  <2>1. Pieces * MaxSends \in Nat
    BY ServerAssumption DEF Pieces
  <2> QED
    BY <2>1, ServerAssumption, LoopFacts DEF Events
<1>2. NewConn \in ConnType
    BY <1>1 DEF NewConn, ConnType, States, Interests, Indices, Watches
<1>3. Bounded(NewConn)
    BY DEF NewConn, Bounded, Pieces
<1>4. ConnOK(NewConn)
    BY <1>3 DEF NewConn, ConnOK, Early
<1> QED
    BY <1>2, <1>4 DEF NewConn

\* What a record becomes outside the loops: another stage ...
LEMMA StageRecord ==
  ASSUME NEW s \in ConnType, ConnOK(s), s.st \in Early,
         NEW x \in {"backlog", "refused"}
  PROVE  LET t == [s EXCEPT !.st = x]
         IN  /\ t \in ConnType /\ ConnOK(t) /\ t.st = x
             /\ t.tmo = s.tmo /\ t.rst = s.rst
<1>1. PICK t : t = [s EXCEPT !.st = x]
    OBVIOUS
<1>2. x \in States
    BY DEF States
<1>3. t \in ConnType /\ t.st = x
    BY <1>1, <1>2, ZenonT(30) DEF ConnType
<1>4. /\ t.idx = s.idx /\ t.ev = s.ev /\ t.reg = s.reg /\ t.bad = s.bad
      /\ t.tmo = s.tmo /\ t.alive = s.alive /\ t.out = s.out /\ t.end = s.end
    BY <1>1 DEF ConnType
<1>5. t.data = s.data /\ t.sends = s.sends /\ t.err = s.err /\ t.rst = s.rst
    BY <1>1 DEF ConnType
<1>6. Bounded(t) <=> Bounded(s)
    BY <1>4, <1>5 DEF Bounded
<1>7. ConnOK(t)
    BY <1>3, <1>4, <1>5, <1>6 DEF ConnOK, Early
<1> QED
    BY <1>1, <1>3, <1>4, <1>5, <1>7

\* ... or a new connection of its peer.
LEMMA BacklogRecord ==
  LET t == [NewConn EXCEPT !.st = "backlog"]
  IN  /\ t \in ConnType /\ ConnOK(t) /\ t.st = "backlog" /\ ~t.tmo /\ ~t.rst
<1>1. PICK s : s = NewConn
    OBVIOUS
<1>2. s \in ConnType /\ ConnOK(s) /\ s.st \in Early /\ ~s.tmo /\ ~s.rst
    BY <1>1, NewRecord DEF Early
<1>3. LET t == [s EXCEPT !.st = "backlog"]
      IN  /\ t \in ConnType /\ ConnOK(t) /\ t.st = "backlog"
          /\ t.tmo = s.tmo /\ t.rst = s.rst
    BY <1>2, StageRecord
<1> QED
    BY <1>1, <1>2, <1>3

\* A connection that no loop knows moves on: it is completed or refused.
LEMMA OutsideKeeps ==
  ASSUME Inv, NEW c \in Conns,
         conn[c].st \in {"idle", "backlog", "refused", "freed"},
         NEW t \in ConnType, ConnOK(t), t.st \in {"backlog", "refused"},
         conn' = [conn EXCEPT ![c] = t],
         UNCHANGED <<channels, connections, timers, due, timerfd, active,
                     timerActive, queue, batch, called, lpc>>,
         crash' = "no" => crash = "no"
  PROVE  /\ conn' \in [Conns -> ConnType]
         /\ conn'[c] = t /\ \A d \in Conns : d # c => conn'[d] = conn[d]
         /\ ConnsOK' /\ FdsOK' /\ ChannelsOK' /\ MapOK' /\ FunctorsOK'
         /\ TimersOK' /\ LoopsOK' /\ ActiveOK' /\ HungOK' /\ DataIsWatched'
<1>0. Types /\ TypeOK /\ FunctorsOK
    BY TypesHold DEF Inv
<1>1. /\ conn' \in [Conns -> ConnType] /\ conn'[c] = t
      /\ \A d \in Conns : d # c => conn'[d] = conn[d]
    BY <1>0 DEF Types
<1>2. ConnsOK'
    BY <1>1 DEF Inv, ConnsOK
<1>3. FdsOK'
    BY <1>1 DEF Inv, FdsOK, Live
<1>4. \A d \in Conns : /\ Listed(conn[d]) => d # c
                       /\ Listed(conn'[d]) => d # c
                       /\ conn[d].st = "kConnected" => d # c
                       /\ conn'[d].st = "kConnected" => d # c
                       /\ d = c => /\ conn[d].st # "kConnecting"
                                   /\ conn'[d].st # "kConnecting"
    BY <1>1 DEF Listed, Leaving
<1>5. ChannelsOK'
    BY <1>1, <1>4 DEF Inv, ChannelsOK
<1>6. MapOK'
    BY <1>1, <1>4 DEF Inv, MapOK
<1>7. FunctorsOK'
  <2>1. \A l \in Loops : /\ Uncalled(l)' = Uncalled(l)
                         /\ \A i \in Uncalled(l) : FunctorAt(l, i)' = FunctorAt(l, i)
    BY SameQueue
  <2>2. Idle(c)
    BY <1>1 DEF Idle, Waiting, Leaving
  <2>3. \A d \in Conns : d # c => Steady(d)
    BY <1>1 DEF Steady
  <2> QED
    BY <1>0, <2>1, <2>2, <2>3, FunctorsStay
<1>8. TimersOK'
  <2>1. \A l \in IoLoops : \A i \in DOMAIN timers[l] : timers[l][i] \in Conns
    BY <1>0, ElementOfSeq DEF Types
  <2> QED
    BY <1>1, <1>4, <2>1 DEF Inv, TimersOK
<1>9. LoopsOK'
    BY DEF Inv, LoopsOK
<1>10. ActiveOK'
  <2>1. \A l \in IoLoops : active[l] \subseteq Conns
    BY <1>0 DEF Types
  <2> QED
    BY <1>1, <1>4, <2>1 DEF Inv, ActiveOK
<1>11. HungOK'
    BY <1>1, <1>4 DEF Inv, HungOK
<1>12. DataIsWatched'
    BY <1>1, <1>4 DEF Inv, DataIsWatched
<1> QED
    BY <1>1, <1>2, <1>3, <1>5, <1>6, <1>7, <1>8, <1>9, <1>10, <1>11, <1>12

LEMMA PeerConnectsKeeps ==
  ASSUME Inv, NEW c \in Conns, PeerConnects(c)
  PROVE  Inv'
<1>0. Types /\ BacklogOK
    BY TypesHold DEF Inv
<1>1. /\ UNCHANGED <<channels, connections, nextLoop, accepting, timers, due,
                     timerfd, active, timerActive, batch, called, lpc, queue,
                     crash>>
      /\ conn[c].st \in {"idle", "freed", "refused"}
      /\ conn' = [conn EXCEPT ![c] = [NewConn EXCEPT !.st = "backlog"]]
      /\ backlog' = Append(backlog, c) /\ listenEdge' = TRUE
    BY DEF PeerConnects, timerVars, loopVars
<1>2. /\ conn' \in [Conns -> ConnType]
      /\ conn'[c].st = "backlog" /\ \A d \in Conns : d # c => conn'[d] = conn[d]
      /\ ConnsOK' /\ FdsOK' /\ ChannelsOK' /\ MapOK' /\ FunctorsOK'
      /\ TimersOK' /\ LoopsOK' /\ ActiveOK' /\ HungOK' /\ DataIsWatched'
  <2>1. PICK r : r = [NewConn EXCEPT !.st = "backlog"]
    OBVIOUS
  <2>2. r \in ConnType /\ ConnOK(r) /\ r.st = "backlog"
    BY <2>1, BacklogRecord
  <2>3. conn' = [conn EXCEPT ![c] = r]
    BY <1>1, <2>1
  <2> QED
    BY <1>1, <2>2, <2>3, OutsideKeeps
<1>3. /\ backlog' \in Seq(Conns) /\ Len(backlog') = Len(backlog) + 1
      /\ backlog'[Len(backlog) + 1] = c
      /\ \A i \in 1..Len(backlog) : backlog'[i] = backlog[i]
    BY <1>0, <1>1, AppendProperties DEF Types
<1>4. BacklogOK'
  <2>1. /\ Len(backlog) \in Nat /\ DOMAIN backlog = 1..Len(backlog)
        /\ DOMAIN backlog' = 1..(Len(backlog) + 1)
    BY <1>0, <1>3, LenProperties DEF Types
  <2>2. \A i \in DOMAIN backlog : backlog[i] \in Conns /\ backlog[i] # c
    BY <1>0, <1>1, <2>1, ElementOfSeq DEF Types, BacklogOK
  <2>3. \A i \in DOMAIN backlog' : i \in DOMAIN backlog \/ i = Len(backlog) + 1
    BY <2>1
  <2> QED
    BY <1>0, <1>2, <1>3, <2>1, <2>2, <2>3 DEF BacklogOK
<1>5. Types'
    BY <1>0, <1>1, <1>2, <1>3 DEF Types
<1>6. TypeOK'
    BY <1>2, <1>5, TypesNext
<1> QED
    BY <1>2, <1>4, <1>6 DEF Inv

(***************************************************************************)
(* Epoll::poll()                                                            *)
(***************************************************************************)
LEMMA MaskFacts ==
  ASSUME NEW s \in ConnType
  PROVE  /\ Mask(s) \in Events
         /\ "IN" \in Mask(s) <=> s.reg = "read" /\ (s.data \/ s.fin \/ s.rst)
         /\ "OUT" \in Mask(s) <=> s.reg = "write" /\ (~s.full \/ s.rst)
         /\ "HUP" \in Mask(s) <=> s.rst
         /\ "ERR" \in Mask(s) <=> s.err
<1>1. Mask(s) \in Events
    BY DEF Mask, Events
<1>2. "IN" \in Mask(s) <=> s.reg = "read" /\ (s.data \/ s.fin \/ s.rst)
    BY DEF Mask
<1>3. "OUT" \in Mask(s) <=> s.reg = "write" /\ (~s.full \/ s.rst)
    BY DEF Mask
<1>4. "HUP" \in Mask(s) <=> s.rst
    BY DEF Mask
<1>5. "ERR" \in Mask(s) <=> s.err
    BY DEF Mask
<1> QED
    BY <1>1, <1>2, <1>3, <1>4, <1>5

\* The events that were captured are still those the channel asked for.
LEMMA PolledRecord ==
  ASSUME NEW s \in ConnType, ConnOK(s), NEW e \in Events
  PROVE  LET t == [s EXCEPT !.edge = FALSE, !.rev = e] IN
         /\ t \in ConnType /\ ConnOK(t)
         /\ t.st = s.st /\ t.idx = s.idx /\ t.loop = s.loop /\ t.fd = s.fd
         /\ t.alive = s.alive /\ t.end = s.end /\ t.out = s.out /\ t.ev = s.ev
         /\ t.reg = s.reg /\ t.data = s.data /\ t.full = s.full
         /\ t.tmo = s.tmo /\ t.rst = s.rst
         /\ s.st = "kConnected" /\ e = Mask(s) /\ e # {} => Captured(t)
<1> DEFINE t == [s EXCEPT !.edge = FALSE, !.rev = e]
<1>1. t \in ConnType /\ t.rev = e
    BY DEF ConnType
<1>2. /\ t.st = s.st /\ t.idx = s.idx /\ t.loop = s.loop /\ t.fd = s.fd
      /\ t.alive = s.alive /\ t.end = s.end /\ t.out = s.out /\ t.ev = s.ev
    BY DEF ConnType
<1>3. /\ t.reg = s.reg /\ t.data = s.data /\ t.full = s.full /\ t.bad = s.bad
      /\ t.tmo = s.tmo /\ t.rst = s.rst /\ t.err = s.err /\ t.sends = s.sends
    BY DEF ConnType
<1> HIDE DEF t
<1>4. ConnOK(t)
  <2>1. (Settled(t) <=> Settled(s)) /\ (Bounded(t) <=> Bounded(s))
    BY <1>2, <1>3 DEF Settled, Bounded
  <2> QED
    BY <1>2, <1>3, <2>1 DEF ConnOK
<1>5. ASSUME s.st = "kConnected", e = Mask(s), e # {} PROVE Captured(t)
  <2>1. /\ "IN" \in e <=> s.reg = "read" /\ (s.data \/ s.fin \/ s.rst)
        /\ "OUT" \in e <=> s.reg = "write" /\ (~s.full \/ s.rst)
        /\ "HUP" \in e <=> s.rst
        /\ "ERR" \in e <=> s.err
    BY <1>5, MaskFacts
  <2>2. s.ev \in {"read", "write"} /\ s.reg = s.ev /\ (s.err => s.rst)
    BY <1>5 DEF ConnOK
  <2>3. "IN" \in e \/ "OUT" \in e
    <3>1. e \subseteq {"IN", "OUT", "HUP", "ERR"}
      BY DEF Events
    <3> QED
      BY <1>5, <2>1, <2>2, <3>1
  <2> QED
    BY <1>1, <1>2, <1>3, <2>1, <2>2, <2>3 DEF Captured
<1> QED
    BY <1>1, <1>2, <1>3, <1>4, <1>5 DEF t

LEMMA PollIoKeeps ==
  ASSUME Inv, NEW l \in IoLoops, PollIo(l)
  PROVE  Inv' /\ (\A c \in Conns : Marks(c)) /\ UNCHANGED crash
<1>0. Types /\ l \in Loops
    BY TypesHold, LoopFacts DEF Inv
<1> DEFINE E(c) == IF c \in Ready(l) THEN Mask(conn[c]) ELSE {}
           T(c) == [conn[c] EXCEPT !.edge = FALSE, !.rev = E(c)]
<1>1. /\ UNCHANGED <<channels, connections, nextLoop, backlog, listenEdge,
                     accepting, timers, due, timerfd, queue, batch, called, crash>>
      /\ lpc[l] = "poll" /\ lpc' = [lpc EXCEPT ![l] = "dispatch"]
      /\ timerActive' = [timerActive EXCEPT ![l] = timerfd[l] = "expired"]
      /\ active' = [active EXCEPT ![l] = Ready(l)]
    BY DEF PollIo, At, mainVars, timerVars
<1>2. conn' = [c \in Conns |-> IF conn[c].loop # l THEN conn[c] ELSE T(c)]
    BY DEF PollIo
<1>3. \A c \in Conns : conn[c] \in ConnType /\ ConnOK(conn[c])
    BY <1>0 DEF Types, Inv, ConnsOK
<1>4. ASSUME NEW c \in Conns
      PROVE  /\ T(c) \in ConnType /\ ConnOK(T(c))
             /\ T(c).st = conn[c].st /\ T(c).idx = conn[c].idx
             /\ T(c).loop = conn[c].loop /\ T(c).fd = conn[c].fd
             /\ T(c).alive = conn[c].alive /\ T(c).end = conn[c].end
             /\ T(c).out = conn[c].out /\ T(c).ev = conn[c].ev
             /\ T(c).reg = conn[c].reg /\ T(c).data = conn[c].data
             /\ T(c).full = conn[c].full
             /\ T(c).tmo = conn[c].tmo /\ T(c).rst = conn[c].rst
             /\ c \in Ready(l) /\ conn[c].st = "kConnected" => Captured(T(c))
  <2>1. PICK s, e, t : s = conn[c] /\ e = E(c)
                       /\ t = [s EXCEPT !.edge = FALSE, !.rev = e]
    OBVIOUS
  <2>2. s \in ConnType /\ ConnOK(s)
    BY <1>3, <2>1
  <2>3. e \in Events
    BY <2>1, <2>2, MaskFacts DEF Events
  <2>4. c \in Ready(l) => e = Mask(s) /\ e # {}
    BY <2>1 DEF Ready
  <2>5. t = T(c)
    BY <2>1
  <2>8. t = [s EXCEPT !.edge = FALSE, !.rev = e]
    BY <2>1
  <2> HIDE DEF E, T
  <2>6. /\ t \in ConnType /\ ConnOK(t)
        /\ t.st = s.st /\ t.idx = s.idx /\ t.loop = s.loop /\ t.fd = s.fd
        /\ t.alive = s.alive /\ t.end = s.end /\ t.out = s.out /\ t.ev = s.ev
        /\ t.reg = s.reg /\ t.data = s.data /\ t.full = s.full
        /\ t.tmo = s.tmo /\ t.rst = s.rst
        /\ s.st = "kConnected" /\ e = Mask(s) /\ e # {} => Captured(t)
    BY ONLY <2>2, <2>3, <2>8, PolledRecord
  <2>7. conn[c] = s /\ T(c) = t
    BY <2>1, <2>5
  <2> QED
    BY ONLY <2>4, <2>6, <2>7
<1> HIDE DEF E, T
<1>5. \A c \in Conns : IF conn[c].loop # l THEN conn'[c] = conn[c]
                                            ELSE conn'[c] = T(c)
    BY <1>2
<1>6. conn' \in [Conns -> ConnType]
    BY <1>2, <1>3, <1>4
<1>7. \A c \in Conns : Calm(c)
    BY <1>4, <1>5 DEF Calm
<1>8. ConnsOK'
    BY <1>3, <1>4, <1>5 DEF ConnsOK
<1>9. /\ lpc'[l] = "dispatch" /\ active'[l] = Ready(l)
      /\ \A m \in Loops : m # l => lpc'[m] = lpc[m]
      /\ \A m \in IoLoops : m # l => active'[m] = active[m]
    BY <1>0, <1>1 DEF Types
<1>10. ASSUME NEW c \in Ready(l)
       PROVE  c \in Conns /\ conn[c].st = "kConnected" /\ conn[c].loop = l
  <2>1. c \in Conns /\ Live(c) /\ conn[c].reg # "off" /\ conn[c].loop = l
    BY DEF Ready
  <2>2. ConnOK(conn[c])
    BY <1>3, <2>1
  <2> QED
    BY <2>1, <2>2 DEF Live, ConnOK, Early
<1>11. /\ FdsOK' /\ ChannelsOK' /\ BacklogOK' /\ MapOK' /\ TimersOK' /\ FunctorsOK'
       /\ HungOK'
    BY <1>1, <1>7, <1>9, CalmKeeps, LoopFacts
<1>12. ActiveOK'
  <2>1. ASSUME NEW m \in IoLoops, NEW c \in active'[m]
        PROVE  /\ conn'[c].loop = m /\ conn'[c].st = "kConnected"
               /\ Captured(conn'[c])
    <3>1. CASE m = l
      <4>1. c \in Ready(l)
        BY <1>9, <2>1, <3>1
      <4> QED
        BY <1>4, <1>5, <1>10, <3>1, <4>1
    <3>2. CASE m # l
      <4>1. c \in active[m] /\ c \in Conns
        BY <1>0, <1>9, <2>1, <3>2 DEF Types
      <4>2. conn[c].loop = m /\ conn[c].st = "kConnected" /\ Captured(conn[c])
        BY <4>1 DEF Inv, ActiveOK
      <4> QED
        BY <1>5, <3>2, <4>1, <4>2
    <3> QED
      BY <3>1, <3>2
  <2> QED
    BY <2>1 DEF ActiveOK
<1>13. DataIsWatched'
  <2> SUFFICES ASSUME NEW c \in Conns, conn'[c].st = "kConnected", conn'[c].data,
                      crash' = "no"
               PROVE  \/ c \in active'[conn'[c].loop]
                      \/ conn'[c].edge /\ (conn'[c].reg = "read" \/ ~conn'[c].full)
                      \/ conn'[c].reg = "write" /\ conn'[c].full
    BY DEF DataIsWatched
  <2>1. /\ conn[c].st = "kConnected" /\ conn[c].loop = conn'[c].loop
        /\ conn[c].data /\ conn[c].reg = conn'[c].reg
        /\ conn[c].full = conn'[c].full
    BY <1>4, <1>5
  <2>2. \/ c \in active[conn[c].loop]
        \/ conn[c].edge /\ (conn[c].reg = "read" \/ ~conn[c].full)
        \/ conn[c].reg = "write" /\ conn[c].full
    BY <1>1, <2>1 DEF Inv, DataIsWatched
  <2>3. conn[c].loop \in IoLoops /\ conn[c].reg \in {"read", "write"}
    BY <1>3, <2>1 DEF ConnOK
  <2>4. CASE conn[c].loop = l
    <3>1. active[l] = {}
      BY <1>1 DEF Inv, LoopsOK
    <3>2. CASE conn[c].reg = "write" /\ conn[c].full
      BY <2>1, <3>2
    <3>3. CASE conn[c].edge /\ (conn[c].reg = "read" \/ ~conn[c].full)
      <4>1. Mask(conn[c]) # {}
        BY <1>3, <2>1, <2>3, <3>3, MaskFacts
      <4>2. Live(c)
        BY <2>1 DEF Live
      <4>3. c \in Ready(l)
        BY <2>3, <2>4, <3>3, <4>1, <4>2 DEF Ready
      <4> QED
        BY <1>9, <2>1, <2>4, <4>3
    <3> QED
      BY <2>2, <2>4, <3>1, <3>2, <3>3
  <2>5. CASE conn[c].loop # l
    BY <1>5, <1>9, <2>2, <2>3, <2>5
  <2> QED
    BY <2>4, <2>5
<1>14. LoopsOK'
    BY <1>1, <1>9, LoopFacts DEF Inv, LoopsOK
<1>15. Types'
  <2>1. /\ lpc' \in [Loops -> {"poll", "dispatch", "run", "timeouts", "hung"}]
        /\ timerActive' \in [IoLoops -> BOOLEAN]
    BY <1>0, <1>1 DEF Types
  <2>2. active' \in [IoLoops -> SUBSET Conns]
    BY <1>0, <1>1, <1>10 DEF Types
  <2> QED
    BY <1>0, <1>1, <1>6, <2>1, <2>2 DEF Types
<1>16. TypeOK'
    BY <1>11, <1>12, <1>15, TypesNext
<1>17. Inv'
    BY <1>8, <1>11, <1>12, <1>13, <1>14, <1>16 DEF Inv
<1>18. \A c \in Conns : Marks(c)
    BY <1>4, <1>5 DEF Marks
<1> QED
    BY <1>1, <1>17, <1>18

(***************************************************************************)
(* What Save() leaves behind                                                *)
(***************************************************************************)
LEMMA Saved ==
  ASSUME Types, NEW c \in Conns, NEW t \in Records,
         t.loop = conn[c].loop, t.fd = conn[c].fd, Bounded(t), Save(c, t)
  PROVE  /\ conn' \in [Conns -> ConnType] /\ Kin(t, conn'[c])
         /\ \A d \in Conns : d # c => conn'[d] = conn[d]
         /\ channels' \in [IoLoops -> [Fds -> Conns \cup {NoConn}]]
         /\ channels'[t.loop][t.fd] = t.slot
         /\ \A l \in IoLoops, f \in Fds :
              l # t.loop \/ f # t.fd => channels'[l][f] = channels[l][f]
         /\ queue' \in [Loops -> Seq(Functors)]
         /\ queue' = IF t.post
                     THEN [queue EXCEPT ![Main] = Append(@, <<"remove", c>>)]
                     ELSE queue
         /\ crash' = "no" => crash = "no" /\ t.stop \in {"no", "hung"}
         /\ t.stop \in {"no", "hung"} => crash' = crash
<1>1. t.loop \in IoLoops /\ t.fd \in Fds /\ t.slot \in Conns \cup {NoConn}
    BY DEF Records, Slots
<1>2. Stored(t) \in ConnType /\ Kin(t, Stored(t))
    BY StoredRecord
<1>3. conn' = [conn EXCEPT ![c] = Stored(t)]
    BY DEF Save, Stored
<1>4. /\ conn' \in [Conns -> ConnType] /\ conn'[c] = Stored(t)
      /\ \A d \in Conns : d # c => conn'[d] = conn[d]
    BY ONLY <1>2, <1>3, Types DEF Types
<1>5. channels' = [channels EXCEPT ![t.loop][t.fd] = t.slot]
    BY DEF Save
<1>6. /\ channels' \in [IoLoops -> [Fds -> Conns \cup {NoConn}]]
      /\ channels'[t.loop][t.fd] = t.slot
      /\ \A l \in IoLoops, f \in Fds :
           l # t.loop \/ f # t.fd => channels'[l][f] = channels[l][f]
    BY ONLY <1>1, <1>5, Types DEF Types
<1>7. queue' = IF t.post THEN [queue EXCEPT ![Main] = Append(@, <<"remove", c>>)]
                         ELSE queue
    BY DEF Save
<1>8. queue' \in [Loops -> Seq(Functors)]
  <2>1. PICK f \in Functors : f = <<"remove", c>>
    BY DEF Functors
  <2>2. Append(queue[Main], f) \in Seq(Functors)
    BY LoopFacts, AppendProperties DEF Types
  <2>3. queue' = IF t.post THEN [queue EXCEPT ![Main] = Append(queue[Main], f)]
                           ELSE queue
    BY ONLY <1>7, <2>1
  <2> QED
    BY ONLY <2>2, <2>3, Types DEF Types
<1>9. /\ crash' = "no" => crash = "no" /\ t.stop \in {"no", "hung"}
      /\ t.stop \in {"no", "hung"} => crash' = crash
    BY DEF Save
<1> QED
    BY <1>2, <1>4, <1>6, <1>7, <1>8, <1>9

\* A handler of a connection of the server changes no other connection.
LEMMA HandlerKeeps ==
  ASSUME Inv, NEW c \in Conns, Live(c), NEW t \in Records,
         t.loop = conn[c].loop, t.fd = conn[c].fd, Save(c, t), ConnOK(t),
         t.st \in {"kConnected", "kDisconnected"}, UNCHANGED backlog
  PROVE  /\ ConnsOK' /\ FdsOK' /\ BacklogOK'
         /\ conn' \in [Conns -> ConnType] /\ Kin(t, conn'[c])
         /\ \A d \in Conns : d # c => conn'[d] = conn[d]
<1>0. Types
    BY TypesHold DEF Inv
<1>1. /\ conn' \in [Conns -> ConnType] /\ Kin(t, conn'[c])
      /\ \A d \in Conns : d # c => conn'[d] = conn[d]
    BY <1>0, Saved DEF ConnOK
<1>2. ConnOK(conn'[c]) /\ conn'[c].st = t.st /\ conn'[c].fd = conn[c].fd
    BY <1>1, KinKeeps DEF Kin
<1>3. ConnsOK'
    BY <1>1, <1>2 DEF Inv, ConnsOK
<1>4. FdsOK'
    BY <1>1, <1>2 DEF Inv, FdsOK, Live
<1>5. BacklogOK'
  <2>1. \A i \in DOMAIN backlog : backlog[i] \in Conns
    BY <1>0, ElementOfSeq DEF Types
  <2> QED
    BY <1>1, <2>1 DEF Inv, BacklogOK, Live
<1> QED
    BY <1>1, <1>3, <1>4, <1>5

\* A connection whose events are handled
LEMMA EventRecord ==
  ASSUME Inv, NEW l \in IoLoops, NEW c \in active[l], NEW o \in Outcomes
  PROVE  LET t == HandleEvent(Load(c), o)
             r == conn[c]
         IN  /\ r.loop = l /\ r.st = "kConnected" /\ c \in Conns
             /\ r.fd \in Fds /\ channels[l][r.fd] = c
             /\ t \in Records /\ t.loop = l /\ t.fd = r.fd /\ t.slot = c
             /\ ConnOK(t)
             /\ \/ t.st = "kConnected" /\ ~t.post
                \/ Leaving(t) /\ t.post /\ ~t.alive
             /\ r.alive => t.alive
             /\ t.arm <=> t.alive /\ ~r.alive
             /\ t.stop \in {"no", "hung"} /\ t.st = "kConnected" => Heeded(t)
             /\ t.stop = "hung" => /\ t.st = "kConnected" /\ t.alive /\ t.end
                                   /\ t.out > 0 /\ t.ev = "read"
             /\ t.stop \in {"no", "hung"} \/ (t.stop # "epoll_ctl" /\ r.rst)
             /\ t.rst = r.rst /\ t.tmo = r.tmo
<1>0. Types /\ TypeOK
    BY TypesHold DEF Inv
<1>1. PICK r : r = conn[c]
    OBVIOUS
<1>2. /\ c \in Conns /\ r \in ConnType /\ r.loop = l /\ r.st = "kConnected"
      /\ Captured(r) /\ ConnOK(r)
    BY <1>0, <1>1 DEF Types, Inv, ActiveOK, ConnsOK
<1>3. r.fd \in Fds /\ r.idx = "kAdded" /\ r.ev \in {"read", "write"}
      /\ r.reg = r.ev /\ ~r.tmo /\ Settled(r) /\ ~r.bad /\ Bounded(r)
    BY <1>2 DEF ConnOK
<1>4. channels[l][r.fd] = c
    BY <1>1, <1>2 DEF Inv, ChannelsOK, Listed
<1>5. PICK s : s = Load(c)
    OBVIOUS
<1>6. /\ s \in Records /\ Kin(r, s) /\ s.rev = r.rev /\ s.self = c /\ s.slot = c
      /\ Running(s) /\ ~s.post /\ ~s.arm
    BY <1>0, <1>1, <1>2, <1>3, <1>4, <1>5, LoadedRecord
<1>7. Settled(s) /\ Bounded(s)
    BY <1>3, <1>6, KinKeeps
<1>8. Open(s)
    BY <1>2, <1>3, <1>6, <1>7 DEF Open, Sound, Kin, Running
<1>9. Captured(s)
    BY <1>2, <1>6 DEF Captured, Kin
<1>10. PICK t : t = HandleEvent(s, o)
    OBVIOUS
<1>11. /\ Kept(t) /\ Handled(s, t)
       /\ t.stop \in {"no", "hung"} /\ Open(t) => Heeded(t)
       /\ t.stop = "hung" => /\ Open(t)
                             /\ t.alive /\ t.end /\ t.out > 0 /\ t.ev = "read"
       /\ ~s.rst => t.stop \in {"no", "hung"}
    BY <1>6, <1>7, <1>8, <1>9, <1>10, EventKeeps
<1>12. Sound(t) /\ Same(s, t)
    BY <1>11 DEF Kept, Open, Shut, Handled
<1>13. /\ t \in Records /\ t.loop = l /\ t.fd = r.fd /\ t.slot = c
       /\ t.rst = r.rst /\ (t.err => t.rst) /\ t.self = c
       /\ ~t.tmo /\ t.stop # "epoll_ctl"
    BY <1>2, <1>6, <1>12 DEF Sound, Same, Kin, ConnOK
<1>a. t.tmo = r.tmo
    BY <1>2, <1>3, <1>13 DEF ConnType, Records
<1>14. \/ Open(t) /\ Settled(t) /\ t.st = "kConnected" /\ ~t.post
       \/ Shut(t) /\ Leaving(t) /\ t.post /\ ~t.alive
    BY <1>11 DEF Kept, Open, Shut, Leaving
<1>15. ConnOK(t)
  <2>1. t.loop \in IoLoops /\ t.fd \in Fds
    BY <1>3, <1>13
  <2>2. CASE Open(t) /\ Settled(t)
    BY <1>12, <1>13, <2>1, <2>2 DEF ConnOK, Open, Sound, Early
  <2>3. CASE Shut(t)
    BY <1>12, <1>13, <2>1, <2>3 DEF ConnOK, Shut, Sound, Early
  <2> QED
    BY <1>14, <2>2, <2>3
<1>16. t.st = "kConnected" => Open(t)
    BY <1>14 DEF Shut
<1>17. /\ r.alive => t.alive
       /\ t.arm <=> t.alive /\ ~r.alive
       /\ s.rst = r.rst
  <2>1. t.alive \in BOOLEAN /\ t.arm \in BOOLEAN /\ s.alive = r.alive
        /\ s.alive \in BOOLEAN /\ s.arm = FALSE /\ s.rst = r.rst
    BY <1>6, <1>13 DEF Records, Kin
  <2>2. /\ s.alive => t.alive
        /\ t.arm <=> (s.arm \/ (t.alive /\ ~s.alive))
    BY <1>11 DEF Handled
  <2> QED
    BY <2>1, <2>2
<1>18. /\ t.stop = "hung" => /\ t.st = "kConnected" /\ t.alive /\ t.end
                             /\ t.out > 0 /\ t.ev = "read"
    BY <1>11 DEF Open
<1> QED
    BY ONLY <1>1, <1>2, <1>3, <1>4, <1>5, <1>10, <1>11, <1>13, <1>14, <1>15,
            <1>16, <1>17, <1>18, <1>a

\* A connection that its peer reset still exists.
ByReset == \E c \in Conns : Live(c) /\ conn[c].rst

LEMMA DispatchKeeps ==
  ASSUME Inv, NEW l \in IoLoops, Dispatch(l)
  PROVE  /\ Inv'
         /\ \A c \in Conns : Marks(c)
         /\ crash' \in {crash, "SIGPIPE", "handleClose"}
         /\ UNCHANGED crash \/ ByReset'
<1>0. Types /\ TypeOK /\ FunctorsOK /\ l \in Loops
    BY TypesHold, LoopFacts DEF Inv
<1>c. PICK c \in active[l] :
        \E t \in {HandleEvent(Load(c), o) : o \in Outcomes} :
          /\ Save(c, t)
          /\ active' = [active EXCEPT ![l] = @ \ {c}]
          /\ lpc' = [lpc EXCEPT ![l] = IF t.stop = "hung" THEN "hung" ELSE @]
          /\ IF t.arm THEN AddTimer(l, c) ELSE UNCHANGED <<timers, timerfd>>
    BY Zenon DEF Dispatch
<1>t. PICK t \in {HandleEvent(Load(c), o) : o \in Outcomes} :
        /\ Save(c, t)
        /\ active' = [active EXCEPT ![l] = @ \ {c}]
        /\ lpc' = [lpc EXCEPT ![l] = IF t.stop = "hung" THEN "hung" ELSE @]
        /\ IF t.arm THEN AddTimer(l, c) ELSE UNCHANGED <<timers, timerfd>>
    BY <1>c, Zenon
<1>o. PICK o \in Outcomes : t = HandleEvent(Load(c), o)
    BY <1>t, Zenon
<1>1. /\ t = HandleEvent(Load(c), o)
      /\ Save(c, t)
      /\ active' = [active EXCEPT ![l] = @ \ {c}]
      /\ lpc' = [lpc EXCEPT ![l] = IF t.stop = "hung" THEN "hung" ELSE @]
      /\ IF t.arm THEN AddTimer(l, c) ELSE UNCHANGED <<timers, timerfd>>
    BY <1>t, <1>o, Zenon
<1>2. /\ UNCHANGED <<connections, nextLoop, backlog, listenEdge, accepting, due,
                     timerActive, batch, called>>
      /\ lpc[l] = "dispatch"
    BY DEF Dispatch, At, mainVars
<1>3. PICK r : r = conn[c]
    OBVIOUS
<1>4. /\ r.loop = l /\ r.st = "kConnected" /\ c \in Conns
      /\ r.fd \in Fds /\ channels[l][r.fd] = c
      /\ t \in Records /\ t.loop = l /\ t.fd = r.fd /\ t.slot = c
      /\ ConnOK(t)
      /\ \/ t.st = "kConnected" /\ ~t.post
         \/ Leaving(t) /\ t.post /\ ~t.alive
      /\ r.alive => t.alive
      /\ t.arm <=> t.alive /\ ~r.alive
      /\ t.stop \in {"no", "hung"} /\ t.st = "kConnected" => Heeded(t)
      /\ t.stop = "hung" => /\ t.st = "kConnected" /\ t.alive /\ t.end
                            /\ t.out > 0 /\ t.ev = "read"
      /\ t.stop \in {"no", "hung"} \/ (t.stop # "epoll_ctl" /\ r.rst)
      /\ t.rst = r.rst /\ t.tmo = r.tmo
    BY <1>1, <1>3, EventRecord
<1>5. /\ channels' \in [IoLoops -> [Fds -> Conns \cup {NoConn}]]
      /\ channels'[t.loop][t.fd] = t.slot
      /\ \A m \in IoLoops, f \in Fds :
           m # t.loop \/ f # t.fd => channels'[m][f] = channels[m][f]
      /\ queue' \in [Loops -> Seq(Functors)]
      /\ queue' = IF t.post
                  THEN [queue EXCEPT ![Main] = Append(@, <<"remove", c>>)]
                  ELSE queue
      /\ crash' = "no" => crash = "no" /\ t.stop \in {"no", "hung"}
    BY <1>0, <1>1, <1>3, <1>4, Saved DEF ConnOK
<1>6. /\ ConnsOK' /\ FdsOK' /\ BacklogOK'
      /\ conn' \in [Conns -> ConnType] /\ Kin(t, conn'[c])
      /\ \A d \in Conns : d # c => conn'[d] = conn[d]
  <2>1. Live(c)
    BY <1>3, <1>4 DEF Live
  <2>2. t.st \in {"kConnected", "kDisconnected"}
    BY <1>4 DEF Leaving
  <2> QED
    BY <1>1, <1>2, <1>3, <1>4, <2>1, <2>2, HandlerKeeps
<1>7. PICK u : u = conn'[c]
    OBVIOUS
<1>8. /\ u.loop = l /\ u.fd = r.fd /\ u.st = t.st /\ u.idx = t.idx
      /\ u.alive = t.alive /\ u.end = t.end /\ u.out = t.out /\ u.ev = t.ev
      /\ (Heeded(u) <=> Heeded(t)) /\ u.data = t.data
      /\ (Leaving(u) <=> Leaving(t)) /\ (Listed(u) <=> Listed(t))
    BY <1>4, <1>6, <1>7, KinKeeps DEF Kin, Leaving, Listed
<1>9. Listed(u) /\ Listed(r) /\ ~Waiting(r) /\ (Waiting(u) <=> Leaving(u))
    BY <1>4, <1>8 DEF Listed, Leaving, Waiting
<1>10. /\ active'[l] = active[l] \ {c}
       /\ \A m \in IoLoops : m # l => active'[m] = active[m]
       /\ lpc'[l] = IF t.stop = "hung" THEN "hung" ELSE "dispatch"
       /\ \A m \in Loops : m # l => lpc'[m] = lpc[m]
    BY ONLY <1>0, <1>1, <1>2 DEF Types
<1>11. ChannelsOK'
  <2>1. \A m \in IoLoops, f \in Fds : channels'[m][f] = channels[m][f]
    BY <1>4, <1>5
  <2>2. ASSUME NEW d \in Conns, Listed(conn'[d])
        PROVE  channels'[conn'[d].loop][conn'[d].fd] = d
    <3>1. CASE d = c
      BY <1>4, <1>5, <1>7, <1>8, <3>1
    <3>2. CASE d # c
      <4>1. conn[d].loop \in IoLoops /\ conn[d].fd \in Fds
        BY <1>6, <2>2, <3>2 DEF Inv, ConnsOK, ConnOK, Listed, Leaving
      <4> QED
        BY <1>6, <2>1, <2>2, <3>2, <4>1 DEF Inv, ChannelsOK
    <3> QED
      BY <3>1, <3>2
  <2>3. ASSUME NEW m \in IoLoops, NEW f \in Fds, channels'[m][f] \in Conns
        PROVE  LET s == conn'[channels'[m][f]]
               IN  Listed(s) /\ s.loop = m /\ s.fd = f
    <3>1. PICK d \in Conns : d = channels'[m][f] /\ d = channels[m][f]
      BY <2>1, <2>3
    <3>2. Listed(conn[d]) /\ conn[d].loop = m /\ conn[d].fd = f
      BY <3>1 DEF Inv, ChannelsOK
    <3> QED
      BY <1>3, <1>4, <1>6, <1>7, <1>8, <1>9, <3>1, <3>2
  <2> QED
    BY <2>2, <2>3 DEF ChannelsOK
<1>12. MapOK'
    BY <1>2, <1>3, <1>4, <1>6, <1>7, <1>9 DEF Inv, MapOK
<1>13. FunctorsOK'
  <2>1. \A d \in Conns : d # c => Steady(d)
    BY <1>2, <1>6 DEF Steady
  <2>2. CASE t.st = "kConnected" /\ ~t.post
    <3>1. UNCHANGED queue
      BY <1>5, <2>2
    <3>2. \A m \in Loops : /\ Uncalled(m)' = Uncalled(m)
                           /\ \A i \in Uncalled(m) :
                                FunctorAt(m, i)' = FunctorAt(m, i)
      BY <1>2, <3>1, SameQueue
    <3>3. Idle(c)
      BY <1>3, <1>7, <1>8, <1>9, <2>2 DEF Idle, Leaving
    <3> QED
      BY <1>0, <2>1, <3>2, <3>3, FunctorsStay
  <2>3. CASE Leaving(t) /\ t.post
    <3>1. PICK f \in Functors : f = <<"remove", c>>
      BY <1>4 DEF Functors
    <3>2. queue' = [queue EXCEPT ![Main] = Append(@, f)]
      BY <1>5, <2>3, <3>1
    <3>3. c \in connections'
      BY <1>2, <1>3, <1>4 DEF Inv, MapOK
    <3>4. FunctorOK(Main, f)'
      BY <1>7, <1>8, <2>3, <3>1, <3>3 DEF FunctorOK
    <3>5. f[2] = c
      BY <3>1
    <3> QED
      BY <1>0, <1>2, <1>3, <1>9, <2>1, <3>2, <3>4, <3>5, LoopFacts, FunctorsPush
  <2> QED
    BY <1>4, <2>2, <2>3
<1>14. ActiveOK'
  <2>1. ASSUME NEW m \in IoLoops, NEW d \in active'[m]
        PROVE  d \in active[m] /\ d \in Conns /\ d # c
    <3>1. d \in active[m] /\ (m = l => d # c)
      BY <1>10, <2>1
    <3>2. d \in Conns /\ conn[d].loop = m
      BY <1>0, <3>1 DEF Types, Inv, ActiveOK
    <3> QED
      BY <1>3, <1>4, <3>1, <3>2
  <2> QED
    BY <1>6, <2>1 DEF Inv, ActiveOK
<1>15. HungOK'
  <2> SUFFICES ASSUME NEW m \in IoLoops, lpc'[m] = "hung"
               PROVE  \E d \in Conns : /\ conn'[d].loop = m
                                       /\ conn'[d].st = "kConnected"
                                       /\ conn'[d].alive /\ conn'[d].end
                                       /\ conn'[d].out > 0 /\ conn'[d].ev = "read"
    BY DEF HungOK
  <2>1. CASE m = l
    <3>1. t.stop = "hung"
      BY <1>10, <2>1
    <3> QED
      BY <1>4, <1>7, <1>8, <2>1, <3>1
  <2>2. CASE m # l
    <3>1. lpc[m] = "hung"
      BY <1>10, <2>2, LoopFacts
    <3>2. PICK d \in Conns : /\ conn[d].loop = m /\ conn[d].st = "kConnected"
                             /\ conn[d].alive /\ conn[d].end
                             /\ conn[d].out > 0 /\ conn[d].ev = "read"
      BY <3>1 DEF Inv, HungOK
    <3>3. d # c
      BY <1>3, <1>4, <2>2, <3>2
    <3> QED
      BY <1>6, <3>2, <3>3
  <2> QED
    BY <2>1, <2>2
<1>16. DataIsWatched'
  <2> SUFFICES ASSUME NEW d \in Conns, conn'[d].st = "kConnected", conn'[d].data,
                      crash' = "no"
               PROVE  \/ d \in active'[conn'[d].loop]
                      \/ conn'[d].edge /\ (conn'[d].reg = "read" \/ ~conn'[d].full)
                      \/ conn'[d].reg = "write" /\ conn'[d].full
    BY DEF DataIsWatched
  <2>1. CASE d = c
    <3>1. Heeded(u)
      BY <1>4, <1>5, <1>7, <1>8, <2>1
    <3> QED
      BY <1>7, <2>1, <3>1 DEF Heeded
  <2>2. CASE d # c
    <3>1. /\ conn'[d] = conn[d] /\ crash = "no"
          /\ conn[d].loop \in IoLoops
      BY <1>5, <1>6, <2>2 DEF Inv, ConnsOK, ConnOK
    <3>2. \/ d \in active[conn[d].loop]
          \/ conn[d].edge /\ (conn[d].reg = "read" \/ ~conn[d].full)
          \/ conn[d].reg = "write" /\ conn[d].full
      BY <3>1 DEF Inv, DataIsWatched
    <3> QED
      BY <1>10, <2>2, <3>1, <3>2
  <2> QED
    BY <2>1, <2>2
<1>17. LoopsOK'
    BY <1>2, <1>10, LoopFacts DEF Inv, LoopsOK
<1>18. Types' /\ TimersOK'
  <2>1. /\ lpc' \in [Loops -> {"poll", "dispatch", "run", "timeouts", "hung"}]
        /\ active' \in [IoLoops -> SUBSET Conns]
    BY <1>0, <1>1 DEF Types
  <2>2. \A m \in IoLoops : \A i \in DOMAIN timers[m] : timers[m][i] \in Conns
    BY <1>0, ElementOfSeq DEF Types
  <2>3. CASE ~t.arm
    <3>1. UNCHANGED <<timers, timerfd>>
      BY <1>1, <2>3
    <3>2. Types'
      BY <1>0, <1>2, <1>5, <1>6, <2>1, <3>1 DEF Types
    <3>3. ASSUME NEW m \in IoLoops, NEW i \in DOMAIN timers[m], timers[m][i] = c
          PROVE  t.alive /\ m = l /\ t.st = "kConnected"
      <4>1. conn[c].alive /\ conn[c].loop = m
        BY <3>3 DEF Inv, TimersOK
      <4> QED
        BY <1>3, <1>4, <4>1
    <3>4. ASSUME u.st = "kConnected", u.alive PROVE r.alive
      BY <1>4, <1>8, <2>3, <3>4
    <3>5. TimersOK'
      <4>1. ASSUME NEW m \in IoLoops, NEW i \in DOMAIN timers[m]
            PROVE  LET s == conn'[timers[m][i]] IN
                   s.loop = m /\ s.st = "kConnected" /\ s.alive
        <5>1. CASE timers[m][i] = c
          BY <1>7, <1>8, <3>3, <5>1
        <5>2. CASE timers[m][i] # c
          BY <1>6, <2>2, <5>2 DEF Inv, TimersOK
        <5> QED
          BY <5>1, <5>2
      <4>2. ASSUME NEW d \in Conns, conn'[d].st = "kConnected", conn'[d].alive
            PROVE  \E i \in DOMAIN timers[conn'[d].loop] :
                     timers[conn'[d].loop][i] = d
        <5>1. conn[d].st = "kConnected" /\ conn[d].alive /\ conn[d].loop = conn'[d].loop
          BY <1>3, <1>4, <1>6, <1>7, <1>8, <3>4, <4>2
        <5> QED
          BY <5>1 DEF Inv, TimersOK
      <4>3. \A m \in IoLoops : \A i, j \in DOMAIN timers[m] :
              timers[m][i] = timers[m][j] => i = j
        BY DEF Inv, TimersOK
      <4> QED
        BY <3>1, <4>1, <4>2, <4>3 DEF TimersOK
    <3> QED
      BY <3>2, <3>5
  <2>4. CASE t.arm
    <3>1. PICK q \in Seq(Conns) : q = timers[l]
      BY <1>0 DEF Types
    <3>2. PICK p \in Seq(Conns) : p = Append(q, c)
      BY <1>4, AppendProperties
    <3>3. timers' = [timers EXCEPT ![l] = p] /\ timerfd' = [timerfd EXCEPT ![l] = "armed"]
      BY <1>1, <2>4, <3>1, <3>2 DEF AddTimer
    <3>4. /\ Len(q) \in Nat /\ Len(p) = Len(q) + 1 /\ p[Len(q) + 1] = c
          /\ DOMAIN q = 1..Len(q) /\ DOMAIN p = 1..(Len(q) + 1)
          /\ \A i \in 1..Len(q) : p[i] = q[i]
      BY <1>4, <3>1, <3>2, AppendProperties, LenProperties
    <3>5. /\ timers' \in [IoLoops -> Seq(Conns)] /\ timers'[l] = p
          /\ \A m \in IoLoops : m # l => timers'[m] = timers[m]
          /\ timerfd' \in [IoLoops -> {"idle", "armed", "expired"}]
      BY ONLY <1>0, <3>2, <3>3 DEF Types
    <3>6. \A m \in IoLoops : due'[m] <= Len(timers'[m])
      <4>1. \A m \in IoLoops : due[m] \in Nat /\ due[m] <= Len(timers[m])
        BY <1>0 DEF Types
      <4>2. due[l] <= Len(q) + 1
        BY <3>1, <3>4, <4>1
      <4> QED
        BY ONLY <1>2, <3>4, <3>5, <4>1, <4>2
    <3>7. Types'
      BY <1>0, <1>2, <1>5, <1>6, <2>1, <3>5, <3>6 DEF Types
    <3>8. t.alive /\ ~r.alive /\ t.st = "kConnected"
      BY <1>4, <2>4
    <3>9. \A m \in IoLoops : \A i \in DOMAIN timers[m] : timers[m][i] # c
      BY <1>3, <3>8 DEF Inv, TimersOK
    <3>10. \A i \in DOMAIN p : \/ i \in DOMAIN q /\ p[i] = q[i] /\ p[i] # c
                               \/ i = Len(q) + 1 /\ p[i] = c
      BY <3>1, <3>4, <3>9
    <3>11. TimersOK'
      <4>1. ASSUME NEW m \in IoLoops, NEW i \in DOMAIN timers'[m]
            PROVE  /\ LET s == conn'[timers'[m][i]] IN
                      s.loop = m /\ s.st = "kConnected" /\ s.alive
                   /\ \A j \in DOMAIN timers'[m] :
                        timers'[m][i] = timers'[m][j] => i = j
        <5>1. CASE m = l
          <6>1. i \in DOMAIN p /\ timers'[m] = p
            BY <3>5, <4>1, <5>1
          <6>2. CASE p[i] = c
            BY <1>7, <1>8, <3>8, <3>10, <5>1, <6>1, <6>2, ZenonT(30)
          <6>3. CASE p[i] # c
            <7>1. i \in DOMAIN q /\ p[i] = q[i]
              BY <3>10, <6>1, <6>3
            <7>2. /\ conn[q[i]].loop = l /\ conn[q[i]].st = "kConnected"
                  /\ conn[q[i]].alive
                  /\ \A j \in DOMAIN q : q[i] = q[j] => i = j
              BY <3>1, <7>1 DEF Inv, TimersOK
            <7>3. conn'[q[i]] = conn[q[i]]
              BY <1>6, <2>2, <3>1, <6>3, <7>1
            <7> QED
              BY <3>10, <5>1, <6>1, <6>3, <7>1, <7>2, <7>3
          <6> QED
            BY <6>2, <6>3
        <5>2. CASE m # l
          <6>1. timers'[m] = timers[m] /\ i \in DOMAIN timers[m]
            BY <3>5, <4>1, <5>2
          <6>2. conn'[timers[m][i]] = conn[timers[m][i]]
            BY <1>6, <2>2, <3>9, <6>1
          <6> QED
            BY <6>1, <6>2 DEF Inv, TimersOK
        <5> QED
          BY <5>1, <5>2
      <4>2. ASSUME NEW d \in Conns, conn'[d].st = "kConnected", conn'[d].alive
            PROVE  \E i \in DOMAIN timers'[conn'[d].loop] :
                     timers'[conn'[d].loop][i] = d
        <5>1. CASE d = c
          BY <1>7, <1>8, <3>4, <3>5, <5>1
        <5>2. CASE d # c
          <6>1. /\ conn'[d] = conn[d] /\ conn[d].loop \in IoLoops
            BY <1>6, <4>2, <5>2 DEF Inv, ConnsOK, ConnOK
          <6>2. PICK i \in DOMAIN timers[conn[d].loop] : timers[conn[d].loop][i] = d
            BY <4>2, <6>1 DEF Inv, TimersOK
          <6>3. CASE conn[d].loop = l
            <7>1. i \in DOMAIN p /\ p[i] = d
              BY <3>1, <3>4, <6>2, <6>3
            <7> QED
              BY <3>5, <6>1, <6>3, <7>1
          <6>4. CASE conn[d].loop # l
            BY <3>5, <6>1, <6>2, <6>4
          <6> QED
            BY <6>3, <6>4
        <5> QED
          BY <5>1, <5>2
      <4> QED
        BY <4>1, <4>2 DEF TimersOK
    <3> QED
      BY <3>7, <3>11
  <2> QED
    BY <2>3, <2>4
<1>19. TypeOK'
    BY <1>14, <1>18, TypesNext
<1>20. \A d \in Conns : Marks(d)
    BY <1>3, <1>4, <1>6 DEF Marks, Kin
<1>21. /\ crash' \in {crash, "SIGPIPE", "handleClose"}
       /\ UNCHANGED crash \/ ByReset'
  <2>1. /\ crash' \in {crash, "SIGPIPE", "handleClose"}
        /\ ~r.rst => UNCHANGED crash
    BY <1>1, <1>4 DEF Save, Records, Ends
  <2>2. r.rst => ByReset'
    BY <1>4, <1>6 DEF ByReset, Live, Kin, Leaving
  <2> QED
    BY <2>1, <2>2
<1>22. Inv'
    BY <1>6, <1>11, <1>12, <1>13, <1>14, <1>15, <1>16, <1>17, <1>18, <1>19 DEF Inv
<1> QED
    BY <1>3, <1>4, <1>20, <1>21, <1>22

\* Loops' channel lists, the loops that hang and the bytes that wait depend on
\* a connection only while it is open.
LEMMA ClosedKeeps ==
  ASSUME Inv, NEW c \in Conns, conn'[c].st # "kConnected",
         conn[c].st # "kConnected" \/ (conn[c].loop \in IoLoops
                                       /\ active[conn[c].loop] = {}
                                       /\ lpc[conn[c].loop] # "hung"),
         \A d \in Conns : d # c => conn'[d] = conn[d],
         UNCHANGED active, \A l \in IoLoops : lpc'[l] = "hung" => lpc[l] = "hung",
         crash' = "no" => crash = "no"
  PROVE  ActiveOK' /\ HungOK' /\ DataIsWatched'
<1>0. Types
    BY TypesHold DEF Inv
<1>1. \A l \in IoLoops : \A d \in active[l] : d \in Conns /\ d # c
    BY <1>0 DEF Types, Inv, ActiveOK
<1>2. ActiveOK'
    BY <1>1 DEF Inv, ActiveOK
<1>3. HungOK'
    BY DEF Inv, HungOK
<1>4. DataIsWatched'
    BY DEF Inv, DataIsWatched
<1> QED
    BY <1>2, <1>3, <1>4

\* A timer closes its connection.
LEMMA TimeOutKeeps ==
  ASSUME Inv, NEW l \in IoLoops, TimeOut(l)
  PROVE  /\ Inv'
         /\ \A c \in Conns : \/ Marks(c)
                             \/ /\ conn'[c].rst = conn[c].rst
                                /\ active[conn[c].loop] = {}
         /\ UNCHANGED crash
<1>0. Types /\ TypeOK /\ FunctorsOK /\ l \in Loops
    BY TypesHold, LoopFacts DEF Inv
<1>1. PICK q \in Seq(Conns) : q = timers[l]
    BY <1>0 DEF Types
<1>2. due[l] \in Nat /\ due[l] > 0 /\ due[l] <= Len(q) /\ Len(q) \in Nat
    BY <1>0, <1>1, LenProperties DEF Types, TimeOut
<1>3. q # <<>>
    BY <1>2
<1>4. PICK c \in Conns, p \in Seq(Conns) : c = Head(q) /\ p = Tail(q)
    BY <1>3, HeadTailProperties
<1>5. /\ c = q[1] /\ 1 \in DOMAIN q /\ Len(p) = Len(q) - 1
      /\ DOMAIN q = 1..Len(q) /\ DOMAIN p = 1..Len(p)
      /\ \A i \in 1..Len(p) : p[i] = q[i + 1]
    BY <1>2, <1>3, <1>4, HeadTailProperties, LenProperties
<1>6. PICK t : t = CloseLongConnection(Load(c))
    OBVIOUS
<1>7. /\ UNCHANGED <<connections, nextLoop, backlog, listenEdge, accepting, timerfd,
                     active, timerActive, batch, called, lpc>>
      /\ lpc[l] = "timeouts"
      /\ Save(c, t)
      /\ timers' = [timers EXCEPT ![l] = p]
      /\ due' = [due EXCEPT ![l] = @ - 1]
    BY <1>1, <1>4, <1>6 DEF TimeOut, At, mainVars, loopVars
<1>8. PICK r : r = conn[c]
    OBVIOUS
<1>9. r.loop = l /\ r.st = "kConnected" /\ r.alive /\ ConnOK(r)
    BY <1>1, <1>5, <1>8 DEF Inv, TimersOK, ConnsOK
<1>10. /\ r.fd \in Fds /\ r.idx = "kAdded" /\ ~r.bad /\ Bounded(r) /\ (r.err => r.rst)
       /\ channels[l][r.fd] = c
    BY <1>8, <1>9 DEF ConnOK, Inv, ChannelsOK, Listed
<1>11. PICK s : s = Load(c)
    OBVIOUS
<1>12. /\ s \in Records /\ Kin(r, s) /\ s.self = c /\ s.slot = c
       /\ Running(s) /\ ~s.post
    BY <1>0, <1>8, <1>9, <1>10, <1>11, LoadedRecord
<1>13. s.idx = "kAdded" /\ s.st = "kConnected" /\ s.loop = l /\ s.fd = r.fd
    BY <1>9, <1>10, <1>12 DEF Kin
<1>14. /\ t \in Records /\ Beside(s, t)
       /\ t.st = "kDisconnected" /\ t.idx = "kDeleted" /\ t.ev = "none"
       /\ t.reg = "off" /\ t.slot = s.slot /\ t.tmo /\ t.post
    BY <1>6, <1>11, <1>12, <1>13, TimeoutRecord
<1>15. t.loop = l /\ t.fd = r.fd /\ t.slot = c /\ Leaving(t)
    BY <1>12, <1>13, <1>14 DEF Beside, Leaving
<1>16. ConnOK(t)
  <2>1. /\ t.out = r.out /\ t.data = r.data /\ t.sends = r.sends /\ t.bad = r.bad
        /\ t.err = r.err /\ t.rst = r.rst
    BY <1>12, <1>14 DEF Beside, Kin
  <2>2. Bounded(t)
    BY <1>10, <2>1 DEF Bounded
  <2> QED
    BY <1>9, <1>10, <1>14, <1>15, <2>1, <2>2 DEF ConnOK, Early
<1>17. /\ channels' \in [IoLoops -> [Fds -> Conns \cup {NoConn}]]
       /\ channels'[t.loop][t.fd] = t.slot
       /\ \A m \in IoLoops, f \in Fds :
            m # t.loop \/ f # t.fd => channels'[m][f] = channels[m][f]
       /\ queue' \in [Loops -> Seq(Functors)]
       /\ queue' = IF t.post
                   THEN [queue EXCEPT ![Main] = Append(@, <<"remove", c>>)]
                   ELSE queue
       /\ crash' = "no" => crash = "no" /\ t.stop \in {"no", "hung"}
    BY <1>0, <1>7, <1>8, <1>9, <1>14, <1>15, <1>16, Saved DEF ConnOK
<1>18. /\ ConnsOK' /\ FdsOK' /\ BacklogOK'
       /\ conn' \in [Conns -> ConnType] /\ Kin(t, conn'[c])
       /\ \A d \in Conns : d # c => conn'[d] = conn[d]
  <2>1. Live(c)
    BY <1>8, <1>9 DEF Live
  <2> QED
    BY <1>7, <1>8, <1>9, <1>14, <1>15, <1>16, <2>1, HandlerKeeps
<1>19. PICK u : u = conn'[c]
    OBVIOUS
<1>20. /\ u.loop = l /\ u.fd = r.fd /\ Leaving(u) /\ Listed(u) /\ Listed(r)
       /\ u.st = "kDisconnected" /\ ~Waiting(r)
    BY <1>9, <1>14, <1>15, <1>18, <1>19 DEF Kin, Leaving, Listed, Waiting
<1>21. ChannelsOK'
  <2>1. \A m \in IoLoops, f \in Fds : channels'[m][f] = channels[m][f]
    BY <1>10, <1>15, <1>17
  <2>2. ASSUME NEW d \in Conns, Listed(conn'[d])
        PROVE  channels'[conn'[d].loop][conn'[d].fd] = d
    <3>1. CASE d = c
      BY <1>10, <1>19, <1>20, <2>1, <3>1
    <3>2. CASE d # c
      <4>1. conn[d].loop \in IoLoops /\ conn[d].fd \in Fds
        BY <1>18, <2>2, <3>2 DEF Inv, ConnsOK, ConnOK, Listed, Leaving
      <4> QED
        BY <1>18, <2>1, <2>2, <3>2, <4>1 DEF Inv, ChannelsOK
    <3> QED
      BY <3>1, <3>2
  <2>3. ASSUME NEW m \in IoLoops, NEW f \in Fds, channels'[m][f] \in Conns
        PROVE  LET x == conn'[channels'[m][f]]
               IN  Listed(x) /\ x.loop = m /\ x.fd = f
    <3>1. PICK d \in Conns : d = channels'[m][f] /\ d = channels[m][f]
      BY <2>1, <2>3
    <3>2. Listed(conn[d]) /\ conn[d].loop = m /\ conn[d].fd = f
      BY <3>1 DEF Inv, ChannelsOK
    <3> QED
      BY <1>8, <1>9, <1>18, <1>19, <1>20, <3>1, <3>2
  <2> QED
    BY <2>2, <2>3 DEF ChannelsOK
<1>22. MapOK'
    BY <1>7, <1>8, <1>9, <1>18, <1>19, <1>20 DEF Inv, MapOK
<1>23. FunctorsOK'
  <2>1. \A d \in Conns : d # c => Steady(d)
    BY <1>7, <1>18 DEF Steady
  <2>2. PICK f \in Functors : f = <<"remove", c>>
    BY DEF Functors
  <2>3. queue' = [queue EXCEPT ![Main] = Append(@, f)]
    BY <1>14, <1>17, <2>2
  <2>4. c \in connections'
    BY <1>7, <1>8, <1>9 DEF Inv, MapOK
  <2>5. FunctorOK(Main, f)'
    BY <1>19, <1>20, <2>2, <2>4 DEF FunctorOK
  <2>6. f[2] = c
    BY <2>2
  <2> QED
    BY <1>0, <1>7, <1>8, <1>20, <2>1, <2>3, <2>5, <2>6, LoopFacts, FunctorsPush
<1>24. LoopsOK'
    BY <1>7 DEF Inv, LoopsOK
<1>25. ActiveOK' /\ HungOK' /\ DataIsWatched'
  <2>1. active[l] = {}
    BY <1>7 DEF Inv, LoopsOK
  <2> QED
    BY <1>7, <1>8, <1>9, <1>17, <1>18, <1>19, <1>20, <2>1, ClosedKeeps
<1>26. /\ timers' \in [IoLoops -> Seq(Conns)] /\ timers'[l] = p
       /\ \A m \in IoLoops : m # l => timers'[m] = timers[m]
    BY ONLY <1>0, <1>4, <1>7 DEF Types
<1>27. Types'
  <2>1. \A m \in IoLoops : due[m] \in Nat /\ due[m] <= Len(timers[m])
    BY <1>0 DEF Types
  <2>2. due[l] - 1 \in Nat /\ due[l] - 1 <= Len(p)
    BY <1>2, <1>5
  <2>3. due' \in [IoLoops -> Nat] /\ \A m \in IoLoops : due'[m] <= Len(timers'[m])
    BY ONLY <1>0, <1>7, <1>26, <2>1, <2>2 DEF Types
  <2> QED
    BY <1>0, <1>7, <1>17, <1>18, <1>26, <2>3 DEF Types
<1>28. TimersOK'
  <2>1. \A i \in DOMAIN p : /\ i \in Nat /\ i + 1 \in DOMAIN q /\ p[i] = q[i + 1]
                            /\ p[i] # c /\ p[i] \in Conns
    <3>1. \A i \in DOMAIN p : /\ i \in Nat /\ i + 1 \in DOMAIN q /\ p[i] = q[i + 1]
                              /\ i + 1 # 1
      BY <1>2, <1>5
    <3>2. \A i \in DOMAIN q : q[1] = q[i] => 1 = i
      BY <1>1, <1>5 DEF Inv, TimersOK
    <3> QED
      BY <1>5, <3>1, <3>2, ElementOfSeq
  <2>2. \A m \in IoLoops : \A i \in DOMAIN timers[m] :
          timers[m][i] \in Conns /\ conn[timers[m][i]].loop = m
    BY <1>0, ElementOfSeq DEF Types, Inv, TimersOK
  <2>3. ASSUME NEW m \in IoLoops, NEW i \in DOMAIN timers'[m]
        PROVE  /\ LET x == conn'[timers'[m][i]] IN
                  x.loop = m /\ x.st = "kConnected" /\ x.alive
               /\ \A j \in DOMAIN timers'[m] :
                    timers'[m][i] = timers'[m][j] => i = j
    <3>1. CASE m = l
      <4>1. /\ timers'[m] = p /\ i \in DOMAIN p
        BY <1>26, <2>3, <3>1
      <4>2. /\ conn[p[i]].loop = l /\ conn[p[i]].st = "kConnected"
            /\ conn[p[i]].alive
        BY <1>1, <2>1, <4>1 DEF Inv, TimersOK
      <4>3. \A j \in DOMAIN p : p[i] = p[j] => i = j
        <5>1. \A j, k \in DOMAIN q : q[j] = q[k] => j = k
          BY <1>1 DEF Inv, TimersOK
        <5>2. \A j \in DOMAIN p : p[i] = p[j] => i + 1 = j + 1
          BY <2>1, <4>1, <5>1
        <5>3. \A j \in DOMAIN p : j \in Nat
          BY <2>1
        <5> QED
          BY <4>1, <5>2, <5>3
      <4> QED
        BY <1>18, <2>1, <3>1, <4>1, <4>2, <4>3
    <3>2. CASE m # l
      <4>1. timers'[m] = timers[m] /\ i \in DOMAIN timers[m]
        BY <1>26, <2>3, <3>2
      <4>2. timers[m][i] # c
        BY <1>8, <1>9, <2>2, <3>2, <4>1
      <4>3. conn'[timers[m][i]] = conn[timers[m][i]]
        BY <1>18, <2>2, <4>1, <4>2
      <4> QED
        BY <4>1, <4>3 DEF Inv, TimersOK
    <3> QED
      BY <3>1, <3>2
  <2>4. ASSUME NEW d \in Conns, conn'[d].st = "kConnected", conn'[d].alive
        PROVE  \E i \in DOMAIN timers'[conn'[d].loop] :
                 timers'[conn'[d].loop][i] = d
    <3>1. d # c
      BY <1>19, <1>20, <2>4
    <3>2. conn'[d] = conn[d] /\ conn[d].loop \in IoLoops
      BY <1>18, <2>4, <3>1 DEF Inv, ConnsOK, ConnOK
    <3>3. PICK i \in DOMAIN timers[conn[d].loop] : timers[conn[d].loop][i] = d
      BY <2>4, <3>2 DEF Inv, TimersOK
    <3>4. CASE conn[d].loop # l
      BY <1>26, <3>2, <3>3, <3>4
    <3>5. CASE conn[d].loop = l
      <4>1. i \in DOMAIN q /\ q[i] = d /\ i # 1
        BY <1>1, <1>5, <3>1, <3>3, <3>5
      <4>2. i - 1 \in DOMAIN p /\ (i - 1) + 1 = i
        BY <1>2, <1>5, <4>1
      <4>3. p[i - 1] = d
        BY <2>1, <4>1, <4>2
      <4> QED
        BY <1>26, <3>2, <3>5, <4>2, <4>3
    <3> QED
      BY <3>4, <3>5
  <2> QED
    BY <2>3, <2>4 DEF TimersOK
<1>29. TypeOK'
    BY <1>25, <1>27, <1>28, TypesNext
<1>30. \A d \in Conns : d # c => Marks(d)
    BY <1>18 DEF Marks
<1>31. conn'[c].rst = conn[c].rst /\ active[conn[c].loop] = {}
  <2>1. active[l] = {}
    BY <1>7 DEF Inv, LoopsOK
  <2> QED
    BY <1>8, <1>9, <1>12, <1>14, <1>18, <2>1 DEF Beside, Kin
<1>32. UNCHANGED crash
    BY <1>7, <1>12, <1>14 DEF Save, Beside, Running
<1>33. Inv'
    BY <1>18, <1>21, <1>22, <1>23, <1>24, <1>25, <1>28, <1>29 DEF Inv
<1> QED
    BY <1>30, <1>31, <1>32, <1>33

(***************************************************************************)
(* connectEstablished() and connectDestroyed()                              *)
(***************************************************************************)
\* A connection that is not open has no timer.
LEMMA UntimedKeeps ==
  ASSUME Inv, NEW c \in Conns, conn[c].st # "kConnected",
         ~(conn'[c].st = "kConnected" /\ conn'[c].alive),
         \A d \in Conns : d # c => conn'[d] = conn[d], UNCHANGED timers
  PROVE  TimersOK'
<1>0. Types
    BY TypesHold DEF Inv
<1>1. \A l \in IoLoops : \A i \in DOMAIN timers[l] :
        timers[l][i] \in Conns /\ timers[l][i] # c
    BY <1>0, ElementOfSeq DEF Types, Inv, TimersOK
<1> QED
    BY <1>1 DEF Inv, TimersOK

\* The functor a loop calls next speaks of its connection.
LEMMA CalledFunctor ==
  ASSUME Inv, NEW l \in Loops, called[l] < Len(batch[l]),
         Due(l)[1] \in {"established", "destroy"}
  PROVE  Due(l)[2] \in Conns /\ FunctorOK(l, Due(l))
<1>1. TypeOK /\ FunctorsOK
    BY DEF Inv
<1>2. Due(l) \in Functors /\ FunctorOK(l, Due(l))
    BY <1>1, DueFacts DEF FunctorsOK
<1> QED
    BY <1>2, FunctorParts

LEMMA EstablishedKeeps ==
  ASSUME Inv, NEW l \in IoLoops, Calls(l, "established"),
         Save(Due(l)[2], ConnectEstablished(Load(Due(l)[2]))), CallDone(l),
         UNCHANGED <<mainVars, timerVars, active, timerActive, batch, lpc>>
  PROVE  Inv' /\ (\A c \in Conns : Marks(c)) /\ UNCHANGED crash
<1>0. Types /\ TypeOK /\ FunctorsOK /\ l \in Loops
    BY TypesHold, LoopFacts DEF Inv
<1>1. /\ UNCHANGED <<connections, nextLoop, backlog, listenEdge, accepting, timers,
                     due, timerfd, active, timerActive, batch, lpc>>
      /\ lpc[l] = "run" /\ called[l] < Len(batch[l]) /\ Due(l)[1] = "established"
      /\ called' = [called EXCEPT ![l] = @ + 1]
    BY DEF Calls, CallDone, At, Due, mainVars, timerVars
<1>2. Due(l)[2] \in Conns /\ FunctorOK(l, Due(l))
    BY <1>0, <1>1, CalledFunctor
<1>c. PICK c \in Conns : c = Due(l)[2]
    BY <1>2
<1>3. PICK r, s, t :
        c = Due(l)[2] /\ r = conn[c] /\ s = Load(c) /\ t = ConnectEstablished(s)
    BY <1>c
<1>4. Save(c, t)
    BY <1>3
<1>5. r.st = "kConnecting" /\ r.loop = l /\ ConnOK(r)
    BY <1>1, <1>2, <1>3 DEF FunctorOK, Inv, ConnsOK
<1>6. /\ r.fd \in Fds /\ r.idx = "kNew" /\ r.reg = "off" /\ ~r.alive /\ ~r.tmo
      /\ ~r.end /\ ~r.bad /\ Bounded(r) /\ (r.err => r.rst)
    BY <1>5 DEF ConnOK, Early
<1>7. ~Listed(r) /\ Live(c)
    BY <1>3, <1>5 DEF Listed, Leaving, Live
<1>8. channels[l][r.fd] = NoConn
  <2>1. SUFFICES ASSUME channels[l][r.fd] \in Conns PROVE FALSE
    BY <1>0, <1>6 DEF Types
  <2>2. PICK d \in Conns : d = channels[l][r.fd]
    BY <2>1
  <2>3. Listed(conn[d]) /\ conn[d].fd = r.fd
    BY <1>6, <2>2 DEF Inv, ChannelsOK
  <2>4. Live(d)
    BY <2>3 DEF Listed, Leaving, Live
  <2>5. d = c
    BY <1>3, <1>7, <2>3, <2>4 DEF Inv, FdsOK
  <2> QED
    BY <1>3, <1>7, <2>3, <2>5
<1>9. /\ s \in Records /\ Kin(r, s) /\ s.self = c /\ s.slot = NoConn /\ ~s.post
      /\ Running(s)
    BY <1>0, <1>3, <1>5, <1>6, <1>8, LoadedRecord
<1>10. s.idx = "kNew" /\ s.reg = "off" /\ s.loop = l /\ s.fd = r.fd
    BY <1>5, <1>6, <1>9 DEF Kin
<1>11. /\ t \in Records /\ Beside(s, t)
       /\ t.st = "kConnected" /\ t.idx = "kAdded" /\ t.ev = "read"
       /\ t.reg = "read" /\ t.edge /\ t.slot = s.self /\ t.tmo = s.tmo
       /\ t.post = s.post
    BY <1>3, <1>9, <1>10, EstablishRecord
<1>12. t.loop = l /\ t.fd = r.fd /\ t.slot = c /\ ~t.post /\ Listed(t)
    BY <1>9, <1>10, <1>11 DEF Beside, Listed
<1>13. /\ t.out = r.out /\ t.data = r.data /\ t.sends = r.sends /\ t.bad = r.bad
       /\ t.err = r.err /\ t.rst = r.rst /\ t.alive = r.alive /\ t.end = r.end
       /\ t.tmo = r.tmo
    BY <1>9, <1>11 DEF Beside, Kin
<1>14. ConnOK(t)
  <2>1. Bounded(t) /\ Settled(t)
    BY <1>6, <1>11, <1>13 DEF Bounded, Settled
  <2> QED
    BY <1>5, <1>6, <1>11, <1>12, <1>13, <2>1 DEF ConnOK, Early
<1>15. /\ channels' \in [IoLoops -> [Fds -> Conns \cup {NoConn}]]
       /\ channels'[t.loop][t.fd] = t.slot
       /\ \A m \in IoLoops, f \in Fds :
            m # t.loop \/ f # t.fd => channels'[m][f] = channels[m][f]
       /\ queue' \in [Loops -> Seq(Functors)]
       /\ queue' = IF t.post
                   THEN [queue EXCEPT ![Main] = Append(@, <<"remove", c>>)]
                   ELSE queue
       /\ crash' = "no" => crash = "no" /\ t.stop \in {"no", "hung"}
    BY <1>0, <1>3, <1>4, <1>5, <1>11, <1>12, <1>14, Saved DEF ConnOK
<1>16. /\ ConnsOK' /\ FdsOK' /\ BacklogOK'
       /\ conn' \in [Conns -> ConnType] /\ Kin(t, conn'[c])
       /\ \A d \in Conns : d # c => conn'[d] = conn[d]
    BY <1>1, <1>3, <1>4, <1>5, <1>7, <1>11, <1>12, <1>14, HandlerKeeps
<1>17. PICK u : u = conn'[c]
    OBVIOUS
<1>18. /\ u.loop = l /\ u.fd = r.fd /\ u.st = "kConnected" /\ Listed(u)
       /\ ~u.alive /\ u.reg = "read" /\ u.edge /\ ~Waiting(u)
    BY <1>6, <1>11, <1>12, <1>13, <1>16, <1>17 DEF Kin, Listed, Waiting, Leaving
<1>19. UNCHANGED queue
    BY <1>12, <1>15
<1>20. ChannelsOK'
  <2>1. ASSUME NEW d \in Conns, Listed(conn'[d])
        PROVE  channels'[conn'[d].loop][conn'[d].fd] = d
    <3>1. CASE d = c
      BY <1>12, <1>15, <1>17, <1>18, <3>1
    <3>2. CASE d # c
      <4>1. /\ conn[d].loop \in IoLoops /\ conn[d].fd \in Fds /\ conn'[d] = conn[d]
            /\ channels[conn[d].loop][conn[d].fd] = d
        BY <1>16, <2>1, <3>2 DEF Inv, ConnsOK, ConnOK, ChannelsOK, Listed, Leaving
      <4>2. conn[d].loop # l \/ conn[d].fd # r.fd
        BY <1>8, <4>1, ServerAssumption
      <4> QED
        BY <1>12, <1>15, <4>1, <4>2
    <3> QED
      BY <3>1, <3>2
  <2>2. ASSUME NEW m \in IoLoops, NEW f \in Fds, channels'[m][f] \in Conns
        PROVE  LET x == conn'[channels'[m][f]]
               IN  Listed(x) /\ x.loop = m /\ x.fd = f
    <3>1. CASE m = l /\ f = r.fd
      BY <1>12, <1>15, <1>17, <1>18, <3>1
    <3>2. CASE m # l \/ f # r.fd
      <4>1. PICK d \in Conns : d = channels'[m][f] /\ d = channels[m][f]
        BY <1>12, <1>15, <2>2, <3>2
      <4>2. Listed(conn[d]) /\ conn[d].loop = m /\ conn[d].fd = f
        BY <4>1 DEF Inv, ChannelsOK
      <4>3. d # c
        BY <1>3, <1>7, <4>2
      <4> QED
        BY <1>16, <4>1, <4>2, <4>3
    <3> QED
      BY <3>1, <3>2
  <2> QED
    BY <2>1, <2>2 DEF ChannelsOK
<1>21. MapOK'
    BY <1>1, <1>3, <1>5, <1>16, <1>17, <1>18 DEF Inv, MapOK
<1>22. FunctorsOK'
  <2>1. \A d \in Conns : d # Due(l)[2] => Steady(d)
    BY <1>1, <1>3, <1>16 DEF Steady
  <2>2. Due(l)[2] \in Conns => ~Waiting(conn'[Due(l)[2]])
    BY <1>3, <1>17, <1>18
  <2> QED
    BY <1>0, <1>1, <1>19, <2>1, <2>2, FunctorsCall
<1>23. /\ called' \in [Loops -> Nat]
       /\ \A m \in Loops : called'[m] <= Len(batch'[m])
       /\ \A m \in Loops : m # l => called'[m] = called[m]
    BY <1>0, <1>1, CalledTypes
<1>24. LoopsOK'
    BY <1>1, <1>23, LoopFacts DEF Inv, LoopsOK
<1>25. TimersOK'
    BY <1>1, <1>3, <1>5, <1>16, <1>17, <1>18, UntimedKeeps
<1>26. ActiveOK'
  <2>1. \A m \in IoLoops : \A d \in active[m] : d \in Conns /\ d # c
    BY <1>0, <1>3, <1>5 DEF Types, Inv, ActiveOK
  <2> QED
    BY <1>1, <1>16, <2>1 DEF Inv, ActiveOK
<1>27. HungOK'
    BY <1>1, <1>3, <1>5, <1>16 DEF Inv, HungOK
<1>28. DataIsWatched'
    BY <1>1, <1>15, <1>16, <1>17, <1>18 DEF Inv, DataIsWatched
<1>29. Types'
    BY <1>0, <1>1, <1>15, <1>16, <1>23 DEF Types
<1>30. TypeOK'
    BY <1>25, <1>26, <1>29, TypesNext
<1>31. (\A d \in Conns : Marks(d)) /\ UNCHANGED crash
  <2>1. t.tmo = r.tmo /\ t.rst = r.rst /\ t.stop = "no"
    BY <1>9, <1>11 DEF Kin, Beside, Running
  <2>2. conn'[c].tmo = t.tmo /\ conn'[c].rst = t.rst
    BY <1>16 DEF Kin
  <2>3. UNCHANGED crash
    BY <1>4, <2>1 DEF Save
  <2> QED
    BY <1>3, <1>16, <2>1, <2>2, <2>3 DEF Marks
<1>32. Inv'
    BY <1>16, <1>20, <1>21, <1>22, <1>24, <1>25, <1>26, <1>27, <1>28, <1>30 DEF Inv
<1> QED
    BY <1>31, <1>32

LEMMA DestroyedKeeps ==
  ASSUME Inv, NEW l \in IoLoops, Calls(l, "destroy"),
         Save(Due(l)[2], ConnectDestroyed(Load(Due(l)[2]))), CallDone(l),
         UNCHANGED <<mainVars, timerVars, active, timerActive, batch, lpc>>
  PROVE  Inv' /\ (\A c \in Conns : Marks(c)) /\ UNCHANGED crash
<1>0. Types /\ TypeOK /\ FunctorsOK /\ l \in Loops
    BY TypesHold, LoopFacts DEF Inv
<1>1. /\ UNCHANGED <<connections, nextLoop, backlog, listenEdge, accepting, timers,
                     due, timerfd, active, timerActive, batch, lpc>>
      /\ lpc[l] = "run" /\ called[l] < Len(batch[l]) /\ Due(l)[1] = "destroy"
      /\ called' = [called EXCEPT ![l] = @ + 1]
    BY DEF Calls, CallDone, At, Due, mainVars, timerVars
<1>2. Due(l)[2] \in Conns /\ FunctorOK(l, Due(l))
    BY <1>0, <1>1, CalledFunctor
<1>c. PICK c \in Conns : c = Due(l)[2]
    BY <1>2
<1>3. PICK r, s, t :
        c = Due(l)[2] /\ r = conn[c] /\ s = Load(c) /\ t = ConnectDestroyed(s)
    BY <1>c
<1>4. Save(c, t)
    BY <1>3
<1>5. Leaving(r) /\ r.loop = l /\ ConnOK(r) /\ c \notin connections
    BY <1>1, <1>2, <1>3 DEF FunctorOK, Inv, ConnsOK
<1>6. /\ r.fd \in Fds /\ r.st = "kDisconnected" /\ r.ev = "none" /\ r.reg = "off"
      /\ ~r.bad /\ Bounded(r) /\ (r.err => r.rst) /\ Listed(r)
    BY <1>5 DEF ConnOK, Leaving, Listed
<1>7. Live(c)
    BY <1>3, <1>6 DEF Live
<1>8. channels[l][r.fd] = c
    BY <1>3, <1>5, <1>6 DEF Inv, ChannelsOK
<1>9. /\ s \in Records /\ Kin(r, s) /\ s.self = c /\ s.slot = c /\ ~s.post
      /\ Running(s)
    BY <1>0, <1>3, <1>5, <1>6, <1>8, LoadedRecord
<1>10. s.st = "kDisconnected" /\ s.ev = "none" /\ s.loop = l /\ s.fd = r.fd
       /\ s.reg = "off"
    BY <1>5, <1>6, <1>9 DEF Kin
<1>11. /\ t \in Records /\ Beside(s, t)
       /\ t.st = s.st /\ t.idx = "kNew" /\ t.ev = s.ev /\ t.reg = s.reg
       /\ t.slot = NoConn /\ t.tmo = s.tmo /\ t.post = s.post
    BY <1>3, <1>9, <1>10, DestroyRecord
<1>12. t.loop = l /\ t.fd = r.fd /\ ~t.post /\ ~Listed(t) /\ t.st = "kDisconnected"
    BY <1>9, <1>10, <1>11 DEF Beside, Listed, Leaving
<1>13. /\ t.out = r.out /\ t.data = r.data /\ t.sends = r.sends /\ t.bad = r.bad
       /\ t.err = r.err /\ t.rst = r.rst
    BY <1>9, <1>11 DEF Beside, Kin
<1>14. ConnOK(t)
  <2>1. Bounded(t)
    BY <1>6, <1>13 DEF Bounded
  <2> QED
    BY <1>5, <1>6, <1>10, <1>11, <1>12, <1>13, <2>1 DEF ConnOK, Early
<1>15. /\ channels' \in [IoLoops -> [Fds -> Conns \cup {NoConn}]]
       /\ channels'[t.loop][t.fd] = t.slot
       /\ \A m \in IoLoops, f \in Fds :
            m # t.loop \/ f # t.fd => channels'[m][f] = channels[m][f]
       /\ queue' \in [Loops -> Seq(Functors)]
       /\ queue' = IF t.post
                   THEN [queue EXCEPT ![Main] = Append(@, <<"remove", c>>)]
                   ELSE queue
       /\ crash' = "no" => crash = "no" /\ t.stop \in {"no", "hung"}
    BY <1>0, <1>3, <1>4, <1>5, <1>11, <1>12, <1>14, Saved DEF ConnOK
<1>16. /\ ConnsOK' /\ FdsOK' /\ BacklogOK'
       /\ conn' \in [Conns -> ConnType] /\ Kin(t, conn'[c])
       /\ \A d \in Conns : d # c => conn'[d] = conn[d]
    BY <1>1, <1>3, <1>4, <1>5, <1>7, <1>11, <1>12, <1>14, HandlerKeeps
<1>17. PICK u : u = conn'[c]
    OBVIOUS
<1>18. u.st = "kDisconnected" /\ u.idx = "kNew" /\ ~Listed(u) /\ ~Waiting(u)
    BY <1>11, <1>12, <1>16, <1>17 DEF Kin, Listed, Waiting, Leaving
<1>19. UNCHANGED queue
    BY <1>12, <1>15
<1>20. ChannelsOK'
  <2>1. ASSUME NEW d \in Conns, Listed(conn'[d])
        PROVE  channels'[conn'[d].loop][conn'[d].fd] = d
    <3>1. d # c
      BY <1>17, <1>18, <2>1
    <3>2. /\ conn[d].loop \in IoLoops /\ conn[d].fd \in Fds /\ conn'[d] = conn[d]
          /\ channels[conn[d].loop][conn[d].fd] = d
      BY <1>16, <2>1, <3>1 DEF Inv, ConnsOK, ConnOK, ChannelsOK, Listed, Leaving
    <3>3. conn[d].loop # l \/ conn[d].fd # r.fd
      BY <1>8, <3>1, <3>2
    <3> QED
      BY <1>12, <1>15, <3>2, <3>3
  <2>2. ASSUME NEW m \in IoLoops, NEW f \in Fds, channels'[m][f] \in Conns
        PROVE  LET x == conn'[channels'[m][f]]
               IN  Listed(x) /\ x.loop = m /\ x.fd = f
    <3>1. m # l \/ f # r.fd
      BY <1>11, <1>12, <1>15, <2>2, ServerAssumption
    <3>2. PICK d \in Conns : d = channels'[m][f] /\ d = channels[m][f]
      BY <1>12, <1>15, <2>2, <3>1
    <3>3. Listed(conn[d]) /\ conn[d].loop = m /\ conn[d].fd = f
      BY <3>2 DEF Inv, ChannelsOK
    <3>4. d # c
      BY <1>3, <1>5, <3>1, <3>3
    <3> QED
      BY <1>16, <3>2, <3>3, <3>4
  <2> QED
    BY <2>1, <2>2 DEF ChannelsOK
<1>21. MapOK'
    BY <1>1, <1>3, <1>5, <1>16, <1>17, <1>18 DEF Inv, MapOK
<1>22. FunctorsOK'
  <2>1. \A d \in Conns : d # Due(l)[2] => Steady(d)
    BY <1>1, <1>3, <1>16 DEF Steady
  <2>2. Due(l)[2] \in Conns => ~Waiting(conn'[Due(l)[2]])
    BY <1>3, <1>17, <1>18
  <2> QED
    BY <1>0, <1>1, <1>19, <2>1, <2>2, FunctorsCall
<1>23. /\ called' \in [Loops -> Nat]
       /\ \A m \in Loops : called'[m] <= Len(batch'[m])
       /\ \A m \in Loops : m # l => called'[m] = called[m]
    BY <1>0, <1>1, CalledTypes
<1>24. LoopsOK'
    BY <1>1, <1>23, LoopFacts DEF Inv, LoopsOK
<1>25. TimersOK'
    BY <1>1, <1>3, <1>6, <1>16, <1>17, <1>18, UntimedKeeps
<1>26. ActiveOK' /\ HungOK' /\ DataIsWatched'
    BY <1>1, <1>3, <1>6, <1>15, <1>16, <1>17, <1>18, ClosedKeeps
<1>27. Types'
    BY <1>0, <1>1, <1>15, <1>16, <1>23 DEF Types
<1>28. TypeOK'
    BY <1>25, <1>26, <1>27, TypesNext
<1>29. (\A d \in Conns : Marks(d)) /\ UNCHANGED crash
  <2>1. t.tmo = r.tmo /\ t.rst = r.rst /\ t.stop = "no"
    BY <1>9, <1>11 DEF Kin, Beside, Running
  <2>2. conn'[c].tmo = t.tmo /\ conn'[c].rst = t.rst
    BY <1>16 DEF Kin
  <2>3. UNCHANGED crash
    BY <1>4, <2>1 DEF Save
  <2> QED
    BY <1>3, <1>16, <2>1, <2>2, <2>3 DEF Marks
<1>30. Inv'
    BY <1>16, <1>20, <1>21, <1>22, <1>24, <1>25, <1>26, <1>28 DEF Inv
<1> QED
    BY <1>29, <1>30

LEMMA RunConnectionKeeps ==
  ASSUME Inv, NEW l \in IoLoops, RunConnection(l)
  PROVE  Inv' /\ (\A c \in Conns : Marks(c)) /\ UNCHANGED crash
<1>1. /\ CallDone(l)
      /\ UNCHANGED <<mainVars, timerVars, active, timerActive, batch, lpc>>
    BY DEF RunConnection
<1>2. \/ /\ Calls(l, "established")
         /\ Save(Due(l)[2], ConnectEstablished(Load(Due(l)[2])))
      \/ /\ Calls(l, "destroy")
         /\ Save(Due(l)[2], ConnectDestroyed(Load(Due(l)[2])))
    BY DEF RunConnection, Due
<1> QED
    BY <1>1, <1>2, EstablishedKeeps, DestroyedKeeps

(***************************************************************************)
(* The vector of functors is destroyed, and connections with it             *)
(***************************************************************************)
LEMMA PlaceMember ==
  ASSUME NEW S, NEW b \in Seq(S), NEW q \in Seq(S), NEW k \in Nat,
         NEW i \in Places(k, b, q)
  PROVE  /\ Nth(b, q, i) \in ToSet(q) \cup ToSet(b)
         /\ k = Len(b) => Nth(b, q, i) \in ToSet(q)
<1>1. /\ Len(b) \in Nat /\ Len(q) \in Nat
      /\ DOMAIN b = 1..Len(b) /\ DOMAIN q = 1..Len(q)
    BY LenProperties
<1>2. i \in Nat /\ i > k /\ i <= Len(b) + Len(q) /\ i > 0
    BY <1>1 DEF Places
<1>3. CASE i <= Len(b)
  <2>1. i \in 1..Len(b)
    BY <1>1, <1>2, <1>3
  <2>2. ASSUME k = Len(b) PROVE FALSE
    BY <1>2, <1>3, <2>2
  <2> QED
    BY <1>1, <1>3, <2>1, <2>2 DEF Nth, ToSet
<1>4. CASE ~(i <= Len(b))
  <2>1. i - Len(b) \in DOMAIN q
    BY <1>1, <1>2, <1>4
  <2> QED
    BY <1>4, <2>1 DEF Nth, ToSet
<1> QED
    BY <1>3, <1>4

\* Only a connection whose channel is out of its loop loses its last reference.
LEMMA GoneFacts ==
  ASSUME Inv, NEW l \in Loops, called[l] = Len(batch[l]),
         batch' = [batch EXCEPT ![l] = <<>>],
         UNCHANGED <<connections, queue, timers>>,
         NEW c \in Conns, Live(c), ~Referenced(c)'
  PROVE  conn[c].st = "kDisconnected" /\ conn[c].idx = "kNew"
<1>0. Types /\ TypeOK /\ FunctorsOK
    BY TypesHold DEF Inv
<1>1. c \notin connections
    BY DEF Referenced
<1>2. conn[c].st = "kDisconnected"
    BY <1>1 DEF Inv, MapOK, Live
<1>3. ConnOK(conn[c])
    BY DEF Inv, ConnsOK
<1>4. conn[c].idx \in {"kDeleted", "kNew"}
    BY <1>2, <1>3 DEF ConnOK
<1>5. ASSUME conn[c].idx = "kDeleted" PROVE FALSE
  <2>1. PICK m \in Loops : \E i \in Uncalled(m) : FunctorAt(m, i)[2] = c
    BY <1>0, <1>2, <1>5 DEF FunctorsOK, Leaving
  <2>2. PICK i \in Uncalled(m) : FunctorAt(m, i)[2] = c
    BY <2>1
  <2>3. PICK f \in Functors : f = FunctorAt(m, i)
    BY <1>0, QueueTypes
  <2>4. f[2] = c /\ FunctorOK(m, f)
    BY <1>0, <2>2, <2>3 DEF FunctorsOK
  <2>5. f[1] \in {"remove", "destroy"}
    BY <1>2, <2>4, FunctorParts, ServerAssumption DEF FunctorOK
  <2>6. /\ f \in ToSet(queue[m]) \cup ToSet(batch[m])
        /\ m = l => f \in ToSet(queue[m])
    <3>1. /\ queue[m] \in Seq(Functors) /\ batch[m] \in Seq(Functors)
          /\ called[m] \in Nat /\ i \in Places(called[m], batch[m], queue[m])
          /\ f = Nth(batch[m], queue[m], i)
      BY <1>0, <2>3, QueueTypes
    <3> QED
      BY <3>1, PlaceMember
  <2>7. /\ queue'[m] = queue[m]
        /\ m # l => batch'[m] = batch[m]
    BY <1>0 DEF Types
  <2>8. f \in ToSet(queue'[m]) \cup ToSet(batch'[m])
    BY <2>6, <2>7
  <2>9. Referenced(c)'
    BY <2>4, <2>5, <2>8 DEF Referenced
  <2> QED
    BY <2>9
<1> QED
    BY <1>2, <1>4, <1>5

\* What is left of it
LEMMA FreedRecord ==
  ASSUME NEW s \in ConnType, s.reg = "off", ~s.bad
  PROVE  /\ Freed(s) \in ConnType /\ ConnOK(Freed(s))
         /\ Freed(s).st = "freed" /\ ~Freed(s).tmo /\ ~Freed(s).rst
<1>1. PICK n, t : n = NewConn /\ t = [n EXCEPT !.st = "freed", !.reg = s.reg, !.bad = s.bad]
    OBVIOUS
<1>2. t = Freed(s)
    BY <1>1 DEF Freed
<1>3. n \in ConnType /\ ConnOK(n) /\ n.idx = "kNew" /\ ~n.tmo /\ ~n.rst /\ n.st = "idle"
    BY <1>1, NewRecord DEF NewConn
<1>4. "freed" \in States /\ s.reg \in Watches /\ s.bad \in BOOLEAN
    BY DEF ConnType, States
<1>5. t \in ConnType
    BY <1>1, <1>3, <1>4, ZenonT(30) DEF ConnType
<1>6. t.st = "freed" /\ t.reg = s.reg /\ t.bad = s.bad
    BY <1>1, <1>3 DEF ConnType
<1>7. /\ t.idx = n.idx /\ t.out = n.out /\ t.data = n.data /\ t.sends = n.sends
      /\ t.err = n.err /\ t.rst = n.rst /\ t.tmo = n.tmo
    BY <1>1, <1>3 DEF ConnType
<1>8. Bounded(t) <=> Bounded(n)
    BY <1>7 DEF Bounded
<1>9. ConnOK(t)
    BY <1>3, <1>6, <1>7, <1>8 DEF ConnOK, Early
<1> QED
    BY <1>2, <1>3, <1>5, <1>6, <1>7, <1>9

LEMMA DropFunctorsKeeps ==
  ASSUME Inv, NEW l \in Loops, DropFunctors(l)
  PROVE  Inv' /\ (\A c \in Conns : Unmarked(c)) /\ UNCHANGED crash
<1>0. Types /\ TypeOK /\ FunctorsOK
    BY TypesHold DEF Inv
<1>1. /\ UNCHANGED <<channels, connections, nextLoop, backlog, listenEdge, accepting,
                     timers, due, timerfd, active, timerActive, queue>>
      /\ lpc[l] = "run" /\ called[l] = Len(batch[l])
      /\ batch' = [batch EXCEPT ![l] = <<>>]
      /\ called' = [called EXCEPT ![l] = 0]
      /\ lpc' = [lpc EXCEPT ![l] = "poll"]
      /\ Reap(conn)
    BY DEF DropFunctors, At, mainVars, timerVars
<1>2. PICK gone : gone = {c \in Conns : Live(c) /\ ~Referenced(c)'}
    OBVIOUS
<1>3. /\ conn' = [c \in Conns |-> IF c \in gone THEN Freed(conn[c]) ELSE conn[c]]
      /\ crash' = IF \E c \in gone : conn[c].st # "kDisconnected"
                  THEN "destructor" ELSE crash
    BY <1>1, <1>2 DEF Reap
<1>4. \A c \in gone : /\ c \in Conns /\ conn[c].st = "kDisconnected"
                      /\ conn[c].idx = "kNew"
    BY <1>1, <1>2, GoneFacts
<1>5. UNCHANGED crash
    BY <1>3, <1>4
<1>6. ASSUME NEW c \in Conns
      PROVE  /\ conn'[c] \in ConnType /\ ConnOK(conn'[c])
             /\ IF c \in gone THEN conn'[c].st = "freed" ELSE conn'[c] = conn[c]
             /\ Unmarked(c)
  <2>1. PICK r, t : r = conn[c] /\ t = Freed(r)
    OBVIOUS
  <2>2. r \in ConnType /\ ConnOK(r)
    BY <1>0, <2>1 DEF Types, Inv, ConnsOK
  <2>3. CASE c \notin gone
    BY <1>3, <2>1, <2>2, <2>3 DEF Unmarked
  <2>4. CASE c \in gone
    <3>1. r.st = "kDisconnected"
      BY <1>4, <2>1, <2>4
    <3>2. r.reg = "off" /\ ~r.bad
      BY <2>2, <3>1 DEF ConnOK
    <3>3. t \in ConnType /\ ConnOK(t) /\ t.st = "freed" /\ ~t.tmo /\ ~t.rst
      BY <2>1, <2>2, <3>2, FreedRecord
    <3> QED
      BY <1>3, <2>1, <2>4, <3>3 DEF Unmarked
  <2> QED
    BY <2>3, <2>4
<1>7. conn' \in [Conns -> ConnType]
  <2>1. DOMAIN conn' = Conns /\ conn' = [c \in Conns |-> conn'[c]]
    BY <1>3
  <2> QED
    BY <1>6, <2>1
<1>8. ConnsOK'
    BY <1>6 DEF ConnsOK
<1>9. FdsOK'
    BY <1>6, <1>4 DEF Inv, FdsOK, Live
<1>10. \A c \in Conns :
         \/ conn'[c] = conn[c]
         \/ /\ ~Listed(conn[c]) /\ ~Listed(conn'[c])
            /\ conn[c].st \notin {"backlog", "kConnecting", "kConnected"}
            /\ conn'[c].st \notin {"kConnecting", "kConnected"}
            /\ ~Waiting(conn[c]) /\ ~Waiting(conn'[c])
    BY <1>4, <1>6 DEF Listed, Leaving, Waiting
<1>11. ChannelsOK'
  <2>1. \A m \in IoLoops, f \in Fds : channels[m][f] \in Conns \cup {NoConn}
    BY <1>0 DEF Types
  <2> QED
    BY <1>1, <1>6, <1>10, <2>1 DEF Inv, ChannelsOK
<1>12. BacklogOK'
  <2>1. \A i \in DOMAIN backlog : backlog[i] \in Conns
    BY <1>0, ElementOfSeq DEF Types
  <2> QED
    BY <1>1, <1>10, <2>1 DEF Inv, BacklogOK
<1>13. MapOK'
    BY <1>1, <1>10 DEF Inv, MapOK
<1>14. FunctorsOK'
  <2>1. \A c \in Conns : Steady(c) \/ Idle(c)
    BY <1>1, <1>10 DEF Steady, Idle
  <2> QED
    BY <1>0, <1>1, <2>1, FunctorsDrop
<1>15. TimersOK'
  <2>1. \A m \in IoLoops : \A i \in DOMAIN timers[m] : timers[m][i] \in Conns
    BY <1>0, ElementOfSeq DEF Types
  <2>2. \A m \in IoLoops : \A i \in DOMAIN timers[m] :
          conn'[timers[m][i]] = conn[timers[m][i]]
    BY <1>10, <2>1 DEF Inv, TimersOK
  <2>3. \A c \in Conns : conn'[c].st = "kConnected" => conn'[c] = conn[c]
    BY <1>10
  <2> QED
    BY <1>1, <2>1, <2>2, <2>3, SMTT(30) DEF Inv, TimersOK
<1>16. ActiveOK'
  <2>1. \A m \in IoLoops : active[m] \subseteq Conns
    BY <1>0 DEF Types
  <2> QED
    BY <1>1, <1>10, <2>1 DEF Inv, ActiveOK
<1>17. /\ batch'[l] = <<>> /\ called'[l] = 0 /\ lpc'[l] = "poll"
       /\ \A m \in Loops : m # l => /\ batch'[m] = batch[m] /\ called'[m] = called[m]
                                    /\ lpc'[m] = lpc[m]
    BY <1>0, <1>1 DEF Types
<1>18. HungOK'
    BY <1>10, <1>17, LoopFacts DEF Inv, HungOK
<1>19. DataIsWatched'
    BY <1>1, <1>5, <1>10 DEF Inv, DataIsWatched
<1>20. LoopsOK'
  <2>1. LoopsOK
    BY DEF Inv
  <2>2. l \in IoLoops => active[l] = {}
    BY <1>1, <2>1 DEF LoopsOK
  <2> QED
    BY <1>1, <1>17, <2>1, <2>2, LoopFacts DEF LoopsOK
<1>21. Types'
  <2>1. /\ lpc' \in [Loops -> {"poll", "dispatch", "run", "timeouts", "hung"}]
        /\ called' \in [Loops -> Nat] /\ batch' \in [Loops -> Seq(Functors)]
    BY <1>0, <1>1, EmptySeq DEF Types
  <2>2. Len(<<>>) = 0
    BY EmptySeq
  <2>3. called'[l] <= Len(batch'[l])
    BY ONLY <1>17, <2>2
  <2>4. \A m \in Loops : called'[m] <= Len(batch'[m])
    BY <1>0, <1>17, <2>3 DEF Types
  <2> QED
    BY <1>0, <1>1, <1>7, <2>1, <2>4 DEF Types
<1>22. TypeOK'
    BY <1>15, <1>16, <1>21, TypesNext
<1>23. Inv'
    BY <1>8, <1>9, <1>11, <1>12, <1>13, <1>14, <1>15, <1>16, <1>18, <1>19, <1>20,
       <1>22 DEF Inv
<1> QED
    BY <1>5, <1>6, <1>23

(***************************************************************************)
(* Acceptor::handleRead()                                                   *)
(***************************************************************************)
LEMMA MinOfNaturals ==
  ASSUME NEW S \in SUBSET Nat, S # {}
  PROVE  Min(S) \in S
<1> DEFINE R == OpToRel(<, Nat)
<1>1. IsWellFoundedOn(R, Nat)
    BY NatLessThanWellFounded
<1>2. \A x, y \in S : y < x => <<y, x>> \in R
    BY DEF OpToRel
<1> HIDE DEF R
<1>3. \E x \in S : \A y \in S : ~ (<<y, x>> \in R)
    BY <1>1, WFMin
<1>4. PICK x \in S : \A y \in S : ~ (y < x)
    BY <1>2, <1>3
<1>5. \A y \in S : y \in Nat
    OBVIOUS
<1>6. \A y \in S : x <= y
    BY <1>4, <1>5
<1> QED
    BY <1>6 DEF Min

LEMMA NextFd ==
  ASSUME FreeFds # {}
  PROVE  /\ Min(FreeFds) \in Fds
         /\ \A c \in Conns : Live(c) => conn[c].fd # Min(FreeFds)
<1>1. FreeFds \subseteq Fds /\ Fds \subseteq Nat
    BY ServerAssumption DEF FreeFds, Fds
<1>2. Min(FreeFds) \in FreeFds
    BY <1>1, MinOfNaturals
<1> QED
    BY <1>1, <1>2 DEF FreeFds

\* accept() takes the first connection of the backlog.
LEMMA BacklogTaken ==
  ASSUME Inv, backlog # <<>>, backlog' = Tail(backlog), NEW c, c = Head(backlog),
         \A d \in Conns : d # c => conn'[d] = conn[d]
  PROVE  /\ c \in Conns /\ conn[c].st = "backlog"
         /\ backlog' \in Seq(Conns) /\ BacklogOK'
<1>0. Types
    BY TypesHold DEF Inv
<1>1. PICK q \in Seq(Conns) : q = backlog
    BY <1>0 DEF Types
<1>2. PICK p \in Seq(Conns) : p = Tail(q) /\ p = backlog'
    BY <1>1, HeadTailProperties
<1>3. /\ c = q[1] /\ c \in Conns /\ 1 \in DOMAIN q /\ Len(p) = Len(q) - 1
      /\ DOMAIN q = 1..Len(q) /\ DOMAIN p = 1..Len(p) /\ Len(q) \in Nat
      /\ \A i \in 1..Len(p) : p[i] = q[i + 1]
  <2>1. Len(q) \in Nat /\ Len(q) # 0
    BY <1>1, LenProperties, EmptySeq
  <2>2. c = q[1] /\ c \in Conns
    BY <1>1, HeadTailProperties
  <2>3. /\ Len(p) = Len(q) - 1 /\ \A i \in 1..Len(p) : p[i] = q[i + 1]
    BY <1>1, <1>2, HeadTailProperties
  <2>4. DOMAIN q = 1..Len(q) /\ DOMAIN p = 1..Len(p)
    BY LenProperties
  <2> QED
    BY <2>1, <2>2, <2>3, <2>4
<1>4. \A i \in DOMAIN q : /\ conn[q[i]].st = "backlog"
                          /\ \A j \in DOMAIN q : q[i] = q[j] => i = j
    BY <1>1 DEF Inv, BacklogOK
<1>5. \A i \in DOMAIN p : i \in Nat /\ i + 1 \in DOMAIN q /\ i + 1 # 1
    BY <1>3
<1>6. \A i \in DOMAIN p : p[i] = q[i + 1] /\ p[i] # c /\ p[i] \in Conns
  <2>1. \A i \in DOMAIN p : p[i] = q[i + 1] /\ p[i] # c
    BY <1>3, <1>4, <1>5
  <2> QED
    BY <1>3, <2>1, ElementOfSeq
<1>7. ASSUME NEW i \in DOMAIN p, NEW j \in DOMAIN p, p[i] = p[j] PROVE i = j
  <2>1. i + 1 = j + 1
    BY <1>4, <1>5, <1>6, <1>7
  <2> QED
    BY <1>5, <2>1
<1>8. \A i \in DOMAIN p : conn'[p[i]].st = "backlog"
    BY <1>4, <1>5, <1>6
<1>9. BacklogOK'
    BY <1>2, <1>7, <1>8 DEF BacklogOK
<1> QED
    BY <1>2, <1>3, <1>4, <1>9

\* It is dropped: accept() failed, or the descriptor was too large.
LEMMA RefusedKeeps ==
  ASSUME Inv, backlog # <<>>, backlog' = Tail(backlog),
         conn' = [conn EXCEPT ![Head(backlog)].st = "refused"],
         accepting' = FALSE, crash' = "no" => crash = "no",
         UNCHANGED <<connections, nextLoop, listenEdge, channels, timers, due,
                     timerfd, active, timerActive, queue, batch, called, lpc>>
  PROVE  Inv'
<1>0. Types
    BY TypesHold DEF Inv
<1>1. PICK c : c = Head(backlog)
    OBVIOUS
<1>2. conn' = [conn EXCEPT ![c].st = "refused"]
    BY <1>1
<1>3. \A d \in Conns : d # c => conn'[d] = conn[d]
    BY <1>0, <1>2 DEF Types
<1>4. /\ c \in Conns /\ conn[c].st = "backlog"
      /\ backlog' \in Seq(Conns) /\ BacklogOK'
    BY <1>1, <1>3, BacklogTaken
<1>5. /\ conn' \in [Conns -> ConnType]
      /\ ConnsOK' /\ FdsOK' /\ ChannelsOK' /\ MapOK' /\ FunctorsOK'
      /\ TimersOK' /\ LoopsOK' /\ ActiveOK' /\ HungOK' /\ DataIsWatched'
  <2>1. PICK s, t : s = conn[c] /\ t = [s EXCEPT !.st = "refused"]
    OBVIOUS
  <2>2. s \in ConnType /\ ConnOK(s) /\ s.st \in Early
    BY <1>0, <1>4, <2>1 DEF Types, Inv, ConnsOK, Early
  <2>3. t \in ConnType /\ ConnOK(t) /\ t.st = "refused"
    BY <2>1, <2>2, StageRecord
  <2>4. conn' = [conn EXCEPT ![c] = t]
    BY <1>2, <2>1
  <2> QED
    BY <1>4, <2>3, <2>4, OutsideKeeps
<1>6. Types'
    BY <1>0, <1>4, <1>5 DEF Types
<1>7. TypeOK'
    BY <1>5, <1>6, TypesNext
<1> QED
    BY <1>4, <1>5, <1>7 DEF Inv

\* Or accept() finds nothing to take.
LEMMA NothingTaken ==
  ASSUME Inv, accepting' = FALSE, crash' = "no" => crash = "no",
         UNCHANGED <<conn, backlog, connections, nextLoop, listenEdge,
                     channels, timers, due, timerfd, active, timerActive, queue,
                     batch, called, lpc>>
  PROVE  Inv'
<1>0. Types
    BY TypesHold DEF Inv
<1>1. ConnsOK' /\ ActiveOK' /\ DataIsWatched' /\ \A c \in Conns : Calm(c)
    BY SameConns
<1>2. /\ FdsOK' /\ ChannelsOK' /\ BacklogOK' /\ MapOK' /\ TimersOK' /\ FunctorsOK'
      /\ HungOK'
    BY <1>1, CalmKeeps
<1>3. LoopsOK'
    BY DEF Inv, LoopsOK
<1>4. Types'
    BY <1>0 DEF Types
<1>5. TypeOK'
    BY <1>1, <1>2, <1>4, TypesNext
<1> QED
    BY <1>1, <1>2, <1>3, <1>5 DEF Inv

\* TcpServer::newConnection() hands the connection to the next loop.
LEMMA NewConnectionKeeps ==
  ASSUME Inv, backlog # <<>>, FreeFds # {}, crash = "no",
         NewConnection(Head(backlog), Min(FreeFds)), backlog' = Tail(backlog),
         UNCHANGED <<accepting, crash, listenEdge, channels, timers, due, timerfd,
                     active, timerActive, batch, called, lpc>>
  PROVE  Inv'
<1>0. Types /\ TypeOK /\ FunctorsOK
    BY TypesHold DEF Inv
<1>1. PICK c, fd, m : c = Head(backlog) /\ fd = Min(FreeFds) /\ m = nextLoop
    OBVIOUS
<1>2. fd \in Fds /\ \A d \in Conns : Live(d) => conn[d].fd # fd
    BY <1>1, NextFd
<1>3. m \in IoLoops /\ m \in Loops
    BY <1>0, <1>1, LoopFacts DEF Types
<1>4. /\ conn' = [conn EXCEPT ![c].st = "kConnecting", ![c].fd = fd, ![c].loop = m]
      /\ connections' = connections \cup {c}
      /\ nextLoop' = LoopAfter(m)
      /\ queue' = [queue EXCEPT ![m] = Append(@, <<"established", c>>)]
    BY <1>1 DEF NewConnection
<1>5. \A d \in Conns : d # c => conn'[d] = conn[d]
    BY <1>0, <1>4 DEF Types
<1>6. /\ c \in Conns /\ conn[c].st = "backlog"
      /\ backlog' \in Seq(Conns) /\ BacklogOK'
    BY <1>1, <1>5, BacklogTaken
<1>7. PICK s, t : /\ s = conn[c]
                  /\ t = [s EXCEPT !.st = "kConnecting", !.fd = fd, !.loop = m]
    OBVIOUS
<1>8. s \in ConnType /\ ConnOK(s) /\ s.st = "backlog"
    BY <1>0, <1>6, <1>7 DEF Types, Inv, ConnsOK
<1>9. /\ t \in ConnType /\ t.st = "kConnecting" /\ t.fd = fd /\ t.loop = m
  <2>1. fd \in 0..NFds /\ m \in Loops /\ "kConnecting" \in States
    BY <1>2, <1>3, ServerAssumption DEF Fds, States
  <2> QED
    BY <1>7, <1>8, <2>1, ZenonT(30) DEF ConnType
<1>10. /\ t.idx = s.idx /\ t.ev = s.ev /\ t.reg = s.reg /\ t.bad = s.bad
       /\ t.tmo = s.tmo /\ t.alive = s.alive /\ t.out = s.out /\ t.end = s.end
    BY <1>7, <1>8 DEF ConnType
<1>11. t.data = s.data /\ t.sends = s.sends /\ t.err = s.err /\ t.rst = s.rst
    BY <1>7, <1>8 DEF ConnType
<1>12. ConnOK(t)
  <2>1. Bounded(t) <=> Bounded(s)
    BY <1>10, <1>11 DEF Bounded
  <2> QED
    BY <1>2, <1>3, <1>8, <1>9, <1>10, <1>11, <2>1 DEF ConnOK, Early
<1>13. conn' = [conn EXCEPT ![c] = t]
    BY <1>4, <1>7
<1>14. conn' \in [Conns -> ConnType] /\ conn'[c] = t
    BY <1>0, <1>6, <1>9, <1>13 DEF Types
<1>15. ConnsOK'
    BY <1>5, <1>12, <1>14 DEF Inv, ConnsOK
<1>16. FdsOK'
  <2>1. ASSUME NEW d \in Conns, d # c, Live(d)' PROVE Live(d) /\ conn'[d].fd # fd
    BY <1>2, <1>5, <2>1 DEF Live
  <2>2. conn'[c].fd = fd
    BY <1>9, <1>14
  <2>3. ASSUME NEW d \in Conns, NEW e \in Conns, Live(d)', Live(e)',
               conn'[d].fd = conn'[e].fd, d # c, e # c
        PROVE  d = e
    BY <1>5, <2>1, <2>3 DEF Inv, FdsOK
  <2> QED
    BY <2>1, <2>2, <2>3 DEF FdsOK
<1>17. ~Listed(conn[c]) /\ ~Listed(conn'[c]) /\ ~Waiting(conn[c])
    BY <1>6, <1>9, <1>14 DEF Listed, Leaving, Waiting
<1>18. ChannelsOK'
  <2>1. \A l \in IoLoops, f \in Fds : channels[l][f] \in Conns => channels[l][f] # c
    BY <1>17 DEF Inv, ChannelsOK
  <2> QED
    BY <1>5, <1>17, <2>1 DEF Inv, ChannelsOK
<1>19. MapOK'
    BY <1>4, <1>5, <1>9, <1>14 DEF Inv, MapOK
<1>20. PICK f \in Functors : f = <<"established", c>>
    BY <1>6 DEF Functors
<1>21. queue' = [queue EXCEPT ![m] = Append(@, f)]
    BY <1>4, <1>20
<1>22. FunctorsOK'
  <2>1. \A d \in Conns : d # c => Steady(d)
    BY <1>4, <1>5 DEF Steady
  <2>2. FunctorOK(m, f)' /\ f[2] = c
    BY <1>9, <1>14, <1>20 DEF FunctorOK
  <2> QED
    BY <1>0, <1>3, <1>17, <1>21, <2>1, <2>2, FunctorsPush
<1>23. TimersOK'
    BY <1>5, <1>6, <1>9, <1>14, UntimedKeeps
<1>24. ActiveOK' /\ HungOK' /\ DataIsWatched'
    BY <1>5, <1>6, <1>9, <1>14, ClosedKeeps
<1>25. LoopsOK'
    BY DEF Inv, LoopsOK
<1>26. Types'
  <2>1. Append(queue[m], f) \in Seq(Functors)
    BY <1>0, <1>3, AppendProperties DEF Types
  <2>2. queue' = [queue EXCEPT ![m] = Append(queue[m], f)]
    BY <1>21
  <2>3. queue' \in [Loops -> Seq(Functors)] /\ connections' \subseteq Conns
    BY <1>0, <1>4, <1>6, <2>1, <2>2 DEF Types
  <2>4. nextLoop' \in IoLoops
    <3>1. m \in Nat /\ NLoops \in Nat \ {0}
      BY <1>3, ServerAssumption DEF IoLoops
    <3>2. m % NLoops \in 0..(NLoops - 1)
      BY <3>1
    <3>3. (m % NLoops) + 1 \in 1..NLoops
      BY <3>1, <3>2
    <3> QED
      BY <1>4, <3>3 DEF LoopAfter, IoLoops
  <2> QED
    BY <1>0, <1>6, <1>14, <2>3, <2>4 DEF Types
<1>27. TypeOK'
    BY <1>23, <1>24, <1>26, TypesNext
<1> QED
    BY <1>6, <1>15, <1>16, <1>18, <1>19, <1>22, <1>23, <1>24, <1>25, <1>27 DEF Inv

LEMMA AcceptKeeps ==
  ASSUME Inv, Accept
  PROVE  Inv'
<1>1. /\ UNCHANGED <<listenEdge, channels, timers, due, timerfd, active, timerActive,
                     batch, called, lpc>>
      /\ crash = "no"
    BY DEF Accept, At, timerVars
<1>2. CASE SocketAcceptFails /\ AcceptReturns
  <2>1. accepting' = FALSE /\ UNCHANGED <<connections, nextLoop, queue>>
    BY <1>2 DEF AcceptReturns
  <2>2. CASE UNCHANGED <<conn, backlog>>
    BY <1>1, <2>1, <2>2, NothingTaken
  <2>3. CASE /\ backlog # <<>> /\ backlog' = Tail(backlog)
             /\ conn' = [conn EXCEPT ![Head(backlog)].st = "refused"]
    BY <1>1, <2>1, <2>3, RefusedKeeps
  <2> QED
    BY <1>2, <2>2, <2>3 DEF SocketAcceptFails
<1>3. CASE /\ backlog # <<>> /\ FreeFds # {} /\ backlog' = Tail(backlog)
           /\ conn' = [conn EXCEPT ![Head(backlog)].st = "refused"]
           /\ AcceptReturns /\ UNCHANGED crash
  <2>1. accepting' = FALSE /\ UNCHANGED <<connections, nextLoop, queue>>
    BY <1>3 DEF AcceptReturns
  <2> QED
    BY <1>1, <1>3, <2>1, RefusedKeeps
<1>4. CASE /\ backlog # <<>> /\ FreeFds # {} /\ backlog' = Tail(backlog)
           /\ NewConnection(Head(backlog), Min(FreeFds))
           /\ UNCHANGED <<accepting, crash>>
    BY <1>1, <1>4, NewConnectionKeeps
<1> QED
    BY <1>2, <1>3, <1>4 DEF Accept

(***************************************************************************)
(* The invariant holds                                                      *)
(***************************************************************************)
LEMMA InitInv == Init => Inv
<1> SUFFICES ASSUME Init PROVE Inv
    OBVIOUS
<1>1. \A c \in Conns : /\ conn[c] = NewConn /\ conn[c].st = "idle"
                       /\ conn[c] \in ConnType /\ ConnOK(conn[c])
    BY NewRecord DEF Init
<1>2. \A l \in Loops : queue[l] = <<>> /\ batch[l] = <<>> /\ called[l] = 0
    BY DEF Init
<1>3. Types
  <2>1. /\ \A S : <<>> \in Seq(S)
        /\ Len(<<>>) = 0
    BY EmptySeq
  <2>2. 1 \in IoLoops
    BY ServerAssumption DEF IoLoops
  <2>3. conn \in [Conns -> ConnType]
    BY NewRecord DEF Init
  <2>4. /\ queue \in [Loops -> Seq(Functors)] /\ batch \in [Loops -> Seq(Functors)]
        /\ called \in [Loops -> Nat]
        /\ lpc \in [Loops -> {"poll", "dispatch", "run", "timeouts", "hung"}]
        /\ \A l \in Loops : called[l] <= Len(batch[l])
    BY <1>2, <2>1 DEF Init
  <2>5. /\ channels \in [IoLoops -> [Fds -> Conns \cup {NoConn}]]
        /\ active \in [IoLoops -> SUBSET Conns]
        /\ timers \in [IoLoops -> Seq(Conns)]
        /\ due \in [IoLoops -> Nat]
        /\ timerfd \in [IoLoops -> {"idle", "armed", "expired"}]
        /\ timerActive \in [IoLoops -> BOOLEAN]
        /\ \A l \in IoLoops : due[l] <= Len(timers[l])
    BY <2>1 DEF Init
  <2> QED
    BY <2>1, <2>2, <2>3, <2>4, <2>5 DEF Init, Types
<1>4. ConnsOK
    BY <1>1 DEF ConnsOK
<1>5. FdsOK
    BY <1>1 DEF FdsOK, Live
<1>6. ChannelsOK
    BY <1>1, ServerAssumption DEF ChannelsOK, Listed, Leaving, Init
<1>7. BacklogOK
    BY DEF BacklogOK, Init
<1>8. MapOK
    BY <1>1 DEF MapOK, Init
<1>9. FunctorsOK
  <2>1. \A l \in Loops : Uncalled(l) = {}
    <3>1. Len(<<>>) = 0
      BY EmptySeq
    <3>2. \A l \in Loops : Uncalled(l) = (0 + 1)..(0 + 0)
      BY <1>2, <3>1 DEF Uncalled
    <3> QED
      BY <3>2
  <2> QED
    BY <1>1, <2>1 DEF FunctorsOK, Leaving
<1>10. TimersOK
    BY <1>1 DEF TimersOK, Init
<1>11. LoopsOK
    BY DEF LoopsOK, Init, Loops
<1>12. ActiveOK /\ HungOK
    BY LoopFacts DEF ActiveOK, HungOK, Init
<1>13. DataIsWatched
    BY <1>1 DEF DataIsWatched
<1>14. TypeOK
    BY <1>3, <1>10, <1>12, TypesSuffice
<1> QED
    BY <1>4, <1>5, <1>6, <1>7, <1>8, <1>9, <1>10, <1>11, <1>12, <1>13, <1>14 DEF Inv

LEMMA StutterKeeps ==
  ASSUME Inv, UNCHANGED vars
  PROVE  Inv'
<1>0. Types
    BY TypesHold DEF Inv
<1>1. UNCHANGED <<conn, connections, nextLoop, backlog, listenEdge, channels, active,
                  accepting, timers, due, timerfd, timerActive, queue, batch,
                  called, lpc, crash>>
    BY DEF vars
<1>2. ConnsOK' /\ ActiveOK' /\ DataIsWatched' /\ \A c \in Conns : Calm(c)
    BY <1>1, SameConns
<1>3. /\ FdsOK' /\ ChannelsOK' /\ BacklogOK' /\ MapOK' /\ TimersOK' /\ FunctorsOK'
      /\ HungOK'
    BY <1>1, <1>2, CalmKeeps
<1>4. LoopsOK'
    BY <1>1 DEF Inv, LoopsOK
<1>5. TypeOK'
    BY <1>0, <1>1, <1>2, <1>3, TypesNext DEF Types
<1> QED
    BY <1>2, <1>3, <1>4, <1>5 DEF Inv

LEMMA NextInv == Inv /\ [Next]_vars => Inv'
<1> SUFFICES ASSUME Inv, [Next]_vars PROVE Inv'
    OBVIOUS
<1>1. CASE MainStep
  <2>1. CASE PollMain
    BY <2>1, PollMainKeeps
  <2>2. CASE Accept
    BY <2>2, AcceptKeeps
  <2>3. CASE TakeFunctors(Main)
    BY <2>3, LoopFacts, TakeFunctorsKeeps
  <2>4. CASE RemoveConnection
    BY <2>4, RemovalKeeps
  <2>5. CASE DropFunctors(Main)
    BY <2>5, LoopFacts, DropFunctorsKeeps
  <2> QED
    BY <1>1, <2>1, <2>2, <2>3, <2>4, <2>5 DEF MainStep
<1>2. ASSUME NEW l \in IoLoops, IoStep(l) PROVE Inv'
  <2>1. CASE PollIo(l)
    BY <2>1, PollIoKeeps
  <2>2. CASE Dispatch(l)
    BY <2>2, DispatchKeeps
  <2>3. CASE DispatchTimer(l)
    BY <2>3, DispatchTimerKeeps
  <2>4. CASE TakeFunctors(l)
    BY <2>4, LoopFacts, TakeFunctorsKeeps
  <2>5. CASE RunConnection(l)
    BY <2>5, RunConnectionKeeps
  <2>6. CASE RunTimeouts(l)
    BY <2>6, RunTimeoutsKeeps
  <2>7. CASE TimeOut(l)
    BY <2>7, TimeOutKeeps
  <2>8. CASE TimeoutsDone(l)
    BY <2>8, TimeoutsDoneKeeps
  <2>9. CASE DropFunctors(l)
    BY <2>9, LoopFacts, DropFunctorsKeeps
  <2> QED
    BY <1>2, <2>1, <2>2, <2>3, <2>4, <2>5, <2>6, <2>7, <2>8, <2>9 DEF IoStep
<1>3. ASSUME NEW l \in IoLoops, Clock(l) PROVE Inv'
    BY <1>3, ClockKeeps
<1>4. ASSUME NEW c \in Conns, PeerConnects(c) PROVE Inv'
    BY <1>4, PeerConnectsKeeps
<1>5. ASSUME NEW c \in Conns, PeerStep(c) \/ PeerReads(c) PROVE Inv'
    BY <1>5, PeerKeeps
<1>6. CASE UNCHANGED vars
    BY <1>6, StutterKeeps
<1> QED
    BY <1>1, <1>2, <1>3, <1>4, <1>5, <1>6 DEF Next

\* The invariant: every connection is in one stage of its life, and the maps,
\* queues, heaps and channel lists of all loops agree with it (TcpServer.cpp,
\* TcpConnection.cpp, Epoll.cpp, TimerHeap.cpp).
THEOREM ServerIsConsistent == Spec => []Inv
BY InitInv, NextInv, PTL DEF Spec

(***************************************************************************)
(* What a step does to the marks of a connection and to the process         *)
(***************************************************************************)
LEMMA StageMarks ==
  ASSUME Types, NEW c, NEW x, conn' = [conn EXCEPT ![c].st = x]
  PROVE  \A d \in Conns : Unmarked(d)
<1>1. PICK s, t : s = conn[c] /\ t = [s EXCEPT !.st = x]
    OBVIOUS
<1>2. c \in Conns => s \in ConnType
    BY <1>1 DEF Types
<1>3. c \in Conns => t.tmo = s.tmo /\ t.rst = s.rst
    BY <1>1, <1>2 DEF ConnType
<1>4. conn' = [conn EXCEPT ![c] = t]
    BY <1>1
<1> QED
    BY <1>1, <1>3, <1>4 DEF Types, Unmarked

LEMMA ConnectMarks ==
  ASSUME Types, NEW c \in Conns, PeerConnects(c)
  PROVE  \A d \in Conns : Unmarked(d)
<1>1. PICK t : t = [NewConn EXCEPT !.st = "backlog"]
    OBVIOUS
<1>2. ~t.tmo /\ ~t.rst
    BY <1>1, BacklogRecord
<1>3. conn' = [conn EXCEPT ![c] = t]
    BY <1>1 DEF PeerConnects
<1> QED
    BY <1>2, <1>3 DEF Types, Unmarked

LEMMA NewMarks ==
  ASSUME Types, NEW c, NEW fd, NewConnection(c, fd)
  PROVE  \A d \in Conns : Unmarked(d)
<1>1. PICK s, t : /\ s = conn[c]
                  /\ t = [s EXCEPT !.st = "kConnecting", !.fd = fd, !.loop = nextLoop]
    OBVIOUS
<1>2. c \in Conns => s \in ConnType
    BY <1>1 DEF Types
<1>3. c \in Conns => t.tmo = s.tmo /\ t.rst = s.rst
    BY <1>1, <1>2 DEF ConnType
<1>4. conn' = [conn EXCEPT ![c] = t]
    BY <1>1 DEF NewConnection
<1> QED
    BY <1>1, <1>3, <1>4 DEF Types, Unmarked

LEMMA PeerMarks ==
  ASSUME Types, NEW c \in Conns, PeerStep(c) \/ PeerReads(c)
  PROVE  \A d \in Conns : /\ conn'[d].tmo = conn[d].tmo /\ conn'[d].st = conn[d].st
                          /\ conn[d].rst => conn'[d].rst
                          /\ conn'[d].rst => conn[d].rst \/ "rst" \in Faults
<1>1. PICK s \in ConnType : s = conn[c]
    BY DEF Types
<1>2. PICK t : /\ \/ t = [s EXCEPT !.data = TRUE, !.sends = @ + 1]
                  \/ t = [s EXCEPT !.fin = TRUE]
                  \/ t = [s EXCEPT !.rst = TRUE, !.err = TRUE] /\ "rst" \in Faults
                  \/ t = [s EXCEPT !.full = FALSE]
               /\ conn' = [conn EXCEPT ![c] = [t EXCEPT !.edge = t.reg # "off"]]
    BY <1>1 DEF PeerStep, PeerReads, Notify
<1>3. PICK u : u = [t EXCEPT !.edge = t.reg # "off"]
    OBVIOUS
<1>4. /\ u.tmo = s.tmo /\ u.st = s.st
      /\ u.rst = s.rst \/ (u.rst = TRUE /\ "rst" \in Faults)
  <2>1. CASE t = [s EXCEPT !.data = TRUE, !.sends = @ + 1]
    BY <1>3, <2>1 DEF ConnType
  <2>2. CASE t = [s EXCEPT !.fin = TRUE]
    BY <1>3, <2>2 DEF ConnType
  <2>3. CASE t = [s EXCEPT !.rst = TRUE, !.err = TRUE] /\ "rst" \in Faults
    BY <1>3, <2>3 DEF ConnType
  <2>4. CASE t = [s EXCEPT !.full = FALSE]
    BY <1>3, <2>4 DEF ConnType
  <2> QED
    BY <1>2, <2>1, <2>2, <2>3, <2>4
<1>5. conn' = [conn EXCEPT ![c] = u]
    BY <1>2, <1>3
<1> QED
    BY <1>1, <1>4, <1>5 DEF Types

\* Who ends the process: accept(), or a peer by a reset
Accused == "garbage" \in Faults \/ "nomem" \in Faults

LEMMA StepMarks ==
  ASSUME Inv, [Next]_vars
  PROVE  /\ \A c \in Conns : \/ conn'[c].tmo => conn[c].tmo
                             \/ active[conn[c].loop] = {}
         /\ \A c \in Conns : conn'[c].rst => conn[c].rst \/ "rst" \in Faults
         /\ \/ UNCHANGED crash
            \/ crash' = "accept" /\ Accused
            \/ crash' \in {"SIGPIPE", "handleClose"} /\ ByReset'
<1>0. Types
    BY TypesHold DEF Inv
<1>1. \A c \in Conns : Marks(c) => Unmarked(c)
    BY DEF Marks, Unmarked
<1>2. ASSUME UNCHANGED conn PROVE \A c \in Conns : Unmarked(c)
    BY <1>2 DEF Unmarked
<1>3. CASE MainStep
  <2>1. CASE PollMain \/ TakeFunctors(Main) \/ RemoveConnection
    <3>1. UNCHANGED <<conn, crash>>
      BY <2>1 DEF PollMain, TakeFunctors, RemoveConnection, connVars
    <3> QED
      BY <1>2, <3>1 DEF Unmarked
  <2>2. CASE Accept
    <3>1. \A c \in Conns : Unmarked(c)
      <4>1. CASE conn' = [conn EXCEPT ![Head(backlog)].st = "refused"]
        BY <1>0, <4>1, StageMarks
      <4>2. CASE NewConnection(Head(backlog), Min(FreeFds))
        BY <1>0, <4>2, NewMarks
      <4> QED
        BY <1>2, <2>2, <4>1, <4>2 DEF Accept, SocketAcceptFails
    <3>2. UNCHANGED crash \/ (Accused /\ crash' = "accept")
      BY <2>2 DEF Accept, SocketAcceptFails, Accused
    <3> QED
      BY <3>1, <3>2 DEF Unmarked
  <2>3. CASE DropFunctors(Main)
    BY <2>3, LoopFacts, DropFunctorsKeeps DEF Unmarked
  <2> QED
    BY <1>3, <2>1, <2>2, <2>3 DEF MainStep
<1>4. ASSUME NEW l \in IoLoops, IoStep(l)
      PROVE  /\ \A c \in Conns : \/ conn'[c].tmo => conn[c].tmo
                                \/ active[conn[c].loop] = {}
             /\ \A c \in Conns : conn'[c].rst => conn[c].rst
             /\ \/ UNCHANGED crash
                \/ crash' \in {"SIGPIPE", "handleClose"} /\ ByReset'
  <2>1. CASE PollIo(l)
    BY <2>1, PollIoKeeps DEF Marks
  <2>2. CASE Dispatch(l)
    BY <2>2, DispatchKeeps DEF Marks
  <2>3. CASE DispatchTimer(l) \/ TakeFunctors(l) \/ RunTimeouts(l) \/ TimeoutsDone(l)
    <3>1. UNCHANGED <<conn, crash>>
      BY <2>3 DEF DispatchTimer, TakeFunctors, RunTimeouts, TimeoutsDone, connVars
    <3> QED
      BY <3>1
  <2>4. CASE RunConnection(l)
    BY <2>4, RunConnectionKeeps DEF Marks
  <2>5. CASE TimeOut(l)
    BY <2>5, TimeOutKeeps DEF Marks
  <2>6. CASE DropFunctors(l)
    BY <2>6, LoopFacts, DropFunctorsKeeps DEF Unmarked
  <2> QED
    BY <1>4, <2>1, <2>2, <2>3, <2>4, <2>5, <2>6 DEF IoStep
<1>5. ASSUME NEW l \in IoLoops, Clock(l) PROVE UNCHANGED <<conn, crash>>
    BY <1>5 DEF Clock, TimerDue, TimerExpires, connVars
<1>6. ASSUME NEW c \in Conns, PeerConnects(c)
      PROVE  (\A d \in Conns : Unmarked(d)) /\ UNCHANGED crash
    BY <1>0, <1>6, ConnectMarks DEF PeerConnects
<1>7. ASSUME NEW c \in Conns, PeerStep(c) \/ PeerReads(c)
      PROVE  /\ \A d \in Conns : conn'[d].tmo = conn[d].tmo
             /\ \A d \in Conns : conn'[d].rst => conn[d].rst \/ "rst" \in Faults
             /\ UNCHANGED crash
    BY <1>0, <1>7, PeerMarks DEF PeerStep, PeerReads
<1>8. CASE UNCHANGED vars
    BY <1>2, <1>8 DEF vars, Unmarked
<1>9. CASE \E l \in IoLoops : IoStep(l) \/ Clock(l)
    BY <1>2, <1>4, <1>5, <1>9 DEF Unmarked
<1>10. CASE \E c \in Conns : PeerConnects(c) \/ PeerStep(c) \/ PeerReads(c)
    BY <1>6, <1>7, <1>10 DEF Unmarked
<1> QED
    BY <1>3, <1>8, <1>9, <1>10 DEF Next

\* A dead process does nothing, so a connection that was reset stays: the peer's
\* next one would come only when it is gone.
LEMMA DeadStays ==
  ASSUME Inv, [Next]_vars, crash # "no"
  PROVE  UNCHANGED crash /\ (ByReset => ByReset')
<1>0. Types
    BY TypesHold DEF Inv
<1>1. ASSUME UNCHANGED conn PROVE ByReset => ByReset'
    BY <1>1 DEF ByReset, Live
<1>2. CASE UNCHANGED vars
    BY <1>1, <1>2 DEF vars
<1>3. ~MainStep
    BY DEF MainStep, PollMain, Accept, TakeFunctors, RemoveConnection, DropFunctors,
           Calls, At
<1>4. ASSUME NEW l \in IoLoops PROVE ~IoStep(l)
    BY DEF IoStep, PollIo, Dispatch, DispatchTimer, TakeFunctors, RunConnection,
           RunTimeouts, TimeOut, TimeoutsDone, DropFunctors, Calls, At
<1>5. ASSUME NEW l \in IoLoops, Clock(l) PROVE UNCHANGED <<conn, crash>>
    BY <1>5 DEF Clock, TimerDue, TimerExpires, connVars
<1>6. ASSUME NEW c \in Conns, PeerConnects(c)
      PROVE  UNCHANGED crash /\ (ByReset => ByReset')
  <2>1. /\ ~Live(c) /\ UNCHANGED crash
        /\ conn' = [conn EXCEPT ![c] = [NewConn EXCEPT !.st = "backlog"]]
    BY <1>6 DEF PeerConnects, Live
  <2>2. \A d \in Conns : d # c => conn'[d] = conn[d]
    BY <1>0, <2>1 DEF Types
  <2> QED
    BY <2>1, <2>2 DEF ByReset, Live
<1>7. ASSUME NEW c \in Conns, PeerStep(c) \/ PeerReads(c)
      PROVE  UNCHANGED crash /\ (ByReset => ByReset')
  <2>1. \A d \in Conns : conn'[d].st = conn[d].st /\ (conn[d].rst => conn'[d].rst)
    BY <1>0, <1>7, PeerMarks
  <2>2. UNCHANGED crash
    BY <1>7 DEF PeerStep, PeerReads
  <2> QED
    BY <2>1, <2>2 DEF ByReset, Live
<1> QED
    BY <1>1, <1>2, <1>3, <1>4, <1>5, <1>6, <1>7 DEF Next

(***************************************************************************)
(* The properties                                                           *)
(***************************************************************************)
LEMMA RemovalsOf ==
  ASSUME Inv, NEW c \in Conns
  PROVE  Cardinality(Removals(c)) = IF Leaving(conn[c]) THEN 1 ELSE 0
<1>1. TypeOK /\ FunctorsOK
    BY DEF Inv
<1>2. ASSUME NEW p \in Removals(c)
      PROVE  /\ p = <<p[1], p[2]>> /\ p[1] \in Loops /\ p[2] \in Uncalled(p[1])
             /\ FunctorAt(p[1], p[2])[2] = c /\ Leaving(conn[c])
  <2>1. PICK l \in Loops : p \in {l} \X Uncalled(l)
    BY <1>2 DEF Removals
  <2>2. p = <<p[1], p[2]>> /\ p[1] = l /\ p[2] \in Uncalled(l)
    BY <2>1
  <2>3. FunctorAt(p[1], p[2]) \in {<<"remove", c>>, <<"destroy", c>>}
    BY <1>2 DEF Removals
  <2>4. PICK f : f = FunctorAt(p[1], p[2])
    OBVIOUS
  <2>5. f[2] = c /\ f[1] \in {"remove", "destroy"}
    BY <2>3, <2>4
  <2>6. FunctorOK(l, f)
    BY <1>1, <2>2, <2>4 DEF FunctorsOK
  <2>7. Leaving(conn[c])
    BY <2>5, <2>6 DEF FunctorOK
  <2> QED
    BY <2>2, <2>4, <2>5, <2>7
<1>3. CASE ~Leaving(conn[c])
  <2>1. Removals(c) = {}
    BY <1>2, <1>3
  <2> QED
    BY <1>3, <2>1, FS_EmptySet
<1>4. CASE Leaving(conn[c])
  <2>1. PICK l \in Loops : \E i \in Uncalled(l) : FunctorAt(l, i)[2] = c
    BY <1>1, <1>4 DEF FunctorsOK
  <2>2. PICK i \in Uncalled(l) : FunctorAt(l, i)[2] = c
    BY <2>1
  <2>3. PICK f \in Functors : f = FunctorAt(l, i)
    BY <1>1, QueueTypes
  <2>4. f[2] = c /\ FunctorOK(l, f) /\ f = <<f[1], f[2]>>
    BY <1>1, <2>2, <2>3, FunctorParts DEF FunctorsOK
  <2>5. f[1] \in {"remove", "destroy"}
    BY <1>4, <2>4, FunctorParts, ServerAssumption DEF FunctorOK, Leaving
  <2>6. f \in {<<"remove", c>>, <<"destroy", c>>}
    BY <2>4, <2>5
  <2>7. PICK p : p = <<l, i>>
    OBVIOUS
  <2>8. p \in {l} \X Uncalled(l) /\ p[1] = l /\ p[2] = i
    BY <2>7
  <2>9. p \in Removals(c)
    BY <2>3, <2>6, <2>8 DEF Removals
  <2>10. ASSUME NEW q \in Removals(c) PROVE q = p
    <3>1. /\ q = <<q[1], q[2]>> /\ q[1] \in Loops /\ q[2] \in Uncalled(q[1])
          /\ FunctorAt(q[1], q[2])[2] = c
      BY <1>2, <2>10
    <3>2. q[1] = l /\ q[2] = i
      BY <1>1, <2>2, <3>1 DEF FunctorsOK
    <3> QED
      BY <2>7, <3>1, <3>2
  <2>11. Removals(c) = {p}
    BY <2>9, <2>10
  <2> QED
    BY <1>4, <2>11, FS_Singleton
<1> QED
    BY <1>3, <1>4

LEMMA TimersOfOne ==
  ASSUME Inv, NEW c \in Conns
  PROVE  Cardinality(TimersOf(c)) =
           IF conn[c].st = "kConnected" /\ conn[c].alive THEN 1 ELSE 0
<1>1. TimersOK
    BY DEF Inv
<1>2. ASSUME NEW p \in TimersOf(c)
      PROVE  /\ p = <<p[1], p[2]>> /\ p[1] = conn[c].loop
             /\ p[1] \in IoLoops /\ p[2] \in DOMAIN timers[p[1]]
             /\ timers[p[1]][p[2]] = c
             /\ conn[c].st = "kConnected" /\ conn[c].alive
  <2>1. PICK l \in IoLoops : p \in {l} \X DOMAIN timers[l]
    BY <1>2 DEF TimersOf
  <2>2. p = <<p[1], p[2]>> /\ p[1] = l /\ p[2] \in DOMAIN timers[l]
    BY <2>1
  <2>3. timers[p[1]][p[2]] = c
    BY <1>2 DEF TimersOf
  <2> QED
    BY <1>1, <2>2, <2>3 DEF TimersOK
<1>3. CASE ~(conn[c].st = "kConnected" /\ conn[c].alive)
  <2>1. TimersOf(c) = {}
    BY <1>2, <1>3
  <2> QED
    BY <1>3, <2>1, FS_EmptySet
<1>4. CASE conn[c].st = "kConnected" /\ conn[c].alive
  <2>1. PICK l \in IoLoops : l = conn[c].loop
    BY <1>4 DEF Inv, ConnsOK, ConnOK
  <2>2. PICK i \in DOMAIN timers[l] : timers[l][i] = c
    BY <1>1, <1>4, <2>1 DEF TimersOK
  <2>3. PICK p : p = <<l, i>>
    OBVIOUS
  <2>4. p \in {l} \X DOMAIN timers[l] /\ p[1] = l /\ p[2] = i
    BY <2>3
  <2>5. p \in TimersOf(c)
    BY <2>2, <2>4 DEF TimersOf
  <2>6. ASSUME NEW q \in TimersOf(c) PROVE q = p
    <3>1. /\ q = <<q[1], q[2]>> /\ q[1] = l /\ q[2] \in DOMAIN timers[l]
          /\ timers[l][q[2]] = c
      BY <1>2, <2>1, <2>6
    <3>2. q[2] = i
      BY <1>1, <2>2, <3>1 DEF TimersOK
    <3> QED
      BY <2>3, <3>1, <3>2
  <2>7. TimersOf(c) = {p}
    BY <2>5, <2>6
  <2> QED
    BY <1>4, <2>7, FS_Singleton
<1> QED
    BY <1>3, <1>4

\* Type correctness of the server's state
THEOREM TypeCorrect == Spec => []TypeOK
<1>1. Inv => TypeOK
    BY DEF Inv
<1> QED
    BY <1>1, ServerIsConsistent, PTL

\* A closed connection is removed exactly once (TcpServer.cpp:55-67): one removal
\* is under way until its channel has left the loop, and none for an open one.
THEOREM EachIsRemovedOnce == Spec => []RemovedOnce
<1>1. Inv => RemovedOnce
    BY RemovalsOf DEF RemovedOnce, Leaving
<1> QED
    BY <1>1, ServerIsConsistent, PTL

\* An open keep-alive connection has exactly one timer, any other none
\* (TcpConnection.cpp:83-87).
THEOREM EachHasOneTimer == Spec => []OneTimerEach
<1>1. Inv => OneTimerEach
    BY TimersOfOne DEF OneTimerEach
<1> QED
    BY <1>1, ServerIsConsistent, PTL

\* When a connection is destroyed, no raw pointer to it is left: not in epoll,
\* m_channels, m_active_channels nor a functor (TcpServer.cpp:45).
THEOREM NothingDangles == Spec => []NoDangling
<1>1. ASSUME Inv, NEW c \in Conns, conn[c].st = "freed"
      PROVE  /\ conn[c].reg = "off"
             /\ \A l \in IoLoops : /\ c \notin active[l]
                                   /\ \A f \in Fds : channels[l][f] # c
             /\ \A l \in Loops : \A i \in Uncalled(l) :
                  FunctorAt(l, i) # <<"established", c>>
  <2>1. conn[c].reg = "off"
    BY <1>1 DEF Inv, ConnsOK, ConnOK
  <2>2. \A l \in IoLoops : c \notin active[l]
    BY <1>1 DEF Inv, ActiveOK
  <2>3. \A l \in IoLoops : \A f \in Fds : channels[l][f] # c
    BY <1>1 DEF Inv, ChannelsOK, Listed, Leaving
  <2>4. ASSUME NEW l \in Loops, NEW i \in Uncalled(l),
               FunctorAt(l, i) = <<"established", c>>
        PROVE  FALSE
    <3>1. PICK f : f = <<"established", c>>
      OBVIOUS
    <3>2. FunctorOK(l, f)
      BY <1>1, <2>4, <3>1 DEF Inv, FunctorsOK
    <3>3. f[1] = "established" /\ f[2] = c
      BY <3>1
    <3> QED
      BY <1>1, <3>2, <3>3 DEF FunctorOK
  <2> QED
    BY <2>1, <2>2, <2>3, <2>4
<1>2. Inv => NoDangling
    BY <1>1 DEF NoDangling
<1> QED
    BY <1>2, ServerIsConsistent, PTL

\* The checks of Epoll::updateChannel() against m_channels never fail, however
\* descriptors are reused (Epoll.cpp:72-111).
THEOREM ChannelsAgree == Spec => []ChannelsConsistent
<1>1. Inv => ChannelsConsistent
    BY DEF Inv, ConnsOK, ConnOK, ChannelsConsistent
<1> QED
    BY <1>1, ServerIsConsistent, PTL

\* No bytes that arrive on an open connection are overlooked, although an
\* edge-triggered epoll reports them once (TcpConnection.cpp:124-132).
THEOREM NoDataIsMissed == Spec => []DataIsWatched
<1>1. Inv => DataIsWatched
    BY DEF Inv
<1> QED
    BY <1>1, ServerIsConsistent, PTL

\* The parser's loop catches an I/O thread only on a keep-alive connection that
\* is read while an answer waits in its buffer (TcpConnection.cpp:118-122).
THEOREM OnlyResidueHangs == Spec => []HangsOnlyOnResidue
<1>1. Inv => HangsOnlyOnResidue
    BY DEF Inv, HungOK, HangsOnlyOnResidue
<1> QED
    BY <1>1, ServerIsConsistent, PTL

\* A timer marks its connection only when the loop has handled all events of the
\* round (TimerHeap.cpp:131-132).
THEOREM TimeoutsComeLast == Spec => TimeoutAfterData
<1>1. Inv /\ [Next]_vars =>
        [\A c \in Conns : (~conn[c].tmo /\ conn'[c].tmo) =>
           active[conn[c].loop] = {}]_vars
    BY StepMarks
<1> QED
    BY <1>1, ServerIsConsistent, PTL DEF Spec, TimeoutAfterData

\* No peer has reset its connection, and the process lives.
Quiet == NoFatal /\ \A c \in Conns : ~conn[c].rst

\* Unless a peer resets a connection or accept() fails with an error that
\* Socket.cpp:72-78 holds to be fatal, the process never ends itself, whatever is
\* sent, shut down or not read (TcpConnection.cpp:35,163).
THEOREM NeverFatal ==
  ASSUME "rst" \notin Faults, "garbage" \notin Faults, "nomem" \notin Faults
  PROVE  Spec => []NoFatal
<1>1. Init => Quiet
    BY DEF Init, Quiet, NoFatal, NewConn
<1>2. Inv /\ Quiet /\ [Next]_vars => Quiet'
    BY StepMarks DEF Quiet, NoFatal, ByReset, Accused
<1>3. Quiet => NoFatal
    BY DEF Quiet
<1> QED
    BY <1>1, <1>2, <1>3, ServerIsConsistent, PTL DEF Spec

\* With all faults allowed, what ends the process is a reset of a connection that
\* still exists or such an error: epoll_ctl never fails (Epoll.cpp:140-152) and no
\* connection is destroyed that is not closed (TcpConnection.cpp:35-37).
THEOREM NeverItsOwnFault == Spec => []OnlyPeersKill
<1>1. Init => OnlyPeersKill
    BY DEF Init, OnlyPeersKill
<1>2. Inv /\ OnlyPeersKill /\ [Next]_vars => OnlyPeersKill'
  <2> SUFFICES ASSUME Inv, OnlyPeersKill, [Next]_vars PROVE OnlyPeersKill'
    OBVIOUS
  <2>1. /\ crash \in {"no", "SIGPIPE", "handleClose", "accept"}
        /\ crash \in {"SIGPIPE", "handleClose"} => ByReset
        /\ crash = "accept" => Accused
    BY DEF OnlyPeersKill, ByReset, Accused
  <2>2. CASE crash # "no"
    BY <2>1, <2>2, DeadStays DEF OnlyPeersKill, ByReset, Accused
  <2>3. CASE crash = "no"
    BY <2>3, StepMarks DEF OnlyPeersKill, ByReset, Accused
  <2> QED
    BY <2>2, <2>3
<1> QED
    BY <1>1, <1>2, ServerIsConsistent, PTL DEF Spec
=============================================================================
