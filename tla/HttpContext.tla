---------------------------- MODULE HttpContext ----------------------------
(***************************************************************************)
(* The HTTP side of one connection with its two Buffers: a round begins     *)
(* when TcpConnection's handleRead() puts what has arrived into the input   *)
(* buffer, and goes through HttpContext::work() to the end of               *)
(* handleWrite().  The parser's loop takes one line per step.               *)
(*                                                                          *)
(* The peer sends lines and the network cuts them anywhere.  A line is a    *)
(* text, in two pieces so that it can be cut inside, and "\r\n"; the second *)
(* piece stands for what the parser can tell of the text.                   *)
(***************************************************************************)
EXTENDS Naturals, Sequences, SequencesExt, Buffer

CONSTANTS MaxFirst,   \* bound: lines that arrive in the first round
          MaxLater,   \* bound: lines that arrive in a later round
          MaxRounds,  \* bound: rounds on one connection
          MayBlock    \* whether the send buffer may be short of room

ASSUME HttpAssumption == /\ MaxFirst \in Nat \ {0} /\ MaxLater \in Nat \ {0}
                         /\ MaxRounds \in Nat \ {0}
                         /\ MayBlock \in BOOLEAN

\* A request line with a known method and version, for a page there is or is
\* not; a header Connection: Keep-Alive, another Connection header; an empty
\* line; one with a '\r' inside.
Lines == {"hit", "miss", "keepAlive", "close", "blank", "bareCR"}

VARIABLES
  input,    \* m_input_buffer
  output,   \* m_output_buffer
  line,     \* m_new_line
  check,    \* m_check_state
  request,  \* m_request_state
  uri,      \* m_uri: "none", "hit" or "miss"
  keep,     \* m_connection = KEEP_ALIVE
  alive,    \* TcpConnection::m_alive
  pc,       \* where the handler is, "idle" between rounds
  answer,   \* the status of this round's response
  rounds,   \* rounds so far
  taken,    \* history: the content of the input when this round began
  from,     \* history: m_check_state when it began
  asked,    \* history: the peer asked to keep the connection
  answers,  \* history: all the bytes of all responses
  sent      \* history: the bytes the peer was sent

history == <<rounds, taken, from, asked, answers, sent>>
vars == <<input, output, line, check, request, uri, keep, alive, pc, answer,
          history>>

Init == /\ input = NewBuffer
        /\ output = NewBuffer
        /\ line = <<>>
        /\ check = "REQUEST_LINE"
        /\ request = "NO_REQUEST"
        /\ uri = "none"
        /\ keep = FALSE
        /\ alive = FALSE
        /\ pc = "idle"
        /\ answer = "none"
        /\ rounds = 0
        /\ taken = <<>>
        /\ from = "REQUEST_LINE"
        /\ asked = FALSE
        /\ answers = <<>>
        /\ sent = <<>>

\* The bytes of a line
Bytes(l) == CASE l = "blank"  -> <<"CR", "LF">>
              [] l = "bareCR" -> <<"part", "CR", "text", "CR", "LF">>
              [] OTHER        -> <<"part", l, "CR", "LF">>

\* Up to max lines, the last one whole or cut anywhere
Cuts == UNION {{SubSeq(Bytes(l), 1, k) : k \in 1..Len(Bytes(l))} : l \in Lines}

Sent(max) ==
  UNION {{FlattenSeq([i \in 1..n |-> Bytes(d[i])]) \o c :
            d \in [1..n -> Lines], c \in Cuts} : n \in 0..(max - 1)}

First == Sent(MaxFirst)
Later == Sent(MaxLater)

\* The bytes that end a line of which s is the beginning; when s ends with its
\* first piece the text is any of them.
Ends(s) == CASE s = <<>> \/ Last(s) = "LF" -> {<<>>}
             [] Last(s) = "part" -> {<<l, "CR", "LF">> : l \in {"hit", "keepAlive"}}
             [] Last(s) = "CR"   -> {<<"LF">>}
             [] OTHER            -> {<<"CR", "LF">>}

\* What one delivery adds: in a later one the peer goes on where the last one
\* ended, with the rest of the line that was cut or a part of it, whether the
\* parser still has its beginning or reset() has dropped it.
Deliveries ==
  IF rounds = 0 THEN First
  ELSE UNION {{SubSeq(e, 1, k) : k \in 1..Len(e)} \cup {e \o d : d \in Later} :
                e \in Ends(taken)}

(***************************************************************************)
(* A reading of a content in terms of lines, apart from the parser's        *)
(***************************************************************************)
\* What the parser can tell of the bytes between two ends of lines
Kind(text) == IF text = <<>> THEN "blank"
              ELSE IF Contains(text, "CR") THEN "bareCR"
              ELSE IF Len(text) = 2 /\ text[1] = "part" THEN text[2]
              ELSE "other"

\* Where the lines of s end, and of the line that ends at e: the ends before it
\* and what the parser can tell of it
LineFeeds(s) == {i \in 2..Len(s) : s[i - 1] = "CR" /\ s[i] = "LF"}

Before(s, e) == {f \in LineFeeds(s) : f < e}

LineKind(s, e) == Kind(SubSeq(s, Max({0} \cup Before(s, e)) + 1, e - 2))

FirstKind(s) == IF LineFeeds(s) = {} THEN "open" ELSE LineKind(s, Min(LineFeeds(s)))

\* The lines of s in the header, when the parser expects start
HeaderLines(start, s) ==
  {e \in LineFeeds(s) : start = "REQUEST_LINE" => Before(s, e) # {}}

\* A conforming reading gets to the header line that ends at e: a good request
\* line comes first, if it is still expected, and no error before.
Reaches(start, s, e) ==
  /\ start # "END"
  /\ start = "REQUEST_LINE" => FirstKind(s) \in {"hit", "miss"}
  /\ e \in HeaderLines(start, s)
  /\ \A f \in HeaderLines(start, s) : f <= e => LineKind(s, f) \notin {"close", "bareCR"}

\* The peer asks to keep the connection, in the header and not behind it.
Asks(start, s) ==
  \E e \in LineFeeds(s) :
    /\ Reaches(start, s, e)
    /\ LineKind(s, e) = "keepAlive"
    /\ \A f \in HeaderLines(start, s) : f <= e => LineKind(s, f) # "blank"

(***************************************************************************)
(* The handlers                                                             *)
(***************************************************************************)
\* readFromFd() in handleRead()
Deliver(d) ==
  /\ pc = "idle"
  /\ rounds < MaxRounds
  /\ rounds' = rounds + 1
  /\ input' = ReadFromFd(input, d)
  /\ taken' = Content(input) \o d
  /\ from' = check
  /\ asked' = (asked \/ Asks(check, taken'))
  /\ answer' = "none"
  /\ pc' = "parseLine"
  /\ UNCHANGED <<output, line, check, request, uri, keep, alive, answers, sent>>

\* parseLine() with getAnHTTPLine()
ParseLine ==
  /\ pc = "parseLine"
  /\ \E got \in {GetAnHTTPLine(input)} : line' = got.line /\ input' = got.rest
  /\ pc' = "loop"
  /\ UNCHANGED <<output, check, request, uri, keep, alive, answer, history>>

\* parseLine()'s result: its first '\r' that is not the last byte decides.
LineState ==
  LET crs == {i \in 1..(Len(line) - 1) : line[i] = "CR"}
      first == CHOOSE i \in crs : \A j \in crs : i <= j
  IN  CASE crs = {} -> "LINE_OPEN"
        [] crs # {} /\ line[first + 1] = "LF" -> "LINE_OK"
        [] OTHER -> "LINE_BAD"

LineOk == LineState = "LINE_OK"

\* The text of a line that is LINE_OK, as the comparisons see it
Text == Kind(SubSeq(line, 1, Len(line) - 2))

\* parseRequestLine()
ParseRequestLine ==
  /\ pc = "loop" /\ LineOk /\ check = "REQUEST_LINE"
  /\ \/ /\ Text \in {"hit", "miss"}
        /\ uri' = Text
        /\ check' = "HEADER"
        /\ request' = "NO_REQUEST"
        /\ pc' = "parseLine"
     \/ /\ Text \notin {"hit", "miss"}
        /\ request' = "BAD_REQUEST"
        /\ pc' = "respond"
        /\ UNCHANGED <<uri, check>>
  /\ UNCHANGED <<input, output, line, keep, alive, answer, history>>

\* Mutant: a Connection header of another kind is not an error.
ParseMessageHeaderLax ==
  /\ pc = "loop" /\ LineOk /\ check = "HEADER"
  /\ request' = "NO_REQUEST"
  /\ keep' = (keep \/ Text = "keepAlive")
  /\ check' = IF Text = "blank" THEN "BODY" ELSE check
  /\ pc' = IF Text = "blank" THEN "loop" ELSE "parseLine"
  /\ UNCHANGED <<input, output, line, uri, alive, answer, history>>

\* parseMessageHeader(): the empty line is kept for the body's turn.
ParseMessageHeader ==
  /\ pc = "loop" /\ LineOk /\ check = "HEADER"
  /\ \/ /\ Text = "blank"
        /\ check' = "BODY"
        /\ request' = "NO_REQUEST"
        /\ UNCHANGED <<keep, pc>>
     \/ /\ Text = "close"
        /\ request' = "BAD_REQUEST"
        /\ pc' = "respond"
        /\ UNCHANGED <<keep, check>>
     \/ /\ Text \notin {"blank", "close"}
        /\ keep' = (keep \/ Text = "keepAlive")
        /\ request' = "NO_REQUEST"
        /\ pc' = "parseLine"
        /\ UNCHANGED check
  /\ UNCHANGED <<input, output, line, uri, alive, answer, history>>

\* Mutant: the loop is not left.
ParseMessageBodyStays ==
  /\ pc = "loop" /\ LineOk /\ check = "BODY"
  /\ check' = "END"
  /\ request' = "GET_REQUEST"
  /\ UNCHANGED <<input, output, line, uri, keep, alive, pc, answer, history>>

\* parseMessageBody(), after which the loop is left
ParseMessageBody ==
  /\ pc = "loop" /\ LineOk /\ check = "BODY"
  /\ check' = "END"
  /\ request' = "GET_REQUEST"
  /\ pc' = "respond"
  /\ UNCHANGED <<input, output, line, uri, keep, alive, answer, history>>

\* handleHttpRequest() after its loop.  In CHECK_STATE_END a complete line
\* leaves the loop no way out, and no action is enabled.
LeaveLoop ==
  /\ pc = "loop" /\ ~LineOk
  /\ request' = IF LineState = "LINE_OPEN" THEN "NO_REQUEST" ELSE "BAD_REQUEST"
  /\ pc' = "respond"
  /\ UNCHANGED <<input, output, line, check, uri, keep, alive, answer, history>>

\* What getHttpResponse() makes of the request
Status == CASE request = "GET_REQUEST" /\ uri = "hit"  -> "200"
            [] request = "GET_REQUEST" /\ uri = "miss" -> "404"
            [] OTHER -> "400"

\* getHttpResponse() and handleRead()'s look at isKeepAlive(); a response has
\* two bytes, so that it can be sent in part.
GetHttpResponse ==
  /\ pc = "respond"
  /\ answer' = Status
  /\ output' = AppendBytes(output, <<Status, "page">>)
  /\ answers' = answers \o <<Status, "page">>
  /\ alive' = (alive \/ keep)
  /\ pc' = "write"
  /\ UNCHANGED <<input, line, check, request, uri, keep, rounds, taken, from,
                 asked, sent>>

\* Mutant: the state of the last request is not cleared.
ResetKeepsRequest ==
  /\ keep' = TRUE
  /\ input' = RetrieveAll(input)
  /\ line' = <<>>
  /\ uri' = "none"
  /\ check' = "REQUEST_LINE"
  /\ UNCHANGED request

\* HttpContext::reset(): what is left of the input is dropped.
Reset == /\ keep' = TRUE
         /\ input' = RetrieveAll(input)
         /\ line' = <<>>
         /\ uri' = "none"
         /\ request' = "NO_REQUEST"
         /\ check' = "REQUEST_LINE"

\* writeToFd(), when the socket takes the first n bytes of the output
Send(n) == /\ output' = WriteToFd(output, n)
           /\ sent' = sent \o SubSeq(Content(output), 1, n)

\* Mutant: every connection is kept.
AfterWriteKeeps ==
  /\ pc' = "idle"
  /\ alive' = TRUE
  /\ Reset

\* The end of handleWrite(), when everything is sent
AfterWrite ==
  /\ \/ alive /\ pc' = "idle" /\ Reset
     \/ /\ ~alive /\ pc' = "closed"
        /\ UNCHANGED <<input, line, check, request, uri, keep>>
  /\ UNCHANGED alive

\* handleWrite(), called by handleRead() or for EPOLLOUT: everything is sent;
\* or a part, and the rest waits for EPOLLOUT; or nothing, which is taken for
\* an error and ends with handleClose(), which leaves a kept connection alone.
HandleWrite ==
  /\ pc \in {"write", "writable"}
  /\ \/ /\ Send(ReadableBytes(output))
        /\ AfterWrite
     \/ /\ MayBlock
        /\ \E n \in 1..(ReadableBytes(output) - 1) : Send(n)
        /\ pc' = "writable"
        /\ UNCHANGED <<input, line, check, request, uri, keep, alive>>
     \/ /\ MayBlock /\ pc = "write"
        /\ pc' = IF alive THEN "idle" ELSE "closed"
        /\ UNCHANGED <<input, output, line, check, request, uri, keep, alive, sent>>
  /\ UNCHANGED <<answer, rounds, taken, from, asked, answers>>

Handle == \/ ParseLine \/ ParseRequestLine \/ ParseMessageHeader
          \/ ParseMessageBody \/ LeaveLoop \/ GetHttpResponse \/ HandleWrite

Next == (\E d \in Deliveries : Deliver(d)) \/ Handle

\* A thread that handles a delivery goes on, and a peer that still owes us an
\* EPOLLOUT reads on; peers need not send.
Spec == Init /\ [][Next]_vars /\ WF_vars(Handle)

(***************************************************************************)
(* Properties                                                               *)
(***************************************************************************)
\* Type correctness; between rounds the parser is never in the middle of
\* CHECK_STATE_BODY, and GET_REQUEST goes with CHECK_STATE_END.
TypeOK ==
  /\ \A b \in {input, output} : b.r <= b.w /\ b.w <= Len(b.mem)
  /\ check \in {"REQUEST_LINE", "HEADER", "BODY", "END"}
  /\ request \in {"NO_REQUEST", "GET_REQUEST", "BAD_REQUEST"}
  /\ uri \in {"none", "hit", "miss"}
  /\ keep \in BOOLEAN /\ alive \in BOOLEAN /\ asked \in BOOLEAN
  /\ pc \in {"idle", "parseLine", "loop", "respond", "write", "writable",
            "closed"}
  /\ answer \in {"none", "200", "400", "404"}
  /\ rounds \in 0..MaxRounds
  /\ from \in {"REQUEST_LINE", "HEADER", "END"}
  /\ request = "GET_REQUEST" => check = "END" /\ uri # "none"

\* The request is complete: a conforming reading gets to an empty line.
Complete(start, s) ==
  \E e \in LineFeeds(s) : Reaches(start, s, e) /\ LineKind(s, e) = "blank"

\* The line of s that ends at e is an error where it stands.
Wrong(start, s, e) ==
  IF e \in HeaderLines(start, s) THEN LineKind(s, e) \in {"close", "bareCR"}
                                  ELSE LineKind(s, e) \notin {"hit", "miss"}

\* No more bytes can make a request of it.
Malformed(start, s) ==
  /\ start # "END" /\ ~Complete(start, s)
  /\ \E e \in LineFeeds(s) : Wrong(start, s, e)

\* The state machine's answer is the one the bytes of the round call for,
\* wherever they were cut and however the buffer moved and grew: a complete
\* request gets its page or "not found", and nothing else does; an error gets
\* 400 (HttpContext.cpp:113-324, Buffer.cpp:28-76).  What an incomplete request
\* gets is left open here: see NoEarlyAnswer.
ResponseMatches ==
  pc = "write" =>
    IF Complete(from, taken)
    THEN answer = IF (IF from = "REQUEST_LINE" THEN FirstKind(taken) ELSE uri) = "hit"
                  THEN "200" ELSE "404"
    ELSE /\ answer \notin {"200", "404"}
         /\ Malformed(from, taken) => answer = "400"

\* A request that has a good request line, no error so far and not yet its end
Unfinished(start, s) ==
  /\ start # "END" /\ ~Complete(start, s) /\ ~Malformed(start, s)
  /\ start = "REQUEST_LINE" => FirstKind(s) \in {"hit", "miss"}
  /\ \A i \in 1..(Len(s) - 1) : s[i] = "CR" => s[i + 1] = "LF"

\* "the request is not complete, please read more request data"
\* (HttpContext.h:12): an incomplete request is not answered.
NoEarlyAnswer == pc = "write" => ~Unfinished(from, taken)

\* What the peer was sent and what is still in the buffer are the answers, in
\* order, each byte once, also when an answer joins what an earlier one left
\* unsent (Buffer.cpp:50-56, 109-136).
AnswersInOrder == answers = sent \o Content(output)

\* Only a connection whose peer asked for it, in a header read without error,
\* outlives its first answer (TcpConnection.cpp:83,128; HttpContext.cpp:230).
KeptOnRequest ==
  rounds > 0 /\ pc \in {"idle", "closed"} => (pc = "idle") = asked

\* Every delivery is answered and the thread returns to its loop, unless an
\* answer that could not be sent has left the parser in CHECK_STATE_END
\* (HttpContext.cpp:133-157).
RoundEnds == (pc = "parseLine" /\ from # "END") ~> pc \in {"idle", "closed"}
=============================================================================
