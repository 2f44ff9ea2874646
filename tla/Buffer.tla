------------------------------- MODULE Buffer -------------------------------
(***************************************************************************)
(* Buffer: a vector of bytes with a read and a write index, 0 <= read <=    *)
(* write <= size, of which the bytes in between are the content.  The       *)
(* operations are operators on its value.                                   *)
(*                                                                          *)
(* Nothing reads a byte outside the content, so the model does not keep     *)
(* what is left there: it is Junk, and Junk that appears in a content shows *)
(* an index gone wrong.                                                     *)
(***************************************************************************)
EXTENDS Naturals, Sequences

CONSTANTS InitialSize,  \* INITTIAL_SIZE
          ChunkSize,    \* what readFromFd() asks of one read()
          Junk          \* a byte that is no part of any content

ASSUME BufferAssumption == /\ InitialSize \in Nat
                           /\ ChunkSize \in Nat \ {0}

\* m_read_index, m_write_index and m_buffer (indexed from 1)
NewBuffer == [r |-> 0, w |-> 0, mem |-> [i \in 1..InitialSize |-> Junk]]

ReadableBytes(b) == b.w - b.r
WritableBytes(b) == Len(b.mem) - b.w

Content(b) == SubSeq(b.mem, b.r + 1, b.w)

\* Mutant: the last byte of the content is not moved.
MakeSpaceShort(b, len) ==
  IF b.r + WritableBytes(b) >= len
  THEN [r |-> 0, w |-> ReadableBytes(b),
        mem |-> [i \in 1..Len(b.mem) |->
                   IF i < ReadableBytes(b) THEN b.mem[b.r + i] ELSE Junk]]
  ELSE [b EXCEPT !.mem = [i \in 1..(b.w + len) |->
                            IF i <= b.w THEN b.mem[i] ELSE Junk]]

\* makeSpace(): the content is moved to the front, or the vector grows.
MakeSpace(b, len) ==
  IF b.r + WritableBytes(b) >= len
  THEN [r |-> 0, w |-> ReadableBytes(b),
        mem |-> [i \in 1..Len(b.mem) |->
                   IF i <= ReadableBytes(b) THEN b.mem[b.r + i] ELSE Junk]]
  ELSE [b EXCEPT !.mem = [i \in 1..(b.w + len) |->
                            IF i <= b.w THEN b.mem[i] ELSE Junk]]

EnsureEnoughSpace(b, len) ==
  IF WritableBytes(b) < len THEN MakeSpace(b, len) ELSE b

\* std::copy() to the write index
CopyIn(b, msg) ==
  [b EXCEPT !.w = b.w + Len(msg),
            !.mem = [i \in 1..Len(b.mem) |->
                       IF i \in (b.w + 1)..(b.w + Len(msg)) THEN msg[i - b.w]
                                                             ELSE b.mem[i]]]

\* append()
AppendBytes(b, msg) == CopyIn(EnsureEnoughSpace(b, Len(msg)), msg)

\* readFromFd(): the bytes that have arrived, in pieces of ChunkSize
ReadFromFd(b, bytes) ==
  LET read[n \in 0..Len(bytes)] ==
        IF n = 0 THEN b
        ELSE AppendBytes(read[n - 1],
                         SubSeq(bytes, (n - 1) * ChunkSize + 1,
                                IF n * ChunkSize < Len(bytes) THEN n * ChunkSize
                                                              ELSE Len(bytes)))
  IN  read[(Len(bytes) + ChunkSize - 1) \div ChunkSize]

\* The bytes up to the new read index are content no more.
Advance(b, index) == [b EXCEPT !.r = index,
                               !.mem = [i \in DOMAIN b.mem |->
                                          IF i <= index THEN Junk ELSE b.mem[i]]]

\* retrieveAll()
RetrieveAll(b) == [r |-> 0, w |-> 0, mem |-> [i \in DOMAIN b.mem |-> Junk]]

\* Mutant: a partial write is repeated from its beginning.
WriteToFdAgain(b, n) == IF n = ReadableBytes(b) THEN RetrieveAll(b) ELSE b

\* writeToFd(), when the socket takes n bytes in all
WriteToFd(b, n) ==
  IF n = ReadableBytes(b) THEN RetrieveAll(b) ELSE Advance(b, b.r + n)

\* Where a line ends: its '\r' and the '\n' behind it are both content.
LineEnds(b) == {i \in (b.r + 2)..b.w : b.mem[i - 1] = "CR" /\ b.mem[i] = "LF"}

\* getAnHTTPLine(): the line that is returned and the buffer that is left.  A
\* line that has not ended is returned without its last byte, and left there.
GetAnHTTPLine(b) ==
  IF LineEnds(b) = {}
  THEN [line |-> SubSeq(b.mem, b.r + 1, b.w - 1), rest |-> b]
  ELSE LET end == CHOOSE i \in LineEnds(b) : \A j \in LineEnds(b) : i <= j
       IN  [line |-> SubSeq(b.mem, b.r + 1, end), rest |-> Advance(b, end)]
=============================================================================
